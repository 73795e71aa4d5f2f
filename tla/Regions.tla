------------------------------ MODULE Regions -------------------------------
(***************************************************************************)
(* Allocation of pages over the regions of the file: the region tracker    *)
(* (region.rs), the allocators of the regions, and what page_manager.rs    *)
(* does with them when pages are allocated and freed, when transactions    *)
(* end, when the file grows and shrinks, and when it is opened again.      *)
(*                                                                         *)
(*   al         the allocators, [tracker, regions]; tracker: order ->      *)
(*              bitmap of regions, regions: sequence of buddy allocators   *)
(*   layout     the layout in the header in memory                         *)
(*   file       length of the file, in pages                               *)
(*   allocated  the pages in use, each [region, index, order]              *)
(*   since      allocated_since_commit                                     *)
(*   unpersisted   pages that only non-durable commits use                 *)
(*   dropped    pages the open transaction no longer uses                  *)
(*   stale      pages that a commit dropped and a later one will free      *)
(*   disk       the header and the last durable commit: [layout, clean,    *)
(*              pages, stale, saved], saved the allocator state table      *)
(*   status     "open", "cut" (the commit is durable, the file not yet     *)
(*              shrunk) or "closed"                                        *)
(*   panicked   an assertion or an unwrap() failed                         *)
(*   done       how many allocations, commits and openings there were      *)
(***************************************************************************)
EXTENDS BuddyAllocator

CONSTANTS InitialRegions,  \* INITIAL_REGIONS: length of a new tracker
          TrackerCapacity, \* MAX_REGIONS
          InitialPages,    \* usable pages of a new file
          MaxRegions,      \* bound: regions of the file
          MaxAllocations, MaxCommits, MaxOpens  \* bounds: how often

VARIABLES al, layout, file, allocated, since, unpersisted, dropped, stale, disk, status,
          panicked, done

vars == <<al, layout, file, allocated, since, unpersisted, dropped, stale, disk, status,
          panicked, done>>

ASSUME RegionsAssumption ==
  /\ InitialRegions \in 1..TrackerCapacity /\ MaxRegions \in 1..TrackerCapacity
  /\ InitialPages \in 1..RegionPages
  /\ MaxAllocations \in Nat /\ MaxCommits \in Nat /\ MaxOpens \in Nat

-----------------------------------------------------------------------------
(* The region tracker.                                                     *)

tracker_new(regions) == [o \in Orders |-> bitmap_new(regions, TrackerCapacity)]
find_free(t, order) == find_first_unset(t[order])
mark_free(t, order, r) == [o \in Orders |-> IF o <= order THEN bitmap_clear(t[o], r) ELSE t[o]]
mark_full_All(t, order, r) == [o \in Orders |-> bitmap_set(t[o], r)]  \* faulty: the lower orders too
mark_full(t, order, r) == [o \in Orders |-> IF o >= order THEN bitmap_set(t[o], r) ELSE t[o]]
tracker_len(t) == bitmap_len(t[0])
tracker_resize(t, n) == [o \in Orders |-> bitmap_resize(t[o], n)]

\* Allocators::new().
RECURSIVE mark_regions(_, _)
mark_regions(t, n) == IF n = 0 THEN t ELSE mark_free(mark_regions(t, n - 1), MaxOrder, n - 1)

allocators_new(l) ==
  LET n == num_regions(l)
      length == IF n > InitialRegions THEN n ELSE InitialRegions
  IN  [tracker |-> mark_regions(tracker_new(length), n),
       regions |-> [r \in 1..n |-> buddy_new(region_pages(l, r - 1))]]

\* Allocators::resize_to(), when the file shrinks and when it grows.
RECURSIVE mark_gone(_, _, _)
mark_gone(t, from, to) == IF from = to THEN t ELSE mark_gone(mark_full(t, 0, from), from + 1, to)

shrink_to(a, l) ==
  LET n == num_regions(l)
      kept == SubSeq(a.regions, 1, n)
  IN  [tracker |-> mark_gone(a.tracker, n, Len(a.regions)),
       regions |-> IF kept[n].len > last_region_pages(l)
                   THEN [kept EXCEPT ![n] = buddy_resize(@, last_region_pages(l))] ELSE kept]

WithRegion(a, i, b) ==
  LET t == IF i >= tracker_len(a.tracker) THEN tracker_resize(a.tracker, i + 1) ELSE a.tracker
  IN  [tracker |-> mark_free(t, highest_free_order(b), i),
       regions |-> IF i < Len(a.regions) THEN [a.regions EXCEPT ![i + 1] = b]
                   ELSE Append(a.regions, b)]

RECURSIVE grow_to(_, _, _)
grow_to(a, l, i) ==
  LET pages == region_pages(l, i)
  IN  IF i = num_regions(l) THEN a
      ELSE grow_to(IF i >= Len(a.regions) THEN WithRegion(a, i, buddy_new(pages))
                   ELSE IF a.regions[i + 1].len = pages THEN a
                   ELSE WithRegion(a, i, buddy_resize(a.regions[i + 1], pages)), l, i + 1)

resize_to(a, l) ==
  LET n == num_regions(l)
      last == a.regions[Len(a.regions)].len
  IN  IF n < Len(a.regions) \/ (n = Len(a.regions) /\ last_region_pages(l) < last)
      THEN shrink_to(a, l)
      ELSE IF n = Len(a.regions) /\ last_region_pages(l) = last THEN a
      ELSE grow_to(a, l, 0)

-----------------------------------------------------------------------------
(* Allocating and freeing.                                                 *)

PageNumber(region, index, order) == [region |-> region, index |-> index, order |-> order]

\* allocate_helper_retry(): [al, page]; marks the regions it tries in vain.
Taken(a, c, r, order) ==
  [al |-> [a EXCEPT !.regions[c + 1] = r.a,
                    !.tracker = IF r.page = <<>> THEN mark_full(@, order, c) ELSE @],
   page |-> [i \in DOMAIN r.page |-> PageNumber(c, r.page[i], order)]]

TakeFrom(a, c, order, lowest) ==
  Taken(a, c, IF lowest THEN alloc_lowest(a.regions[c + 1], order)
              ELSE alloc_inner(a.regions[c + 1], order), order)

RECURSIVE retry_loop(_, _, _)
retry_loop(r, order, lowest) ==
  LET c == find_free(r.al.tracker, order)
  IN  IF r.page # <<>> \/ c = <<>> THEN r
      ELSE retry_loop(TakeFrom(r.al, c[1], order, lowest), order, lowest)

allocate_helper_retry(a, order, lowest) ==
  retry_loop([al |-> a, page |-> <<>>], order, lowest)

\* The layout grow() chooses.
grown(l, order) == calculate(next_desired_size(l, 2^order))

\* storage.resize().
resize_file_Deferred(from, to) == IF to > from THEN from ELSE to  \* faulty: the file does not grow
resize_file(from, to) == to

\* free_helper(); rollback_uncommitted_writes() does the same to each page.
free_helper(a, p) ==
  [tracker |-> mark_free(a.tracker, p.order, p.region),
   regions |-> [a.regions EXCEPT ![p.region + 1] = free_inner(@, p.index, p.order)]]

RECURSIVE free_all(_, _)
free_all(a, S) ==
  IF S = {} THEN a ELSE LET p == CHOOSE p \in S : TRUE IN free_all(free_helper(a, p), S \ {p})

\* try_shrink(): [al, layout, shrunk]; reduce_by is how many pages it takes off.
reduce_by(regions, len, trailing, force) ==
  IF regions > 1 /\ trailing = len THEN trailing
  ELSE IF force THEN IF trailing < len - 1 THEN trailing ELSE len - 1
  ELSE trailing \div 2

ShrunkTo(a, l) == [al |-> resize_to(a, l), layout |-> l, shrunk |-> TRUE]

try_shrink(a, l, force) ==
  LET last == a.regions[num_regions(l)]
      trailing == trailing_free_pages(last)
  IN  IF trailing = 0 \/ (trailing < last.len \div 2 /\ ~force)
      THEN [al |-> a, layout |-> l, shrunk |-> FALSE]
      ELSE ShrunkTo(a, reduce_last_region(l, reduce_by(num_regions(l), last.len, trailing, force)))

\* begin_repair() and mark_page_allocated() of every page in use.
RECURSIVE mark_allocated(_, _)
mark_allocated(a, S) ==
  IF S = {} THEN a
  ELSE LET p == CHOOSE p \in S : TRUE
       IN  mark_allocated([a EXCEPT !.regions[p.region + 1] = record_alloc_inner(@, p.index, p.order)],
                          S \ {p})

repaired(l, pages) == mark_allocated(allocators_new(l), pages)

\* What the allocator state table keeps, and load_allocator_state().
reloaded(a) == [tracker |-> [o \in Orders |-> bitmap_reload(a.tracker[o])],
                regions |-> [r \in DOMAIN a.regions |-> buddy_reload(a.regions[r])]]

load_allocator_state(a, l) == resize_to(reloaded(a), l)

-----------------------------------------------------------------------------
(* The state machine.                                                      *)

Init ==
  /\ layout = calculate(InitialPages)
  /\ al = allocators_new(layout)
  /\ file = layout_len(layout)
  /\ allocated = {} /\ since = {} /\ unpersisted = {} /\ dropped = {} /\ stale = {}
  /\ disk = [layout |-> layout, clean |-> FALSE, pages |-> {}, stale |-> {}, saved |-> <<>>]
  /\ status = "open" /\ panicked = FALSE
  /\ done = [allocations |-> 0, commits |-> 0, opens |-> 0]

Running == status = "open" /\ ~panicked

\* allocate() and allocate_lowest().
Allocate(order, lowest) ==
  /\ Running /\ done.allocations < MaxAllocations
  /\ done' = [done EXCEPT !.allocations = @ + 1]
  /\ \E first \in {allocate_helper_retry(al, order, lowest)} :
       \/ /\ first.page # <<>>
          /\ al' = first.al
          /\ allocated' = allocated \cup {first.page[1]} /\ since' = since \cup {first.page[1]}
          /\ UNCHANGED <<layout, file, panicked>>
       \/ /\ first.page = <<>>
          /\ layout' = grown(layout, order)
          /\ num_regions(layout') <= MaxRegions
          /\ file' = resize_file(file, layout_len(layout'))
          /\ \E second \in {allocate_helper_retry(resize_to(first.al, layout'), order, lowest)} :
               /\ al' = second.al
               /\ panicked' = (second.page = <<>>)
               /\ allocated' = allocated \cup {second.page[i] : i \in DOMAIN second.page}
               /\ since' = since \cup {second.page[i] : i \in DOMAIN second.page}
  /\ UNCHANGED <<unpersisted, dropped, stale, disk, status>>

\* free_if_uncommitted().
FreeUncommitted(p) ==
  /\ Running
  /\ al' = free_helper(al, p)
  /\ allocated' = allocated \ {p} /\ since' = since \ {p}
  /\ UNCHANGED <<layout, file, unpersisted, dropped, stale, disk, status, panicked, done>>

\* A committed page is no longer used.
Drop(p) ==
  /\ Running
  /\ dropped' = dropped \cup {p}
  /\ UNCHANGED <<al, layout, file, allocated, since, unpersisted, stale, disk, status, panicked, done>>

\* rollback_uncommitted_writes().
Rollback ==
  /\ Running /\ since \cup dropped # {}
  /\ al' = free_all(al, since)
  /\ allocated' = allocated \ since /\ since' = {} /\ dropped' = {}
  /\ UNCHANGED <<layout, file, unpersisted, stale, disk, status, panicked, done>>

\* non_durable_commit(), with free_if_unpersisted() of the pages it no longer uses.
NonDurableCommit ==
  /\ Running /\ done.commits < MaxCommits /\ since \cup dropped # {}
  /\ LET gone == dropped \cap unpersisted
     IN  /\ al' = free_all(al, gone)
         /\ allocated' = allocated \ gone
         /\ unpersisted' = (unpersisted \ gone) \cup since
         /\ stale' = stale \cup (dropped \ gone)
  /\ since' = {} /\ dropped' = {}
  /\ done' = [done EXCEPT !.commits = @ + 1]
  /\ UNCHANGED <<layout, file, disk, status, panicked>>

\* durable_commit(): process_freed_pages(), the allocator state if quick, then commit_inner()
\* up to the flush; force is ShrinkPolicy::Maximum.
Commit(force, quick) ==
  /\ Running /\ done.commits < MaxCommits
  /\ \E freed \in {free_all(al, stale)} : \E s \in {try_shrink(freed, layout, force)} :
         /\ al' = s.al /\ layout' = s.layout
         /\ allocated' = allocated \ stale /\ stale' = dropped
         /\ disk' = [layout |-> s.layout, clean |-> FALSE, pages |-> allocated', stale |-> stale',
                     saved |-> IF quick THEN <<freed>> ELSE <<>>]
         /\ status' = IF s.shrunk THEN "cut" ELSE "open"
  /\ since' = {} /\ unpersisted' = {} /\ dropped' = {} /\ done' = [done EXCEPT !.commits = @ + 1]
  /\ UNCHANGED <<file, panicked>>

\* The rest of commit_inner(): the file is cut after the flush.
Cut ==
  /\ status = "cut"
  /\ file' = resize_file(file, layout_len(layout)) /\ status' = "open"
  /\ UNCHANGED <<al, layout, allocated, since, unpersisted, dropped, stale, disk, panicked, done>>

Stopped ==
  /\ al' = [tracker |-> <<>>, regions |-> <<>>]
  /\ allocated' = {} /\ since' = {} /\ unpersisted' = {} /\ dropped' = {} /\ stale' = {}
  /\ status' = "closed"
  /\ UNCHANGED <<layout, file, panicked, done>>

Close_OldLayout ==  \* faulty: marks the file clean without the layout in memory
  /\ Running /\ since = {} /\ dropped = {}
  /\ disk' = [disk EXCEPT !.clean = TRUE]
  /\ Stopped

\* close() after the last transaction, and a crash.
Close ==
  /\ Running /\ since = {} /\ dropped = {}
  /\ disk' = [disk EXCEPT !.layout = layout, !.clean = TRUE]
  /\ Stopped

Crash == status \in {"open", "cut"} /\ ~panicked /\ Stopped /\ UNCHANGED disk

\* TransactionalMemory::new(), then quick-repair or a full repair, then begin_writable().
Open ==
  /\ status = "closed" /\ done.opens < MaxOpens
  /\ done' = [done EXCEPT !.opens = @ + 1]
  /\ LET len == layout_len(disk.layout)
         l == IF disk.clean /\ len = file THEN disk.layout ELSE recalculate(file)
     IN  /\ layout' = l
         /\ al' = IF disk.saved # <<>> THEN load_allocator_state(disk.saved[1], l)
                  ELSE repaired(l, disk.pages)
         /\ disk' = [disk EXCEPT !.layout = l, !.clean = FALSE]
         /\ panicked' = (file < len \/ layout_len(l) # file)
  /\ allocated' = disk.pages /\ stale' = disk.stale
  /\ since' = {} /\ unpersisted' = {} /\ dropped' = {}
  /\ status' = "open"
  /\ UNCHANGED file

Next ==
  \/ \E order \in Orders, lowest \in BOOLEAN : Allocate(order, lowest)
  \/ \E p \in since : FreeUncommitted(p)
  \/ \E p \in allocated \ (since \cup dropped \cup stale) : Drop(p)
  \/ Rollback \/ NonDurableCommit
  \/ \E force, quick \in BOOLEAN : Commit(force, quick)
  \/ Cut \/ Close \/ Crash \/ Open

Spec == Init /\ [][Next]_vars

-----------------------------------------------------------------------------
(* Properties.                                                             *)

\* The pages of the file a page number stands for.
Covers(p) == {<<p.region, i>> : i \in (p.index * 2^p.order)..((p.index + 1) * 2^p.order - 1)}

\* Pages in use never overlap, and every page of the open transaction and of the last
\* durable commit is within the file, also when the file was cut before a crash.
BlocksDisjoint ==
  LET within(p) == \A c \in Covers(p) : region_base_address(c[1]) + HeaderPages + c[2] < file
  IN  /\ \A p, q \in allocated : p # q => Covers(p) \cap Covers(q) = {}
      /\ \A p \in allocated \cup disk.pages : within(p)

\* The file and the layouts get only the lengths that FileLength allows, in
\* its order: the file is longer before the layout is, and is cut after the
\* smaller layout is on disk.
FL == INSTANCE FileLength WITH disk <- [layout |-> disk.layout, clean |-> disk.clean]
ImplementsFileLength == FL!Spec

\* At any crash, what the next opening asserts about the length of the file is true.
OpenAssertsHold == FL!OpenAssertsHold

\* Neither the assertions on the length of the file when it is opened nor the unwrap() of
\* an allocation after the file has grown fails.
RegionAssertsHold == ~panicked

\* The blocks of an order that are free while the block twice as large is not.
FreeBlocks(r, len, o) ==
  LET used == UNION {Covers(p) : p \in allocated}
      free(q, i) == (i + 1) * 2^q <= len /\ \A x \in (i * 2^q)..((i + 1) * 2^q - 1) : <<r, x>> \notin used
  IN  {i \in 0..(len \div 2^o) : free(o, i) /\ (o < MaxOrder => ~free(o + 1, i \div 2))}

\* "Pages are marked free at only a single order, and it must always be the largest order":
\* the allocators are determined by the pages in use, whether these were reached by
\* allocating and freeing, growing and shrinking, by loading a saved state or by a full
\* repair; and find_first_unset() can trust the upper levels of every bitmap.
FreeAtLargestOrder ==
  status # "closed" =>
    /\ Len(al.regions) = num_regions(layout)
    /\ \A r \in DOMAIN al.regions, o \in Orders :
         LET a == al.regions[r]
             b == a.free[o]
         IN  /\ a.len = region_pages(layout, r - 1)
             /\ Bits(b).unset = FreeBlocks(r - 1, a.len, o)
             /\ \A h \in 1..(Len(b) - 1), i \in 0..(b[Len(b)].len) :
                  i < b[h].len => (i \in b[h].unset <=> ~level_full(b[h + 1], i * Group))

\* "Allocates a page of the given order at the lowest index possible", and the pages that
\* shrinking may cut are the free ones at the end.
LowestAndTrailing ==
  \A r \in DOMAIN al.regions :
    LET a == al.regions[r]
        free == {i \in 0..(a.len - 1) : find_free_order(a, i) # <<>>}
        fits(o) == {i \in 0..(a.len \div 2^o - 1) : (i * 2^o)..((i + 1) * 2^o - 1) \subseteq free}
        tail == {i \in 0..(a.len - 1) : i..(a.len - 1) \subseteq free}
    IN  /\ \A o \in Orders : alloc_lowest(a, o).page = Least(fits(o))
        /\ trailing_free_pages(a) = Cardinality(tail)
        /\ count_free_pages(a) = Cardinality(free)

\* "Tracks the page orders that MAY BE free in each region": no region with a free block of
\* an order is marked full at that order.
TrackerOptimistic ==
  \A r \in DOMAIN al.regions, o \in Orders :
    alloc_inner(al.regions[r], o).page # <<>> => ~bitmap_get(al.tracker[o], r - 1)

\* A region with a free page is found, by the tracker, for a page of order 0.
SmallestFound ==
  \A r \in DOMAIN al.regions :
    alloc_inner(al.regions[r], 0).page # <<>> => ~bitmap_get(al.tracker[0], r - 1)

=============================================================================
