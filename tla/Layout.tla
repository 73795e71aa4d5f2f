------------------------------- MODULE Layout -------------------------------
(***************************************************************************)
(* How regions are laid out in the file (layout.rs), counted in pages: a   *)
(* page for the database header, then the full regions and a trailing      *)
(* partial one.  A layout is [full, trailing], trailing = 0 for none.      *)
(***************************************************************************)
EXTENDS Integers

CONSTANTS RegionPages,  \* data pages of a full region
          HeaderPages   \* header pages of a region

ASSUME LayoutAssumption == RegionPages \in Nat \ {0} /\ HeaderPages \in Nat

RegionLen == HeaderPages + RegionPages

num_full_regions(l) == l.full
num_regions(l) == IF l.trailing > 0 THEN l.full + 1 ELSE l.full

\* Regions are numbered from 0.
region_pages(l, region) == IF region = l.full THEN l.trailing ELSE RegionPages
last_region_pages(l) == region_pages(l, num_regions(l) - 1)
region_base_address(region) == 1 + region * RegionLen

layout_len(l) ==
  region_base_address(num_regions(l) - 1) + HeaderPages + last_region_pages(l)

usable_pages(l) == l.full * RegionPages + l.trailing

\* reduce_last_region().
reduce_last_region(l, pages) ==
  IF l.trailing > 0 THEN [full |-> l.full, trailing |-> l.trailing - pages]
  ELSE [full |-> l.full - 1, trailing |-> RegionPages - pages]

\* DatabaseLayout::recalculate(): the layout that fits a file of this length.
recalculate(file_len) ==
  LET regions == (file_len - 1) \div RegionLen
      remaining == (file_len - 1) - regions * RegionLen
  IN  [full |-> regions,
       trailing |-> IF remaining >= HeaderPages + 1 THEN remaining - HeaderPages ELSE 0]

\* DatabaseLayout::calculate(): the layout with this many usable pages.
calculate(desired) ==
  IF desired <= RegionPages THEN [full |-> 0, trailing |-> desired]
  ELSE [full |-> desired \div RegionPages,
        trailing |-> desired - (desired \div RegionPages) * RegionPages]

\* The layouts of a file with at least one page.
Layouts == {l \in [full : Nat, trailing : 0..RegionPages] : l.full > 0 \/ l.trailing > 0}

\* How many usable pages grow() asks for, to allocate growth pages.
next_desired_size_Tight(l, growth) == usable_pages(l) + growth  \* faulty: no room for alignment
next_desired_size(l, growth) ==
  LET usable == usable_pages(l)
      spare == RegionPages - l.trailing
  IN  IF l.full = 0 THEN IF 2 * usable > usable + 2 * growth THEN 2 * usable ELSE usable + 2 * growth
      ELSE IF l.trailing = 0 THEN usable + RegionPages
      ELSE IF 2 * growth < spare THEN usable + spare
      ELSE usable + RegionPages + spare

\* What try_shrink() may take from the last region: never the last page of the file.
reductions(l) ==
  {pages \in 0..last_region_pages(l) : num_regions(l) > 1 \/ pages < last_region_pages(l)}

=============================================================================
