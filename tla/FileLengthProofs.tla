-------------------------- MODULE FileLengthProofs --------------------------
(***************************************************************************)
(* For every size of regions and of their headers, the file can be opened  *)
(* again after a crash at any step of its growing and shrinking.           *)
(***************************************************************************)
EXTENDS FileLength, TLAPS

-----------------------------------------------------------------------------
(* Arithmetic of regions.                                                  *)

\* A region has at least one page.
LEMMA RegionLenPositive ==
  /\ RegionLen \in Nat \ {0} /\ RegionLen = HeaderPages + RegionPages
  /\ RegionPages \in Nat \ {0} /\ HeaderPages \in Nat
BY LayoutAssumption DEF RegionLen

\* Multiplying by a positive number is monotone.
LEMMA ProductGrows ==
  ASSUME NEW a \in Int, NEW b \in Int, a <= b, NEW m \in Nat
  PROVE  a * m <= b * m
<1> DEFINE d == b - a
<1>1. d \in Nat
  OBVIOUS
<1>2. d * m >= 0
  BY <1>1
<1>3. d * m = b * m - a * m
  OBVIOUS
<1> QED
  BY <1>2, <1>3

\* Quotient and remainder are unique: what recalculate() divides by.
LEMMA DivisionUnique ==
  ASSUME NEW m \in Nat \ {0}, NEW q \in Nat, NEW r \in Nat, r < m
  PROVE  (q * m + r) \div m = q
<1> DEFINE x == q * m + r
<1> DEFINE p == x \div m
<1> DEFINE s == x % m
<1>0. q * m \in Nat
  OBVIOUS
<1>1. x \in Nat
  BY <1>0
<1>2. p \in Int /\ s \in 0..(m - 1) /\ x = m * p + s
  BY <1>1
<1> HIDE DEF p, s
<1>3. p * m = m * p
  BY <1>2
<1>4. CASE p < q
  <2>1. (p + 1) * m <= q * m
    BY <1>2, <1>4, ProductGrows
  <2>2. (p + 1) * m = p * m + m
    BY <1>2
  <2> QED
    BY <1>0, <1>2, <1>3, <2>1, <2>2
<1>5. CASE q < p
  <2>1. (q + 1) * m <= p * m
    BY <1>2, <1>5, ProductGrows
  <2>2. (q + 1) * m = q * m + m
    OBVIOUS
  <2> QED
    BY <1>0, <1>2, <1>3, <2>1, <2>2
<1> QED
  BY <1>2, <1>4, <1>5 DEF p

-----------------------------------------------------------------------------
(* Lengths of layouts.                                                     *)

\* The pages of the trailing region, its header included.
Trailing(l) == IF l.trailing > 0 THEN HeaderPages + l.trailing ELSE 0

\* What a layout is made of.
LEMMA LayoutFields ==
  ASSUME NEW l \in Layouts
  PROVE  /\ l = [full |-> l.full, trailing |-> l.trailing]
         /\ l.full \in Nat /\ l.trailing \in 0..RegionPages
         /\ l.full > 0 \/ l.trailing > 0
BY DEF Layouts

\* A record of two such numbers is a layout.
LEMMA LayoutMade ==
  ASSUME NEW f \in Nat, NEW t \in 0..RegionPages, f > 0 \/ t > 0
  PROVE  [full |-> f, trailing |-> t] \in Layouts
BY DEF Layouts

\* The length of the file, counted from its start instead of from its last region.
LEMMA LengthForm ==
  ASSUME NEW l \in Layouts
  PROVE  /\ layout_len(l) = 1 + l.full * RegionLen + Trailing(l)
         /\ l.full * RegionLen \in Nat /\ Trailing(l) \in 0..RegionLen
         /\ layout_len(l) \in Nat
<1>1. /\ l.full \in Nat /\ l.trailing \in Nat /\ l.trailing <= RegionPages
      /\ l.full > 0 \/ l.trailing > 0
  BY LayoutFields, RegionLenPositive
<1>2. l.full * RegionLen \in Nat
  BY <1>1, RegionLenPositive
<1>3. Trailing(l) \in 0..RegionLen
  BY <1>1, RegionLenPositive DEF Trailing
<1>4. CASE l.trailing > 0
  <2>1. layout_len(l) = 1 + (l.full + 1 - 1) * RegionLen + HeaderPages + l.trailing
    BY <1>1, <1>4, RegionLenPositive
    DEF layout_len, num_regions, last_region_pages, region_pages, region_base_address
  <2>2. (l.full + 1 - 1) * RegionLen = l.full * RegionLen
    BY <1>1
  <2> QED
    BY <1>1, <1>2, <1>3, <1>4, <2>1, <2>2, RegionLenPositive DEF Trailing
<1>5. CASE ~(l.trailing > 0)
  <2>1. layout_len(l) = 1 + (l.full - 1) * RegionLen + HeaderPages + RegionPages
    BY <1>1, <1>5, RegionLenPositive
    DEF layout_len, num_regions, last_region_pages, region_pages, region_base_address
  <2>2. (l.full - 1) * RegionLen = l.full * RegionLen - RegionLen
    BY <1>1, RegionLenPositive
  <2> QED
    BY <1>1, <1>2, <1>3, <1>5, <2>1, <2>2, RegionLenPositive DEF Trailing
<1> QED
  BY <1>4, <1>5

\* Of two layouts, the one with more full regions is not shorter.
LEMMA MoreRegionsLonger ==
  ASSUME NEW l \in Layouts, NEW k \in Layouts, l.full < k.full
  PROVE  layout_len(l) <= layout_len(k)
<1>1. l.full \in Nat /\ k.full \in Nat
  BY LayoutFields
<1>2. (l.full + 1) * RegionLen <= k.full * RegionLen
  BY <1>1, ProductGrows, RegionLenPositive
<1>3. (l.full + 1) * RegionLen = l.full * RegionLen + RegionLen
  BY <1>1, RegionLenPositive
<1> QED
  BY <1>1, <1>2, <1>3, LengthForm, RegionLenPositive

\* recalculate() finds a layout of the length that a layout has.
LEMMA RecalculateFits ==
  ASSUME NEW l \in Layouts
  PROVE  /\ recalculate(layout_len(l)) \in Layouts
         /\ layout_len(recalculate(layout_len(l))) = layout_len(l)
<1> DEFINE k == recalculate(layout_len(l))
<1>1. /\ l.full \in Nat /\ l.trailing \in Nat /\ l.trailing <= RegionPages
      /\ l.full > 0 \/ l.trailing > 0
  BY LayoutFields, RegionLenPositive
<1>2. /\ layout_len(l) - 1 = l.full * RegionLen + Trailing(l)
      /\ l.full * RegionLen \in Nat /\ Trailing(l) \in 0..RegionLen /\ layout_len(l) \in Nat
  BY LengthForm, RegionLenPositive
<1>3. CASE Trailing(l) < RegionLen
  <2>0. (l.full * RegionLen + Trailing(l)) \div RegionLen = l.full
    <3>1. Trailing(l) \in Nat
      BY <1>2
    <3> QED
      BY <1>1, <1>3, <3>1, DivisionUnique, RegionLenPositive
  <2>1. (layout_len(l) - 1) \div RegionLen = l.full
    BY <1>2, <2>0
  <2>2. k = [full |-> l.full, trailing |-> IF Trailing(l) >= HeaderPages + 1
                                           THEN Trailing(l) - HeaderPages ELSE 0]
    BY <1>2, <2>1 DEF recalculate
  <2>3. k = l
    BY <1>1, <2>2, LayoutFields, RegionLenPositive DEF Trailing
  <2> QED
    BY <2>3
<1>4. CASE Trailing(l) = RegionLen
  <2>1. (l.full + 1) * RegionLen + 0 = l.full * RegionLen + RegionLen
    BY <1>1, RegionLenPositive
  <2>2. (layout_len(l) - 1) = (l.full + 1) * RegionLen + 0
    BY <1>2, <1>4, <2>1
  <2>3. (layout_len(l) - 1) \div RegionLen = l.full + 1
    <3>1. l.full + 1 \in Nat /\ 0 \in Nat /\ 0 < RegionLen
      BY <1>1, RegionLenPositive
    <3>2. ((l.full + 1) * RegionLen + 0) \div RegionLen = l.full + 1
      BY <3>1, DivisionUnique, RegionLenPositive
    <3> QED
      BY <2>2, <3>2
  <2>4. k = [full |-> l.full + 1, trailing |-> 0]
    BY <1>1, <1>2, <1>4, <2>1, <2>3, RegionLenPositive DEF recalculate
  <2>5. k \in Layouts
    BY <1>1, <2>4, LayoutMade, RegionLenPositive
  <2>6. layout_len(k) = 1 + (l.full + 1) * RegionLen + 0
    BY <2>4, <2>5, LengthForm DEF Trailing
  <2>7. (l.full + 1) * RegionLen \in Nat
    BY <1>1, RegionLenPositive
  <2> HIDE DEF k
  <2>8. layout_len(k) = layout_len(l)
    BY <1>2, <2>2, <2>6, <2>7
  <2> QED
    BY <2>5, <2>8 DEF k
<1> QED
  BY <1>2, <1>3, <1>4, RegionLenPositive

\* calculate() makes a layout that is not shorter than any with fewer usable pages.
LEMMA CalculateCovers ==
  ASSUME NEW l \in Layouts, NEW desired \in Nat, desired >= usable_pages(l)
  PROVE  calculate(desired) \in Layouts /\ layout_len(l) <= layout_len(calculate(desired))
<1> DEFINE k == calculate(desired)
           q == desired \div RegionPages
<1>1. /\ l.full \in Nat /\ l.trailing \in Nat /\ l.trailing <= RegionPages
      /\ l.full > 0 \/ l.trailing > 0
  BY LayoutFields, RegionLenPositive
<1>2. l.full * RegionPages \in Nat /\ l.full * RegionPages + l.trailing <= desired
  BY <1>1, RegionLenPositive DEF usable_pages
<1>3. l.full > 0 => RegionPages <= l.full * RegionPages
  <2>1. l.full > 0 => 1 * RegionPages <= l.full * RegionPages
    BY <1>1, ProductGrows, RegionLenPositive
  <2> QED
    BY <2>1, RegionLenPositive
<1>4. desired > 0
  BY <1>1, <1>2, <1>3, RegionLenPositive
<1>5. CASE desired <= RegionPages
  <2>1. k = [full |-> 0, trailing |-> desired]
    BY <1>5 DEF calculate
  <2>2. k \in Layouts
    BY <1>4, <1>5, <2>1, LayoutMade, RegionLenPositive
  <2>3. layout_len(k) = 1 + HeaderPages + desired
    <3>1. k.full = 0 /\ k.trailing = desired
      BY <2>1
    <3>2. layout_len(k) = 1 + 0 * RegionLen + (HeaderPages + desired)
      BY <1>4, <2>2, <3>1, LengthForm DEF Trailing
    <3> QED
      BY <3>2, RegionLenPositive
  <2>4. CASE l.full = 0
    <3>1. layout_len(l) = 1 + 0 * RegionLen + (HeaderPages + l.trailing)
      BY <1>1, <2>4, LengthForm DEF Trailing
    <3>2. l.trailing <= desired
      BY <1>1, <1>2
    <3> QED
      BY <1>1, <2>2, <2>3, <3>1, <3>2, RegionLenPositive
  <2>5. CASE l.full > 0
    <3>1. l.trailing = 0 /\ desired = RegionPages /\ l.full * RegionPages = RegionPages
      BY <1>1, <1>2, <1>3, <1>5, <2>5, RegionLenPositive
    <3>2. ~(l.full > 1)
      <4>1. l.full > 1 => 2 * RegionPages <= l.full * RegionPages
        BY <1>1, ProductGrows, RegionLenPositive
      <4> QED
        BY <1>2, <3>1, <4>1, RegionLenPositive
    <3>3. layout_len(l) = 1 + 1 * RegionLen + 0
      BY <1>1, <2>5, <3>1, <3>2, LengthForm DEF Trailing
    <3> QED
      BY <2>2, <2>3, <3>1, <3>3, RegionLenPositive
  <2> QED
    BY <1>1, <2>4, <2>5
<1>6. CASE desired > RegionPages
  <2> DEFINE r == desired - q * RegionPages
  <2>1. q \in Int /\ r \in 0..(RegionPages - 1) /\ desired = q * RegionPages + r
    <3>1. /\ q \in Int /\ desired % RegionPages \in 0..(RegionPages - 1)
          /\ desired = RegionPages * q + (desired % RegionPages)
      BY RegionLenPositive
    <3>2. RegionPages * q = q * RegionPages
      BY <3>1, RegionLenPositive
    <3>3. q * RegionPages \in Int
      BY <3>1, RegionLenPositive
    <3> HIDE DEF q
    <3> QED
      BY <3>1, <3>2, <3>3, RegionLenPositive
  <2>2. k = [full |-> q, trailing |-> r]
    BY <1>6, RegionLenPositive DEF calculate
  <2> HIDE DEF q, r
  <2>3. q * RegionPages \in Int
    BY <2>1, RegionLenPositive
  <2>4. q > 0
    <3>1. q <= 0 => q * RegionPages <= 0 * RegionPages
      BY <2>1, ProductGrows, RegionLenPositive
    <3> QED
      BY <1>6, <2>1, <2>3, <3>1, RegionLenPositive
  <2>5. k \in Layouts
    BY <2>1, <2>2, <2>4, LayoutMade, RegionLenPositive
  <2>6. k.full = q /\ k.trailing = r
    BY <2>2
  <2> HIDE DEF k
  <2>7. l.full <= q
    <3>1. l.full >= q + 1 => (q + 1) * RegionPages <= l.full * RegionPages
      BY <1>1, <2>1, ProductGrows, RegionLenPositive
    <3>2. (q + 1) * RegionPages = q * RegionPages + RegionPages
      BY <2>1, RegionLenPositive
    <3> QED
      BY <1>1, <1>2, <2>1, <2>3, <3>1, <3>2, RegionLenPositive
  <2>8. CASE l.full < q
    BY <2>5, <2>6, <2>8, MoreRegionsLonger DEF k
  <2>9. CASE l.full = q
    <3>1. l.trailing <= r
      BY <1>1, <1>2, <2>1, <2>3, <2>9
    <3>2. Trailing(l) <= Trailing(k) /\ Trailing(l) \in Int /\ Trailing(k) \in Int
      BY <1>1, <2>1, <2>6, <3>1, RegionLenPositive DEF Trailing
    <3>3. l.full * RegionLen = k.full * RegionLen /\ l.full * RegionLen \in Nat
      BY <2>6, <2>9, LengthForm
    <3>4. /\ layout_len(l) = 1 + l.full * RegionLen + Trailing(l)
          /\ layout_len(k) = 1 + k.full * RegionLen + Trailing(k)
      BY <2>5, LengthForm
    <3> QED
      BY <2>5, <3>2, <3>3, <3>4 DEF k
  <2> QED
    BY <1>1, <2>1, <2>7, <2>8, <2>9
<1> QED
  BY <1>5, <1>6, RegionLenPositive

\* grow() asks for at least what there is.
LEMMA NextDesiredCovers ==
  ASSUME NEW l \in Layouts, NEW growth \in Nat
  PROVE  next_desired_size(l, growth) \in Nat /\ next_desired_size(l, growth) >= usable_pages(l)
<1>1. l.full \in Nat /\ l.trailing \in Nat /\ l.trailing <= RegionPages
  BY LayoutFields, RegionLenPositive
<1>2. usable_pages(l) \in Nat
  BY <1>1, RegionLenPositive DEF usable_pages
<1> QED
  BY <1>1, <1>2, RegionLenPositive DEF next_desired_size

\* What try_shrink() leaves is a layout that is not longer.
LEMMA ReduceShortens ==
  ASSUME NEW l \in Layouts, NEW pages \in reductions(l)
  PROVE  /\ reduce_last_region(l, pages) \in Layouts
         /\ layout_len(reduce_last_region(l, pages)) <= layout_len(l)
<1> DEFINE k == reduce_last_region(l, pages)
<1>1. /\ l.full \in Nat /\ l.trailing \in Nat /\ l.trailing <= RegionPages
      /\ l.full > 0 \/ l.trailing > 0
      /\ l = [full |-> l.full, trailing |-> l.trailing]
  BY LayoutFields, RegionLenPositive
<1>2. CASE l.trailing > 0
  <2>1. pages \in 0..l.trailing /\ (l.full > 0 \/ pages < l.trailing)
    BY <1>1, <1>2 DEF reductions, last_region_pages, region_pages, num_regions
  <2>2. k = [full |-> l.full, trailing |-> l.trailing - pages]
    BY <1>1, <1>2 DEF reduce_last_region
  <2>3. k \in Layouts
    BY <1>1, <2>1, <2>2, LayoutMade, RegionLenPositive
  <2>4. k.full = l.full /\ k.trailing = l.trailing - pages
    BY <2>2
  <2> HIDE DEF k
  <2>5. Trailing(k) <= Trailing(l) /\ Trailing(l) \in Int /\ Trailing(k) \in Int
    BY <1>1, <2>1, <2>4, RegionLenPositive DEF Trailing
  <2>6. l.full * RegionLen = k.full * RegionLen /\ l.full * RegionLen \in Nat
    BY <2>4, LengthForm
  <2>7. /\ layout_len(l) = 1 + l.full * RegionLen + Trailing(l)
        /\ layout_len(k) = 1 + k.full * RegionLen + Trailing(k)
    BY <2>3, LengthForm
  <2> QED
    BY <2>3, <2>5, <2>6, <2>7 DEF k
<1>3. CASE l.trailing = 0
  <2>1. pages \in 0..RegionPages /\ (l.full > 1 \/ pages < RegionPages)
    BY <1>1, <1>3 DEF reductions, last_region_pages, region_pages, num_regions
  <2>2. k = [full |-> l.full - 1, trailing |-> RegionPages - pages]
    BY <1>1, <1>3 DEF reduce_last_region
  <2>3. k \in Layouts
    BY <1>1, <1>3, <2>1, <2>2, LayoutMade, RegionLenPositive
  <2>4. k.full < l.full
    BY <1>1, <2>2
  <2> QED
    BY <2>3, <2>4, MoreRegionsLonger
<1> QED
  BY <1>1, <1>2, <1>3

-----------------------------------------------------------------------------

\* A new database has the length of its layout.
LEMMA InitInv == Init => Inv
<1> SUFFICES ASSUME Init PROVE Inv
  OBVIOUS
<1>1. PICK pages \in 1..RegionPages : layout = calculate(pages)
  BY DEF Init
<1>2. layout = [full |-> 0, trailing |-> pages]
  BY <1>1, RegionLenPositive DEF calculate
<1>3. layout \in Layouts
  BY <1>2, LayoutMade, RegionLenPositive
<1>4. layout_len(layout) \in Nat
  BY <1>3, LengthForm
<1> QED
  BY <1>3, <1>4, RecalculateFits DEF Init, Inv, TypeOK, OpenAssertsHold

\* Every step keeps a file that can be opened: it grows before the layout on
\* disk does, and is cut only when the layout on disk is already the smaller.
LEMMA NextInv == Inv /\ [Next]_vars => Inv'
<1> SUFFICES ASSUME Inv, [Next]_vars PROVE Inv'
  OBVIOUS
<1>0. /\ layout \in Layouts /\ file \in Nat
      /\ disk \in [layout : Layouts, clean : BOOLEAN] /\ disk.layout \in Layouts
      /\ status \in {"open", "cut", "closed"}
      /\ recalculate(file) \in Layouts
      /\ file >= layout_len(disk.layout) /\ layout_len(recalculate(file)) = file
      /\ status = "open" => file = layout_len(layout)
      /\ status = "cut" => disk.layout = layout
      /\ layout_len(layout) \in Nat /\ layout_len(disk.layout) \in Nat
  BY LengthForm DEF Inv, TypeOK, OpenAssertsHold
<1>1. ASSUME NEW growth \in 1..RegionPages, Grow(growth) PROVE Inv'
  <2>1. next_desired_size(layout, growth) \in Nat
        /\ next_desired_size(layout, growth) >= usable_pages(layout)
    BY <1>0, NextDesiredCovers, RegionLenPositive
  <2>2. layout' \in Layouts /\ layout_len(layout) <= layout_len(layout')
    BY <1>0, <1>1, <2>1, CalculateCovers DEF Grow
  <2>3. file' = layout_len(layout') /\ file = layout_len(layout)
        /\ status' = "open" /\ disk' = disk
    BY <1>0, <1>1 DEF Grow
  <2>4. layout_len(layout') \in Nat
    BY <2>2, LengthForm
  <2>5. recalculate(file') \in Layouts /\ layout_len(recalculate(file')) = file'
    BY <2>2, <2>3, RecalculateFits
  <2>6. file' >= layout_len(disk'.layout)
    BY <1>0, <2>2, <2>3, <2>4
  <2> QED
    BY <1>0, <2>2, <2>3, <2>4, <2>5, <2>6 DEF Inv, TypeOK, OpenAssertsHold
<1>2. CASE Commit(layout, "open")
  <2>1. layout' = layout /\ disk' = [layout |-> layout, clean |-> FALSE] /\ status = "open"
        /\ status' = "open" /\ file' = file
    BY <1>2 DEF Commit
  <2>2. disk' \in [layout : Layouts, clean : BOOLEAN] /\ disk'.layout = layout
    BY <1>0, <2>1
  <2> QED
    BY <1>0, <2>1, <2>2 DEF Inv, TypeOK, OpenAssertsHold
<1>3. ASSUME NEW pages \in reductions(layout),
             Commit(reduce_last_region(layout, pages), "cut")
      PROVE  Inv'
  <2>1. layout' = reduce_last_region(layout, pages) /\ disk' = [layout |-> layout', clean |-> FALSE]
        /\ status = "open" /\ status' = "cut" /\ file' = file
    BY <1>3 DEF Commit
  <2>2. layout' \in Layouts /\ layout_len(layout') <= layout_len(layout)
    BY <1>0, <2>1, ReduceShortens
  <2>3. layout_len(layout') \in Nat
    BY <2>2, LengthForm
  <2>4. disk' \in [layout : Layouts, clean : BOOLEAN] /\ disk'.layout = layout'
    BY <2>1, <2>2
  <2>5. file' >= layout_len(disk'.layout)
    BY <1>0, <2>1, <2>2, <2>3, <2>4
  <2> QED
    BY <1>0, <2>1, <2>2, <2>4, <2>5 DEF Inv, TypeOK, OpenAssertsHold
<1>4. CASE Cut
  <2>1. file' = layout_len(layout) /\ status = "cut" /\ status' = "open"
        /\ layout' = layout /\ disk' = disk /\ disk.layout = layout
    BY <1>0, <1>4 DEF Cut
  <2>2. recalculate(file') \in Layouts /\ layout_len(recalculate(file')) = file'
    BY <1>0, <2>1, RecalculateFits
  <2> QED
    BY <1>0, <2>1, <2>2 DEF Inv, TypeOK, OpenAssertsHold
<1>5. CASE Close
  <2>1. disk' = [layout |-> layout, clean |-> TRUE] /\ status = "open" /\ status' = "closed"
        /\ layout' = layout /\ file' = file
    BY <1>5 DEF Close
  <2>2. disk' \in [layout : Layouts, clean : BOOLEAN] /\ disk'.layout = layout
    BY <1>0, <2>1
  <2> QED
    BY <1>0, <2>1, <2>2 DEF Inv, TypeOK, OpenAssertsHold
<1>6. CASE Crash
  BY <1>0, <1>6 DEF Crash, Inv, TypeOK, OpenAssertsHold
<1>7. CASE Open
  <2>1. layout' \in Layouts /\ layout_len(layout') = file /\ file' = file
    BY <1>0, <1>7 DEF Open
  <2>2. disk' = [layout |-> layout', clean |-> FALSE] /\ status' = "open"
    BY <1>7 DEF Open
  <2>3. disk' \in [layout : Layouts, clean : BOOLEAN] /\ disk'.layout = layout'
    BY <2>1, <2>2
  <2> QED
    BY <1>0, <2>1, <2>2, <2>3 DEF Inv, TypeOK, OpenAssertsHold
<1>8. CASE UNCHANGED vars
  BY <1>8 DEF vars, Inv, TypeOK, OpenAssertsHold
<1> QED
  BY <1>1, <1>2, <1>3, <1>4, <1>5, <1>6, <1>7, <1>8 DEF Next

\* The file passes the assertions of TransactionalMemory::new() whenever it is
\* opened, for regions of every size and a crash at every step.
THEOREM FileOpens == Spec => []OpenAssertsHold
<1>1. Inv => OpenAssertsHold
  BY DEF Inv
<1> QED
  BY <1>1, InitInv, NextInv, PTL DEF Spec
=============================================================================
