----------------------------- MODULE FileLength -----------------------------
(***************************************************************************)
(* The length of the database file and the layouts that describe it: an    *)
(* abstraction of Regions without the allocators.  The file is set to its  *)
(* new length before the layout in memory grows, but cut only after the    *)
(* commit of the smaller layout is on disk; a crash leaves the file as it  *)
(* is, and the header on disk as old as the last commit.                   *)
(*                                                                         *)
(*   layout   the layout in the header in memory                           *)
(*   file     the length of the file, in pages                             *)
(*   disk     the header on disk: [layout, clean]                          *)
(*   status   "open", "cut" (committed, not yet cut) or "closed"           *)
(***************************************************************************)
EXTENDS Layout

VARIABLES layout, file, disk, status

vars == <<layout, file, disk, status>>

TypeOK ==
  /\ layout \in Layouts /\ file \in Nat
  /\ disk \in [layout : Layouts, clean : BOOLEAN]
  /\ status \in {"open", "cut", "closed"}

Init ==
  /\ \E pages \in 1..RegionPages : layout = calculate(pages)
  /\ file = layout_len(layout)
  /\ disk = [layout |-> layout, clean |-> FALSE] /\ status = "open"

\* An allocation of growth pages, never more than a region has, for which there is no room.
Grow(growth) ==
  /\ status = "open"
  /\ layout' = calculate(next_desired_size(layout, growth))
  /\ file' = layout_len(layout')
  /\ UNCHANGED <<disk, status>>

\* commit_inner() to the end of its flush, with the layout it leaves.
Commit(l, next) ==
  /\ status = "open"
  /\ layout' = l /\ disk' = [layout |-> l, clean |-> FALSE] /\ status' = next
  /\ UNCHANGED file

Cut ==
  /\ status = "cut"
  /\ file' = layout_len(layout) /\ status' = "open"
  /\ UNCHANGED <<layout, disk>>

Close ==
  /\ status = "open"
  /\ disk' = [layout |-> layout, clean |-> TRUE] /\ status' = "closed"
  /\ UNCHANGED <<layout, file>>

Crash == status # "closed" /\ status' = "closed" /\ UNCHANGED <<layout, file, disk>>

Open ==
  /\ status = "closed"
  /\ layout' = IF disk.clean /\ layout_len(disk.layout) = file THEN disk.layout ELSE recalculate(file)
  /\ disk' = [layout |-> layout', clean |-> FALSE] /\ status' = "open"
  /\ UNCHANGED file

Next ==
  \/ \E growth \in 1..RegionPages : Grow(growth)
  \/ Commit(layout, "open")
  \/ \E pages \in reductions(layout) : Commit(reduce_last_region(layout, pages), "cut")
  \/ Cut \/ Close \/ Crash \/ Open

Spec == Init /\ [][Next]_vars

-----------------------------------------------------------------------------

\* Whenever the file is opened, after a crash at any step, it is at least as
\* long as the layout in the header says, and the layout recalculated for its
\* length has exactly that length: the assertions of TransactionalMemory::new().
OpenAssertsHold ==
  /\ file >= layout_len(disk.layout)
  /\ layout_len(recalculate(file)) = file

\* The inductive invariant: the file has the length of some layout; that of the
\* layout in memory, unless it is still to be cut to the layout on disk.
Inv ==
  /\ TypeOK
  /\ recalculate(file) \in Layouts
  /\ OpenAssertsHold
  /\ status = "open" => file = layout_len(layout)
  /\ status = "cut" => disk.layout = layout
=============================================================================
