---------------------------- MODULE MCPageCache -----------------------------
(***************************************************************************)
(* Three pages, of which the first two may be one block.                   *)
(***************************************************************************)
EXTENDS PageCache

MCBlocks == {<<1, 1>>, <<3, 1>>, <<1, 2>>}
MCLeaves == {<<1, 1>>, <<1, 2>>}
MCBranches == {<<1, 2>>, <<3, 1>>}
MCLongLeaves == {<<1, 2>>}
MCShortBranches == {<<1, 1>>, <<3, 1>>}
MCSymmetry == Permutations(Readers)
=============================================================================
