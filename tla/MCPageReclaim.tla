--------------------------- MODULE MCPageReclaim ---------------------------
(***************************************************************************)
(* PageReclaim for TLC.  Pages and readers are interchangeable.            *)
(***************************************************************************)
EXTENDS PageReclaim, TLC

Interchangeable == Permutations(Pages) \cup Permutations(Readers)
=============================================================================
