----------------------------- MODULE MCMultimap -----------------------------
(***************************************************************************)
(* Multimap for TLC.  Half a page takes two short values or one long one,  *)
(* the longest value never fits inline, and three values can fill a leaf.  *)
(* The table's keys have a fixed width: like the pairs of a subtree, whose *)
(* values are (), a pair of the table then has one end to store.           *)
(***************************************************************************)
EXTENDS Multimap

MCKeyLen == [k \in Keys |-> CASE k = 13 -> 12 [] k = 12 -> 9 [] k \in Vals -> 3 [] OTHER -> 1]

MCScopes ==
  {[pairs |-> ({1} \X Vals) \cup {<<2, 13>>}, ops |-> 2],
   [pairs |-> TableKeys \X {11, 12, 13}, ops |-> 1]}

=============================================================================
