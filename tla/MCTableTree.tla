---------------------------- MODULE MCTableTree -----------------------------
(***************************************************************************)
(* TableTree for TLC: a table with two keys has a branch and two leaves,   *)
(* one of them a block of two pages; the table tree of two tables has a    *)
(* branch and two leaves as well.                                          *)
(***************************************************************************)
EXTENDS TableTree

MCKeyLen == [k \in Keys |-> IF k \in TableKeys THEN 7 ELSE 1]
MCMaxCalls == <<4, 2>>
MCValue == [k \in TableKeys |-> [len |-> IF k = 12 THEN 36 ELSE 8]]

=============================================================================
