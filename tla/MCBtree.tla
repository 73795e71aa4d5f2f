------------------------------ MODULE MCBtree -------------------------------
(***************************************************************************)
(* Btree for TLC: long and short keys, pages that take two or three pairs, *)
(* and branches that split at the third key if two of them are long.  Four *)
(* keys with two operations in a transaction, and five with one.           *)
(***************************************************************************)
EXTENDS Btree

MCKeyLen == <<7, 1, 7, 7, 1>>
MCPairs == (Keys \X {[len |-> 3]}) \cup {<<2, [len |-> 23]>>}
MCKeepSets == {{1, 4}, {2, 3, 4}}
MCRanges == {<<<<"Unbounded">>, <<"Unbounded">>>>,
             <<<<"Excluded", 1>>, <<"Included", 3>>>>}
MCScopes == {[keys |-> 1..4, ops |-> 2], [keys |-> 1..5, ops |-> 1]}

=============================================================================
