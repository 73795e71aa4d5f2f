---------------------------- MODULE BtreeBitmap -----------------------------
(***************************************************************************)
(* The bitmap of bitmap.rs: a tree of groups of bits in which a bit above  *)
(* the last level is set iff its group below is full.  A level is          *)
(* [len, words, unset]: its length in bits, its length in groups, and the  *)
(* bits of these groups that are clear.  A bitmap is the sequence of its   *)
(* levels, the root first.  Groups have 64 bits in the code, Group here.   *)
(***************************************************************************)
EXTENDS Integers, Sequences, FiniteSets

CONSTANT Group

ASSUME GroupAssumption == Group \in Nat \ {0, 1}

Least(S) == IF S = {} THEN <<>> ELSE <<CHOOSE x \in S : \A y \in S : x <= y>>

required_words(elements) == (elements + Group - 1) \div Group

GroupOf(i) == LET first == (i \div Group) * Group IN first..(first + Group - 1)

\* U64GroupedBitmap.
new_full(len, capacity) == [len |-> len, words |-> required_words(capacity), unset |-> {}]
level_set(l, i) == [l EXCEPT !.unset = @ \ {i}]
level_clear(l, i) == [l EXCEPT !.unset = @ \cup {i}]
level_full(l, i) == GroupOf(i) \cap l.unset = {}
first_unset(l, start) == IF l.len = 0 THEN <<>> ELSE Least(GroupOf(start) \cap l.unset)
level_resize(l, len) ==
  [len |-> len,
   words |-> IF l.words < required_words(len) THEN required_words(len) ELSE l.words,
   unset |-> l.unset \ (l.len)..(len - 1)]

\* to_vec() and from_bytes(): only the groups that hold bits of the bitmap are stored.
level_reload(l) ==
  [len |-> l.len, words |-> required_words(l.len),
   unset |-> {i \in l.unset : i < required_words(l.len) * Group}]

\* BtreeBitmap::new(): nothing is free.
RECURSIVE bitmap_new(_, _)
bitmap_new(num, capacity) ==
  (IF capacity <= Group THEN <<>>
   ELSE bitmap_new(required_words(num), required_words(capacity))) \o <<new_full(num, capacity)>>

Bits(b) == b[Len(b)]
bitmap_len(b) == Bits(b).len
bitmap_get(b, i) == i \notin Bits(b).unset
count_unset(b) == Cardinality(Bits(b).unset)
has_unset(b) == Bits(b).unset # {}

RECURSIVE update_to_root(_, _, _, _)
update_to_root(b, h, entry, full) ==
  IF h = 0 THEN b
  ELSE LET c == [b EXCEPT ![h] = IF full THEN level_set(@, entry) ELSE level_clear(@, entry)]
       IN  update_to_root(c, h - 1, entry \div Group, full /\ level_full(c[h], entry))

bitmap_set(b, i) ==
  LET c == [b EXCEPT ![Len(b)] = level_set(@, i)]
  IN  update_to_root(c, Len(b) - 1, i \div Group, level_full(Bits(c), i))

bitmap_clear(b, i) ==
  update_to_root([b EXCEPT ![Len(b)] = level_clear(@, i)], Len(b) - 1, i \div Group, FALSE)

\* find_first_unset(), from the root down.
RECURSIVE descend(_, _, _)
descend(b, h, entry) ==
  IF h > Len(b) THEN entry ELSE descend(b, h + 1, first_unset(b[h], entry * Group)[1])

find_first_unset(b) ==
  LET top == first_unset(b[1], 0) IN IF top = <<>> THEN <<>> ELSE <<descend(b, 2, top[1])>>

\* resize(_, true): new bits are set.
RECURSIVE bitmap_resize(_, _)
bitmap_resize(b, len) ==
  IF b = <<>> THEN <<>>
  ELSE bitmap_resize(SubSeq(b, 1, Len(b) - 1), required_words(len)) \o <<level_resize(Bits(b), len)>>

bitmap_reload(b) == [h \in DOMAIN b |-> level_reload(b[h])]

=============================================================================
