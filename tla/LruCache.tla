------------------------------ MODULE LruCache ------------------------------
(***************************************************************************)
(* LRUCache (lru_cache.rs): a map with a queue of its keys.  A key that    *)
(* was used since it was queued gets a second chance.  remove() leaves the *)
(* key in the queue, which may hold a key any number of times.             *)
(***************************************************************************)
EXTENDS Naturals, Sequences, SequencesExt

lru_new == [cache |-> <<>>, lru_queue |-> <<>>]
KeysOf(c) == DOMAIN c.cache
Without(f, k) == [x \in DOMAIN f \ {k} |-> f[x]]

lru_insert(c, key, value) ==
  [cache |-> (key :> [value |-> value, second_chance |-> FALSE]) @@ c.cache,
   lru_queue |-> IF key \in KeysOf(c) THEN c.lru_queue ELSE Append(c.lru_queue, key)]

get_mut(c, key) == [c EXCEPT !.cache[key].second_chance = TRUE]

\* The first key of the queue goes to its end, or away if it is not cached.
Cycled(c) ==
  LET key == Head(c.lru_queue) IN
  IF c.lru_queue = <<>> THEN c
  ELSE IF key \notin KeysOf(c) THEN [c EXCEPT !.lru_queue = Tail(@)]
  ELSE [c EXCEPT !.cache[key].second_chance = FALSE, !.lru_queue = Append(Tail(@), key)]

lru_remove(c, key) ==
  LET rest == [c EXCEPT !.cache = Without(@, key)] IN
  IF Len(rest.lru_queue) > 2 * Cardinality(KeysOf(rest)) THEN Cycled(Cycled(rest)) ELSE rest

\* The entry popped, in a sequence that is empty if there is none, and what is left.
RECURSIVE pop_lowest_priority(_)
pop_lowest_priority(c) ==
  LET key == Head(c.lru_queue)
      rest == [c EXCEPT !.lru_queue = Tail(@)]
  IN IF c.lru_queue = <<>> THEN [popped |-> <<>>, left |-> c]
     ELSE IF key \notin KeysOf(c) THEN pop_lowest_priority(rest)
     ELSE IF c.cache[key].second_chance THEN pop_lowest_priority(Cycled(c))
     ELSE [popped |-> <<[key |-> key, value |-> c.cache[key].value]>>,
           left |-> [rest EXCEPT !.cache = Without(@, key)]]
=============================================================================
