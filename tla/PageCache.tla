----------------------------- MODULE PageCache ------------------------------
(***************************************************************************)
(* The page cache and write buffer, PagedCachedFile (cached_file.rs), over *)
(* the encrypted backend, used as TransactionalMemory uses it: by one      *)
(* write transaction at a time and by read transactions that run next to   *)
(* it.  Lengths and offsets are in pages.                                  *)
(*                                                                         *)
(*   s          the PagedCachedFile: read_cache (one LRU cache per lock    *)
(*              stripe), read_cache_bytes, write_buffer,                   *)
(*              write_buffer_bytes, file, io_failed, and panicked: an      *)
(*              assertion or an unwrap() failed                            *)
(*   open       the WritablePages in use: offset -> buffer                 *)
(*   committed, uncommitted, stale   the blocks <<offset, pages>> of the   *)
(*              last commit, those the write transaction allocated, those  *)
(*              that a commit dropped and that are not freed yet           *)
(*   written    block -> the buffer last left in it                        *)
(*   flush      the flush in progress: the offsets still to be offered to  *)
(*              the read cache, and what the commit drops                  *)
(*   readers    read transactions: [at, pinned, block, buffer]             *)
(*   misread    a call did not return the buffer that it should, one that  *)
(*              Fits()                                                     *)
(*   writes     how many buffers were written so far                       *)
(***************************************************************************)
EXTENDS EncryptedBackend, LruCache

CONSTANTS Blocks,       \* the blocks the allocator may hand out
          Readers,
          LockStripes,  \* lock_stripes()
          MaxReadCacheBytes, MaxWriteBufferBytes,
          Leaves, Branches,  \* those that may hold leaves, and branches
          MaxWrites     \* bound: buffers written

VARIABLES s, open, committed, uncommitted, stale, written, flush, readers, misread, writes

vars == <<s, open, committed, uncommitted, stale, written, flush, readers, misread, writes>>

ASSUME PageCacheAssumption ==
  /\ Blocks \subseteq Nat \X (Nat \ {0}) /\ IsFiniteSet(Blocks)
  /\ LockStripes \in Nat \ {0} /\ MaxReadCacheBytes \in Nat /\ MaxWriteBufferBytes \in Nat
  /\ Leaves \cup Branches = Blocks /\ MaxWrites \in Nat

PagesOf(b) == b[1]..(b[1] + b[2] - 1)
Overlap(b, c) == PagesOf(b) \cap PagesOf(c) # {}
Zeros(len) == [i \in 1..len |-> ZeroPage]
Bytes(c) == FoldSet(LAMBDA k, n : n + Len(c.cache[k].value), 0, KeysOf(c))

-----------------------------------------------------------------------------
(* The write buffer.  A value that take_value() lent to a WritablePage is  *)
(* None there.                                                             *)

None == <<>>
Lent(c, key) == c.cache[key].value = None
Panic(t, failed) == [t EXCEPT !.panicked = @ \/ failed]

take_value(c, key) == [get_mut(c, key) EXCEPT !.cache[key].value = None]
return_value(c, key, value) == [get_mut(c, key) EXCEPT !.cache[key].value = value]

\* At most n entries are looked at; one that is lent is put back.
RECURSIVE pop_unlent_Drop(_, _)
pop_unlent_Drop(c, n) ==  \* faulty: an entry that is lent is not put back
  LET p == pop_lowest_priority(c) IN
  IF n = 0 THEN [popped |-> None, left |-> c]
  ELSE IF p.popped = None \/ p.popped[1].value # None THEN p
  ELSE pop_unlent_Drop(p.left, n - 1)
RECURSIVE pop_unlent(_, _)
pop_unlent(c, n) ==
  LET p == pop_lowest_priority(c) IN
  IF n = 0 THEN [popped |-> None, left |-> c]
  ELSE IF p.popped = None \/ p.popped[1].value # None THEN p
  ELSE pop_unlent(lru_insert(p.left, p.popped[1].key, None), n - 1)
write_pop_lowest_priority(c) == pop_unlent(c, Cardinality(KeysOf(c)))

-----------------------------------------------------------------------------
(* The operations of PagedCachedFile.  ios is how many calls of the file   *)
(* succeed before one fails; after that, io_failed makes all of them fail. *)

slot(offset) == offset % LockStripes
Cached(t, offset) == offset \in KeysOf(t.read_cache[slot(offset)])
CachedAt(t, offset) == t.read_cache[slot(offset)].cache[offset].value

file_fails(t) == [t EXCEPT !.io_failed = TRUE]

invalidate_cache(t, offset, len) ==
  IF ~Cached(t, offset) THEN t
  ELSE [Panic(t, Len(CachedAt(t, offset)) # len) EXCEPT
          !.read_cache[slot(offset)] = lru_remove(@, offset),
          !.read_cache_bytes = @ - Len(CachedAt(t, offset))]

cancel_pending_write(t, offset) ==
  IF offset \notin KeysOf(t.write_buffer) THEN t
  ELSE [Panic(t, Lent(t.write_buffer, offset)) EXCEPT
          !.write_buffer = lru_remove(@, offset),
          !.write_buffer_bytes = @ - Len(t.write_buffer.cache[offset].value)]

RECURSIVE Drained(_)
Drained(c) == LET p == pop_lowest_priority(c) IN IF p.popped = None THEN p.left ELSE Drained(p.left)
CacheBytes(read_cache) == FoldSet(LAMBDA i, n : n + Bytes(read_cache[i]), 0, DOMAIN read_cache)
invalidate_cache_all(t) ==
  LET left == [i \in DOMAIN t.read_cache |-> Drained(t.read_cache[i])] IN
  [t EXCEPT !.read_cache = left, !.read_cache_bytes = @ - (CacheBytes(t.read_cache) - CacheBytes(left))]

\* The end of read(): the buffer goes into the cache, whose size was size
\* when the reader counted it, and others leave it for that.
RECURSIVE evict_read(_, _)
evict_read(c, bytes) ==
  LET p == pop_lowest_priority(c) IN
  IF bytes <= 0 \/ p.popped = None THEN c ELSE evict_read(p.left, bytes - Len(p.popped[1].value))
insert_read_Twice(t, offset, buffer, size) ==  \* faulty: a buffer that is replaced stays counted
  LET c == lru_insert(t.read_cache[slot(offset)], offset, buffer)
      left == IF size + Len(buffer) > MaxReadCacheBytes THEN evict_read(c, Len(buffer)) ELSE c
  IN [t EXCEPT !.read_cache[slot(offset)] = left, !.read_cache_bytes = @ - (Bytes(c) - Bytes(left))]
insert_read(t, offset, buffer, size) ==
  LET replaced == IF Cached(t, offset) THEN Len(CachedAt(t, offset)) ELSE 0
      cache_size == IF Cached(t, offset) THEN t.read_cache_bytes ELSE size
      c == lru_insert(t.read_cache[slot(offset)], offset, buffer)
      left == IF cache_size + Len(buffer) > MaxReadCacheBytes THEN evict_read(c, Len(buffer)) ELSE c
  IN [t EXCEPT !.read_cache[slot(offset)] = left,
               !.read_cache_bytes = @ - replaced - (Bytes(c) - Bytes(left))]

Hit(t, offset, len) ==
  [Panic(t, Len(CachedAt(t, offset)) # len) EXCEPT !.read_cache[slot(offset)] = get_mut(@, offset)]

\* read() by the write transaction, which nothing interrupts: PageHint::None.
read_Clean(t, offset, len, ios) ==  \* faulty: does not look into the write buffer
  LET buffer == read_and_decrypt(t.file, offset, len) IN
  IF Cached(t, offset) THEN [t |-> Hit(t, offset, len), ok |-> TRUE, data |-> CachedAt(t, offset)]
  ELSE IF ios = 0 \/ buffer = DecryptionFailed
  THEN [t |-> file_fails(t), ok |-> FALSE, data |-> buffer]
  ELSE [t |-> insert_read([t EXCEPT !.read_cache_bytes = @ + len], offset, buffer, t.read_cache_bytes),
        ok |-> TRUE, data |-> buffer]
read(t, offset, len, ios) ==
  LET buffer == read_and_decrypt(t.file, offset, len)
      pending == t.write_buffer.cache[offset].value
  IN IF offset \in KeysOf(t.write_buffer)
     THEN [t |-> [Panic(t, Len(pending) # len) EXCEPT !.write_buffer = get_mut(@, offset)],
           ok |-> TRUE, data |-> pending]
     ELSE IF Cached(t, offset)
     THEN [t |-> Hit(t, offset, len), ok |-> TRUE, data |-> CachedAt(t, offset)]
     ELSE IF ios = 0 \/ buffer = DecryptionFailed
     THEN [t |-> file_fails(t), ok |-> FALSE, data |-> buffer]
     ELSE [t |-> insert_read([t EXCEPT !.read_cache_bytes = @ + len], offset, buffer,
                             t.read_cache_bytes),
           ok |-> TRUE, data |-> buffer]

\* The loop of write() that makes room; [t, ok, ios].
RECURSIVE evict_write(_, _, _)
evict_write(t, bytes, ios) ==
  LET p == write_pop_lowest_priority(t.write_buffer)
      e == p.popped[1]
      popped == [t EXCEPT !.write_buffer = p.left]
  IN IF bytes <= 0 THEN [t |-> t, ok |-> TRUE, ios |-> ios]
     ELSE IF p.popped = None THEN [t |-> popped, ok |-> TRUE, ios |-> ios]
     ELSE IF ios = 0
     THEN [t |-> [file_fails(popped) EXCEPT !.write_buffer = lru_insert(@, e.key, e.value)],
           ok |-> FALSE, ios |-> 0]
     ELSE evict_write([popped EXCEPT !.file = encrypt_and_write(@, e.key, e.value),
                                     !.write_buffer_bytes = @ - Len(e.value)],
                      bytes - Len(e.value), ios - 1)

\* The buffer of write(), None if it cannot be read.
Initial(t, existing, offset, len, overwrite, ios) ==
  IF existing # None THEN existing
  ELSE IF overwrite THEN Zeros(len)
  ELSE IF ios = 0 THEN None ELSE read_and_decrypt(t.file, offset, len)

Lend(t, offset, data) ==
  IF data = None THEN [t |-> file_fails(t), ok |-> FALSE, data |-> None]
  ELSE [t |-> [t EXCEPT !.write_buffer = take_value(lru_insert(@, offset, data), offset)],
        ok |-> TRUE, data |-> data]

\* The end of write(), after room was made, e.
Buffered(e, existing, offset, len, overwrite) ==
  IF ~e.ok THEN [t |-> e.t, ok |-> FALSE, data |-> None]
  ELSE Lend(e.t, offset, Initial(e.t, existing, offset, len, overwrite, e.ios))

\* The rest of write(), after the read cache was invalidated, and existing found there.
WriteInvalidated(t, existing, offset, len, overwrite, ios) ==
  IF offset \in KeysOf(t.write_buffer)
  THEN [t |-> [Panic(t, Lent(t.write_buffer, offset)) EXCEPT !.write_buffer = take_value(@, offset)],
        ok |-> TRUE, data |-> t.write_buffer.cache[offset].value]
  ELSE Buffered(evict_write([t EXCEPT !.write_buffer_bytes = @ + len],
                            IF t.write_buffer_bytes + len > MaxWriteBufferBytes THEN len ELSE 0,
                            ios),
                existing, offset, len, overwrite)

write(t, offset, len, overwrite, ios) ==
  WriteInvalidated(invalidate_cache(t, offset, len),
                   IF Cached(t, offset) THEN CachedAt(t, offset) ELSE None,
                   offset, len, overwrite, ios)

-----------------------------------------------------------------------------
(* The transactions.                                                       *)

InUse == committed \cup uncommitted \cup stale
Pinned == UNION {readers[r].pinned : r \in Readers}
NoFlush == [running |-> FALSE, todo |-> {}, drops |-> {}]
Idle == [at |-> "idle", pinned |-> {}, block |-> <<>>, buffer |-> None, size |-> 0]
Offsets == UNION {PagesOf(b) : b \in Blocks}

\* What the v-th write makes of a block.  A leaf of one page may leave room for
\* the seal or fill the page: should_split() never splits a single pair, and an
\* insertion in place looks at the whole page.  A leaf of more pages is a single
\* large pair.  A branch fills its pages, which begin with any byte.
Filled(b, v, mark, later) ==
  [i \in 1..b[2] |-> [mark |-> IF i = 1 THEN mark ELSE later, head |-> v, tail |-> v]]
ShortLeaf(v) == <<[mark |-> LEAF, head |-> v, tail |-> 0]>>
Contents(b, v) ==
  (IF b \in Leaves THEN {Filled(b, v, LEAF, 0)} ELSE {})
  \cup (IF b \in Leaves /\ b[2] = 1 THEN {ShortLeaf(v)} ELSE {})
  \cup (IF b \in Branches THEN {Filled(b, v, BRANCH, later) : later \in {0, LEAF}} ELSE {})

Init ==
  /\ s = [read_cache |-> [i \in 0..(LockStripes - 1) |-> lru_new], read_cache_bytes |-> 0,
          write_buffer |-> lru_new, write_buffer_bytes |-> 0,
          file |-> [o \in Offsets |-> Plain(ZeroPage)], io_failed |-> FALSE, panicked |-> FALSE]
  /\ open = <<>> /\ committed = {} /\ uncommitted = {} /\ stale = {} /\ written = <<>>
  /\ flush = NoFlush /\ readers = [r \in Readers |-> Idle]
  /\ misread = FALSE /\ writes = 0

\* A call of the write transaction; how many calls of the file succeed in it.
Writing == ~flush.running /\ ~s.io_failed
IOs == 0..(MaxWriteBufferBytes + 1)
IsOpen(b) == b[1] \in DOMAIN open

\* A call is judged: it returned data (or failed without an I/O error), and should
\* have returned the buffer.
Judge(returned, data, buffer) ==
  misread' = (misread \/ (returned /\ data # buffer /\ Fits(buffer)))

Allocate(b, ios) ==
  /\ Writing /\ writes + Cardinality(DOMAIN open) < MaxWrites
  /\ \A c \in InUse : ~Overlap(b, c)
  /\ uncommitted' = uncommitted \cup {b}
  /\ \E w \in {write(s, b[1], b[2], TRUE, ios)} :
       /\ s' = w.t /\ open' = IF w.ok THEN (b[1] :> w.data) @@ open ELSE open
       /\ Judge(w.ok, w.data, Zeros(b[2]))
  /\ UNCHANGED <<committed, stale, written, flush, readers, writes>>

GetPageMut(b, ios) ==
  /\ Writing /\ writes + Cardinality(DOMAIN open) < MaxWrites
  /\ b \in uncommitted /\ ~IsOpen(b)
  /\ \E w \in {write(s, b[1], b[2], FALSE, ios)} :
       /\ s' = w.t /\ open' = IF w.ok THEN (b[1] :> w.data) @@ open ELSE open
       /\ Judge(w.ok, w.data, written[b])
  /\ UNCHANGED <<committed, uncommitted, stale, written, flush, readers, writes>>

\* The page is filled and its WritablePage dropped.
DropPage(b, data) ==
  /\ b \in uncommitted /\ IsOpen(b)
  /\ s' = [Panic(s, b[1] \notin KeysOf(s.write_buffer) \/ ~Lent(s.write_buffer, b[1])) EXCEPT
             !.write_buffer = IF b[1] \in KeysOf(@) THEN return_value(@, b[1], data) ELSE @]
  /\ open' = Without(open, b[1])
  /\ written' = (b :> data) @@ written /\ writes' = writes + 1
  /\ UNCHANGED <<committed, uncommitted, stale, flush, readers, misread>>

GetPage(b, ios) ==
  LET r == read(s, b[1], b[2], ios) IN
  /\ Writing /\ b \in committed \cup uncommitted /\ ~IsOpen(b)
  /\ s' = r.t
  /\ Judge(ios > 0, r.data, written[b])
  /\ UNCHANGED <<open, committed, uncommitted, stale, written, flush, readers, writes>>

freed(t, b) == cancel_pending_write(invalidate_cache(t, b[1], b[2]), b[1])

\* free_helper(), of a page of this transaction or of one that no snapshot needs.
Free(b) ==
  /\ Writing /\ ~IsOpen(b)
  /\ b \in uncommitted \/ (b \in stale /\ b \notin Pinned)
  /\ s' = freed(s, b)
  /\ uncommitted' = uncommitted \ {b} /\ stale' = stale \ {b} /\ written' = Without(written, b)
  /\ UNCHANGED <<open, committed, flush, readers, misread, writes>>

\* rollback_uncommitted_writes(), which frees them in any order.
Rollback(order) ==
  /\ Writing /\ open = <<>> /\ uncommitted # {}
  /\ s' = FoldLeft(freed, s, order)
  /\ uncommitted' = {} /\ written' = [b \in committed \cup stale |-> written[b]]
  /\ UNCHANGED <<open, committed, stale, flush, readers, misread, writes>>

\* Growing or shrinking the file, of which only free pages change.
Resize(ok) ==
  /\ Writing
  /\ s' = LET t == invalidate_cache_all(s) IN IF ok THEN t ELSE file_fails(t)
  /\ UNCHANGED <<open, committed, uncommitted, stale, written, flush, readers, misread, writes>>

-----------------------------------------------------------------------------
(* flush_write_buffer(), for a commit that drops some blocks.  It holds    *)
(* the lock of the write buffer; readers go on meanwhile.                  *)

\* Its first loop, which gets as far as done.
Flushed(t, done) ==
  LET wb == t.write_buffer IN
  [Panic(t, \E k \in KeysOf(wb) : Lent(wb, k)) EXCEPT
     !.file = FoldSet(LAMBDA k, f : encrypt_and_write(f, k, wb.cache[k].value), @, done),
     !.io_failed = done # KeysOf(wb)]
Flush_Unnoticed(done, drops) ==  \* faulty: goes on after a write that failed
  /\ Writing /\ open = <<>> /\ s' = [Flushed(s, done) EXCEPT !.io_failed = FALSE]
  /\ flush' = [running |-> TRUE, todo |-> KeysOf(s.write_buffer), drops |-> drops]
  /\ UNCHANGED <<open, committed, uncommitted, stale, written, readers, misread, writes>>
Flush(done, drops) ==
  /\ Writing /\ open = <<>> /\ uncommitted \cup drops # {}
  /\ s' = Flushed(s, done)
  /\ flush' = IF s'.io_failed THEN NoFlush
              ELSE [running |-> TRUE, todo |-> KeysOf(s.write_buffer), drops |-> drops]
  /\ UNCHANGED <<open, committed, uncommitted, stale, written, readers, misread, writes>>

\* One turn of its second loop, which moves a buffer to the read cache if there is room.
FlushToCache_Always(k) ==  \* faulty: does not look for room
  /\ flush.running /\ k \in flush.todo
  /\ LET buffer == s.write_buffer.cache[k].value IN
     s' = [s EXCEPT !.write_buffer.cache[k].value = None,
                    !.read_cache[slot(k)] = lru_insert(@, k, buffer),
                    !.read_cache_bytes = @ + Len(buffer)]
  /\ flush' = [flush EXCEPT !.todo = @ \ {k}]
  /\ UNCHANGED <<open, committed, uncommitted, stale, written, readers, misread, writes>>
FlushToCache(k) ==
  LET buffer == s.write_buffer.cache[k].value
      room == s.read_cache_bytes + Len(buffer) <= MaxReadCacheBytes
      replaced == IF Cached(s, k) THEN Len(CachedAt(s, k)) ELSE 0
  IN
  /\ flush.running /\ k \in flush.todo
  /\ s' = [s EXCEPT !.write_buffer.cache[k].value = None,
                    !.read_cache[slot(k)] = IF room THEN lru_insert(@, k, buffer) ELSE @,
                    !.read_cache_bytes = IF room THEN @ + Len(buffer) - replaced ELSE @]
  /\ flush' = [flush EXCEPT !.todo = IF room THEN @ \ {k} ELSE {}]
  /\ UNCHANGED <<open, committed, uncommitted, stale, written, readers, misread, writes>>

\* Its end, and the commit: what was written is there for readers.
Commit ==
  /\ flush.running /\ flush.todo = {}
  /\ s' = [s EXCEPT !.write_buffer = lru_new, !.write_buffer_bytes = 0]
  /\ committed' = (committed \ flush.drops) \cup uncommitted
  /\ uncommitted' = {} /\ stale' = stale \cup flush.drops
  /\ flush' = NoFlush
  /\ UNCHANGED <<open, written, readers, misread, writes>>

-----------------------------------------------------------------------------
(* Read transactions: read() with PageHint::Clean, in the three steps that *)
(* others come between.                                                    *)

Reader(r, to) == readers' = [readers EXCEPT ![r] = to]

BeginRead(r) ==
  /\ readers[r].at = "idle" /\ committed # {}
  /\ Reader(r, [Idle EXCEPT !.at = "open", !.pinned = committed])
  /\ UNCHANGED <<s, open, committed, uncommitted, stale, written, flush, misread, writes>>

Lookup(r, b) ==
  /\ readers[r].at = "open" /\ b \in readers[r].pinned
  /\ IF Cached(s, b[1])
     THEN /\ s' = Hit(s, b[1], b[2]) /\ Judge(TRUE, CachedAt(s, b[1]), written[b])
          /\ UNCHANGED readers
     ELSE /\ Reader(r, [readers[r] EXCEPT !.at = "missed", !.block = b])
          /\ UNCHANGED <<s, misread>>
  /\ UNCHANGED <<open, committed, uncommitted, stale, written, flush, writes>>

Fetch(r, ok) ==
  LET b == readers[r].block
      buffer == read_and_decrypt(s.file, b[1], b[2])
      back == [readers[r] EXCEPT !.at = "open", !.block = <<>>]
  IN
  /\ readers[r].at = "missed"
  /\ IF s.io_failed \/ ~ok \/ buffer = DecryptionFailed
     THEN /\ s' = file_fails(s) /\ Reader(r, back)
          /\ Judge(ok /\ ~s.io_failed, buffer, written[b])
     ELSE /\ s' = [s EXCEPT !.read_cache_bytes = @ + b[2]]
          /\ Reader(r, [readers[r] EXCEPT !.at = "fetched", !.buffer = buffer,
                                          !.size = s.read_cache_bytes])
          /\ UNCHANGED misread
  /\ UNCHANGED <<open, committed, uncommitted, stale, written, flush, writes>>

InsertRead(r) ==
  LET b == readers[r].block IN
  /\ readers[r].at = "fetched"
  /\ s' = insert_read(s, b[1], readers[r].buffer, readers[r].size)
  /\ Judge(TRUE, readers[r].buffer, written[b])
  /\ Reader(r, [Idle EXCEPT !.at = "open", !.pinned = readers[r].pinned])
  /\ UNCHANGED <<open, committed, uncommitted, stale, written, flush, writes>>

EndRead(r) ==
  /\ readers[r].at = "open" /\ Reader(r, Idle)
  /\ UNCHANGED <<s, open, committed, uncommitted, stale, written, flush, misread, writes>>

Next ==
  \/ \E b \in Blocks :
       \/ \E ios \in IOs : Allocate(b, ios) \/ GetPageMut(b, ios)
       \/ \E data \in Contents(b, writes + 1) : DropPage(b, data)
       \/ \E ios \in {0, 1} : GetPage(b, ios)
       \/ Free(b)
  \/ \E order \in SetToSeqs(uncommitted) : Rollback(order)
  \/ \E ok \in BOOLEAN : Resize(ok)
  \/ \E done \in SUBSET KeysOf(s.write_buffer), drops \in SUBSET committed : Flush(done, drops)
  \/ \E k \in flush.todo : FlushToCache(k)
  \/ Commit
  \/ \E r \in Readers :
       \/ BeginRead(r) \/ InsertRead(r) \/ EndRead(r)
       \/ \E b \in Blocks : Lookup(r, b)
       \/ \E ok \in BOOLEAN : Fetch(r, ok)

Spec == Init /\ [][Next]_vars

-----------------------------------------------------------------------------
(* Properties.                                                             *)

\* read() and write() return what was last written to the block if that fits,
\* however often it moved between the write buffer, the file and the read cache
\* in between, next to blocks whose content does not fit; and zeros for a block
\* just allocated, whatever was there ("the page is initialized to zero").
FittingReadsReturn == ~misread

\* What a read takes from the file is what was last written to the block.  It
\* fails for what does not fit (see Fits()): what encrypt_and_write() cuts off is
\* gone once the page is in no cache.
ReadsReturnWritten ==
  \A r \in Readers : readers[r].at = "fetched" => readers[r].buffer = written[readers[r].block]

\* None of the assertions and unwrap()s of cached_file.rs fails: a page that
\* is lent is not flushed, evicted or cancelled and is there when its
\* WritablePage is dropped; what is cached has the length that is asked for.
CacheAssertsHold == ~s.panicked

\* The read cache never holds a block that is not in use, another content
\* than the block has, or a block that is also in the write buffer, where the
\* reads of read transactions would not look for it.
CacheCurrent ==
  \A i \in DOMAIN s.read_cache : \A k \in KeysOf(s.read_cache[i]) :
    LET b == <<k, Len(CachedAt(s, k))>> IN
    /\ b \in InUse /\ (Fits(written[b]) => written[b] = CachedAt(s, k))
    /\ k \in KeysOf(s.write_buffer) => flush.running

\* All that a commit made visible, and all that it dropped and that is not
\* freed yet, is in the file, which is where recovery, and a reader that does
\* not find it in the cache, takes it from; also after a write failed.  That is,
\* all that fits: the end of a leaf that fills its page is in no file.
CommittedInFile ==
  \A b \in committed \cup stale :
    Fits(written[b]) => read_and_decrypt(s.file, b[1], b[2]) = written[b]

\* The atomic counters say what is cached, with what readers counted before
\* they inserted it, when two readers race for one page ("A race could cause
\* us to replace an existing buffer").
BytesCounted ==
  LET counted == {r \in Readers : readers[r].at = "fetched"} IN
     /\ s.read_cache_bytes = CacheBytes(s.read_cache)
                             + FoldSet(LAMBDA r, n : n + readers[r].block[2], 0, counted)
     /\ ~s.io_failed /\ ~flush.running =>
          s.write_buffer_bytes = Bytes(s.write_buffer)
                                 + FoldSet(LAMBDA k, n : n + Len(open[k]), 0, DOMAIN open)

\* The read cache holds at most max_read_cache_bytes, whatever the readers
\* and a flush add at the same time.
ReadCacheBounded == CacheBytes(s.read_cache) <= MaxReadCacheBytes

\* Every cached page is in the queue that evictions take pages from, also
\* after remove() turned the queue.
AllEvictable ==
  LET evictable(c) == KeysOf(c) \subseteq ToSet(c.lru_queue) IN
  evictable(s.write_buffer) /\ \A i \in DOMAIN s.read_cache : evictable(s.read_cache[i])
=============================================================================
