-------------------------- MODULE EncryptedBackend --------------------------
(***************************************************************************)
(* What EncryptedFileBackend (encrypted.rs) makes of the buffers that it   *)
(* writes and reads.  A buffer is a sequence of pages.  Of a page the      *)
(* model keeps the first byte, the bytes that a sealed page has room for   *)
(* and the ENCRYPTION_OVERHEAD bytes at the end that it has not:           *)
(*   [mark, head, tail].                                                   *)
(* A page of the file also says whether it is sealed: then all but its     *)
(* mark is a nonce, the ciphertext of head and the authentication tag.     *)
(***************************************************************************)
EXTENDS Naturals, Sequences, TLC

LEAF == 1
BRANCH == 2
ZeroPage == [mark |-> 0, head |-> 0, tail |-> 0]

should_encrypt_page(page) == page.mark = LEAF
Plain(page) == page @@ [sealed |-> FALSE]
Sealed(page) == [page EXCEPT !.tail = 0] @@ [sealed |-> TRUE]

\* A buffer that is a leaf is sealed into the one page page_buffer, the
\* plaintext cut to what fits into it; any other buffer is written as it is.
encrypt_and_write(file, offset, data) ==
  IF should_encrypt_page(data[1])
  THEN [file EXCEPT ![offset] = Sealed(data[1])]
  ELSE [o \in offset..(offset + Len(data) - 1) |-> Plain(data[o - offset + 1])] @@ file

\* The buffers that the file can give back: a leaf that leaves room for the seal in
\* its one page, and any other buffer none of whose later pages looks like a leaf.
Fits(data) ==
  /\ should_encrypt_page(data[1]) => Len(data) = 1 /\ data[1].tail = 0
  /\ \A i \in 2..Len(data) : ~should_encrypt_page(data[i])

\* No page that is not sealed decrypts; the pages of a long read are
\* decrypted one by one.
Decrypts(page) == should_encrypt_page(page) => page.sealed
DecryptionFailed == <<>>
read_and_decrypt(file, offset, len) ==
  LET pages == [i \in 1..len |-> file[offset + i - 1]] IN
  IF \A i \in 1..len : Decrypts(pages[i])
  THEN [i \in 1..len |-> [mark |-> pages[i].mark, head |-> pages[i].head, tail |-> pages[i].tail]]
  ELSE DecryptionFailed
=============================================================================
