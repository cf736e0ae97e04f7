------------------------------ MODULE MCSystem ------------------------------
(***************************************************************************)
(* Properties of the composed write and read paths (System).              *)
(***************************************************************************)
EXTENDS System, WriteContract

TypeOK == InodeTypeOK /\ W2TypeOK /\ R2TypeOK

AllIdle == \A t \in Threads : ThreadIdle(t)

\* ecryptfs_read2 returns the bytes the file holds: after it returns n and
\* before any other call, n does not pass the end of the file and byte i
\* of the buffer is byte offset + i of the file when the read started.
ReadReturnsFile ==
    AllIdle /\ lastRead.rc = "0" =>
        /\ lastRead.n <= IF lastRead.off < lastRead.fsize
                          THEN lastRead.fsize - lastRead.off ELSE 0
        /\ \A i \in 0..(lastRead.n - 1) :
              lastRead.out[i] = lastRead.snap[lastRead.off + i]

\* No ecryptfs_read2 call dereferences a pointer outside its pgs[] array
\* (a NULL pgs, or an index at or past nr_pages): it would oops.
NoOops == \A t \in Threads : r2[t].pc # "oops"

\* A page waiting in the batch of an ecryptfs_write2 call (filled and
\* unlocked, among the nrpgs pages ecryptfs_encrypt_pages2 will encrypt,
\* and not yet encrypted) keeps its content
\* until a write changes it (spec section 5: a page is locked while it is
\* mutated; section 8: a write then a read returns the written bytes): no
\* ecryptfs_read2 step, on another thread, overwrites it.
BatchedPagesKept ==
    [][\A t \in Threads :
         w2[t].pc \in {"loop", "commit"} =>
            \A k \in 1..w2[t].nrpgs : k <= Len(w2[t].pgs) =>
               LET p == w2[t].pgs[k] IN
               cache'[p].data # cache[p].data => w2' # w2]_vars

\* Every call returns: a thread that started a call is idle again later.
CallsReturn == \A t \in Threads : ~ThreadIdle(t) ~> ThreadIdle(t)
=============================================================================
