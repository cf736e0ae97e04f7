------------------------------- MODULE Read2 -------------------------------
(***************************************************************************)
(* ecryptfs_read2 (read_write.c:427-539), the read extent engine.  It     *)
(* clamps size to i_size, computes nr_pages = ceil(size / PAGE_SIZE), and  *)
(* for an encrypted file kmallocs pgs[nr_pages].  It locks pages 0 ..      *)
(* nr_pages-1 with grab_cache_page (counted from 0, not from offset), and *)
(* either fills each with a_ops->readpage (no decryption needed) or       *)
(* decrypts all of them from the lower file with ecryptfs_decrypt_pages.  *)
(* A read at or past the end of the file leaves here (goto out).          *)
(* Otherwise it walks [offset, offset + size), copying step page_idx      *)
(* from pgs[page_idx], marks the page up to date (or not, if the fill     *)
(* failed), unlocks and puts it, frees pgs, and returns the bytes copied. *)
(*                                                                         *)
(* A pointer the code dereferences outside the array (pgs == NULL when no *)
(* decryption is needed, or page_idx >= nr_pages) ends the thread in an   *)
(* oops: it never returns and keeps the page locks it holds.             *)
(***************************************************************************)
EXTENDS Inode

CONSTANT ReadOffsets    \* the offsets callers read at

VARIABLES
    r2,         \* thread -> the ecryptfs_read2 call it runs
    lastRead    \* history: the last read call that returned

readVars == <<r2, lastRead>>

R2Idle == [pc |-> "idle", id |-> 0, off |-> 0, sz |-> 0, fsize |-> 0,
           nr |-> 0, nodec |-> FALSE, idx |-> 0, pgs |-> <<>>, rc |-> "0",
           pos |-> 0, written |-> 0, out |-> NoWrite.before,
           snap |-> NoWrite.before]

R2TypeOK ==
    /\ r2 \in [Threads ->
                 [pc : {"idle", "grab", "copy", "oops"}, id : 0..MaxCalls,
                  off : 0..MaxPos, sz : 0..MaxPos, fsize : 0..MaxPos,
                  nr : 0..NPages, nodec : BOOLEAN, idx : 0..NPages,
                  pgs : Seq(Pages), rc : {"0"} \cup Errors, pos : 0..2 * MaxPos,
                  written : 0..MaxPos, out : [Positions -> Byte],
                  snap : [Positions -> Byte]]]
    /\ lastRead \in [id : 0..MaxCalls, off : 0..MaxPos, fsize : 0..MaxPos, n : 0..MaxPos,
                     rc : {"0", "none"} \cup Errors, out : [Positions -> Byte],
                     snap : [Positions -> Byte]]

R2Init ==
    /\ r2 = [t \in Threads |-> R2Idle]
    /\ lastRead = [id |-> 0, off |-> 0, fsize |-> 0, n |-> 0, rc |-> "none",
                   out |-> NoWrite.before, snap |-> NoWrite.before]

\* The call of thread t returns: written bytes, or the error rc.
R2Return(t, rc) ==
    /\ r2' = [r2 EXCEPT ![t] = R2Idle]
    /\ lastRead' = [id |-> r2[t].id, off |-> r2[t].off, fsize |-> r2[t].fsize,
                    n |-> r2[t].written,
                    rc |-> rc, out |-> r2[t].out, snap |-> r2[t].snap]

\* ecryptfs_read2(file, data, offset, size): clamp size to i_size, count
\* the pages, decide nodec from the crypt_stat flags and, when decrypting,
\* kmalloc pgs (return -EFAULT on failure).
R2Start(t) ==
    /\ r2[t].pc = "idle"
    /\ calls < MaxCalls
    /\ \E off \in ReadOffsets, size \in 0..MaxPos :
          LET sz   == ReadClamp(size, isize)
              call == [pc |-> "grab", id |-> calls + 1, off |-> off, sz |-> sz,
                       fsize |-> isize, nr |-> ReadPages(sz),
                       nodec |-> mode # "encrypted", idx |-> 0, pgs |-> <<>>,
                       rc |-> "0", pos |-> 0, written |-> 0,
                       out |-> NoWrite.before, snap |-> DurableFile]
          IN  \/ /\ r2' = [r2 EXCEPT ![t] = call]
                 /\ kbufs' = kbufs + (IF call.nodec THEN 0 ELSE Kmalloced(call.nr))
                 /\ UNCHANGED lastRead
              \/ /\ ~call.nodec
                 /\ "alloc" \in Faults
                 /\ r2' = [r2 EXCEPT ![t] = R2Idle]
                 /\ lastRead' = [id |-> call.id, off |-> off, fsize |-> isize, n |-> 0,
                                 rc |-> "EFAULT", out |-> call.out, snap |-> call.snap]
                 /\ UNCHANGED kbufs
    /\ calls' = calls + 1
    /\ UNCHANGED <<mode, isize, metaSize, cache, owner, refs, lowerCt, lowerBytes, lastWrite>>

\* One iteration of the grab loop: page = grab_cache_page(mapping, page_idx)
\* locks the page; readpage fills and unlocks it when no decryption is
\* needed; then
\* pgs[page_idx] = page (a NULL pgs when no decryption is needed).  A NULL
\* page ends the call (goto out) with the pages grabbed so far locked.
R2Grab(t) ==
    LET c   == r2[t]
        idx == c.idx
        pg  == Grabbed(idx)
    IN  /\ c.pc = "grab"
        /\ idx < c.nr
        /\ \/ /\ owner[idx] = NoThread
              /\ owner' = [owner EXCEPT ![idx] = IF c.nodec THEN NoThread ELSE t]
              /\ refs' = [refs EXCEPT ![idx] = @ + 1]
              /\ cache' = [cache EXCEPT ![idx] =
                             IF c.nodec THEN [pg EXCEPT !.data = Readpage(idx)] ELSE pg]
              /\ r2' = [r2 EXCEPT ![t] =
                          IF c.nodec THEN [c EXCEPT !.pc = "oops"]
                          ELSE [c EXCEPT !.pgs = Append(@, idx), !.idx = @ + 1]]
              /\ UNCHANGED lastRead
           \/ /\ "grab" \in Faults
              /\ R2Return(t, "0")
              /\ UNCHANGED <<cache, owner, refs>>
        /\ UNCHANGED <<mode, isize, metaSize, lowerCt, lowerBytes, kbufs, calls, lastWrite>>

\* ecryptfs_decrypt_pages(pgs, nr_pages) having decrypted the first done
\* pages of pgs from the lower file.
DecryptPages(c, done) ==
    [p \in Pages |->
        IF ~c.nodec /\ p \in BatchHead(c, done)
        THEN [cache[p] EXCEPT !.data = Decrypt(lowerCt[p])]
        ELSE cache[p]]

\* After the grab loop: rc = ecryptfs_decrypt_pages(pgs, nr_pages) fills
\* the pages from the lower file (on failure only some of them); then a
\* read at or past the end of the file goes to out without unlocking,
\* putting or freeing anything.
R2Decrypt(t) ==
    LET c == r2[t]
    IN  /\ c.pc = "grab"
        /\ c.idx >= c.nr
        /\ \E done \in 0..c.nr, ok \in BOOLEAN :
              /\ ok => done = c.nr
              /\ ~ok => done < c.nr /\ "crypto" \in Faults /\ ~c.nodec
              /\ cache' = DecryptPages(c, done)
              /\ LET rc == IF ok THEN "0" ELSE "ECRYPT"
                 IN  IF c.off >= c.fsize
                     THEN R2Return(t, "0")
                     ELSE /\ r2' = [r2 EXCEPT ![t].pc = "copy", ![t].rc = rc,
                                              ![t].pos = c.off, ![t].idx = 0]
                          /\ UNCHANGED lastRead
        /\ UNCHANGED <<mode, isize, metaSize, owner, refs, lowerCt, lowerBytes, kbufs, calls, lastWrite>>

\* One iteration of the copy loop: ecryptfs_page = pgs[page_idx]; copy
\* num_bytes from start_offset_in_page to data + data_offset; set or clear
\* PG_uptodate by rc; unlock_page; put_page; advance.
R2Copy(t) ==
    LET c     == r2[t]
        start == OffsetInPage(c.pos)
        len   == ReadStepLen(c.pos, c.off, c.sz)
    IN  /\ c.pc = "copy"
        /\ c.pos < c.off + c.sz
        /\ IF c.idx >= c.nr
           THEN /\ r2' = [r2 EXCEPT ![t].pc = "oops"]
                /\ UNCHANGED <<cache, owner, refs>>
           ELSE LET p == c.pgs[c.idx + 1]
                IN  /\ cache' = [cache EXCEPT ![p].uptodate = (c.rc = "0")]
                    /\ owner' = [owner EXCEPT ![p] = NoThread]
                    /\ refs' = PutPage(p)
                    /\ r2' = [r2 EXCEPT
                          ![t].out = [i \in Positions |->
                                        IF c.written <= i /\ i < c.written + len
                                        THEN cache[p].data[start + (i - c.written)]
                                        ELSE @[i]],
                          ![t].pos = @ + len, ![t].written = @ + len,
                          ![t].idx = @ + 1]
        /\ UNCHANGED <<mode, isize, metaSize, lowerCt, lowerBytes, kbufs, calls, lastWrite, lastRead>>

\* Mutant: pgs counted as freed also when nothing was allocated.
R2FinishFreeAlways(t) ==
    LET c == r2[t]
    IN  /\ c.pc = "copy"
        /\ c.pos >= c.off + c.sz
        /\ kbufs' = kbufs - 1
        /\ R2Return(t, "0")
        /\ UNCHANGED <<mode, isize, metaSize, cache, owner, refs, lowerCt, lowerBytes, calls, lastWrite>>

\* After the copy loop: kfree(pgs); file_accessed; return written.
R2Finish(t) ==
    LET c == r2[t]
    IN  /\ c.pc = "copy"
        /\ c.pos >= c.off + c.sz
        /\ kbufs' = kbufs - (IF c.nodec THEN 0 ELSE Kmalloced(c.nr))
        /\ R2Return(t, "0")
        /\ UNCHANGED <<mode, isize, metaSize, cache, owner, refs, lowerCt, lowerBytes, calls, lastWrite>>

R2Next(t) ==
    \/ R2Start(t)
    \/ R2Grab(t)
    \/ R2Decrypt(t)
    \/ R2Copy(t)
    \/ R2Finish(t)
=============================================================================
