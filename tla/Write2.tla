------------------------------- MODULE Write2 -------------------------------
(***************************************************************************)
(* ecryptfs_write2 (read_write.c:221-350), the batched write extent       *)
(* engine.  It allocates pgs[], an array of nrpgs = ceil(size/PAGE_SIZE)   *)
(* page pointers, walks [min(offset, i_size), offset + size) like          *)
(* ecryptfs_write but gets each page with grab_cache_page_write_begin     *)
(* (no fill from the lower file), and for an encrypted file keeps each     *)
(* page referenced in pgs[i++] instead of encrypting it; after the walk   *)
(* ecryptfs_encrypt_pages2(pgs, nrpgs) encrypts the batch, the first      *)
(* nrpgs pages are put and pgs is freed.  A plaintext file writes each    *)
(* page's segment to the lower file as ecryptfs_write does.  Finally the  *)
(* size becomes offset + size and is persisted, whatever the encryption  *)
(* returned.                                                              *)
(*                                                                         *)
(* pgs is a sequence of page indexes; entries past nrpgs are the stores  *)
(* pgs[i++] makes beyond the kmalloc'ed array: nothing reads them back.   *)
(***************************************************************************)
EXTENDS Inode

VARIABLE w2     \* thread -> the ecryptfs_write2 call it runs

W2Idle == [pc |-> "idle", id |-> 0, off |-> 0, sz |-> 0, fsize |-> 0,
           pos |-> 0, dataOff |-> 0, rc |-> "0", errs |-> {}, nrpgs |-> 0,
           pgs |-> <<>>, before |-> NoWrite.before]

W2TypeOK ==
    w2 \in [Threads ->
              [pc : {"idle", "loop", "commit", "size", "oops"}, id : 0..MaxCalls,
               off : 0..MaxPos, sz : 0..MaxPos, fsize : 0..MaxPos,
               pos : 0..MaxPos, dataOff : 0..MaxPos, rc : {"0"} \cup Errors,
               errs : SUBSET Errors, nrpgs : 0..NPages,
               pgs : Seq(Pages), before : [Positions -> Byte]]]

W2Init == w2 = [t \in Threads |-> W2Idle]

\* The call of thread t returns rc, errs being the failures reported in
\* this last step.
W2Return(t, rc, errs) ==
    /\ w2' = [w2 EXCEPT ![t] = W2Idle]
    /\ lastWrite' = Returned(w2[t], rc, errs)

\* ecryptfs_write2(file, inode, data, offset, size): read i_size, compute
\* nrpgs and kmalloc pgs; on failure return -ENOMEM.
W2Start(t) ==
    /\ w2[t].pc = "idle"
    /\ calls < MaxCalls
    /\ \E off \in 0..MaxPos, sz \in 0..MaxPos :
          /\ off + sz <= MaxPos
          /\ LET call == [pc |-> "loop", id |-> calls + 1, off |-> off,
                          sz |-> sz, fsize |-> isize,
                          pos |-> WriteStart(off, isize), dataOff |-> 0,
                          rc |-> "0", errs |-> {}, nrpgs |-> BatchPages(sz),
                          pgs |-> <<>>, before |-> DurableFile]
             IN  \/ /\ w2' = [w2 EXCEPT ![t] = call]
                    /\ kbufs' = kbufs + Kmalloced(call.nrpgs)
                    /\ UNCHANGED lastWrite
                 \/ /\ "alloc" \in Faults
                    /\ w2' = [w2 EXCEPT ![t] = W2Idle]
                    /\ lastWrite' = Returned(call, "ENOMEM", {"ENOMEM"})
                    /\ UNCHANGED kbufs
    /\ calls' = calls + 1
    /\ UNCHANGED <<mode, isize, metaSize, cache, owner, refs, lowerCt, lowerBytes>>

\* grab_cache_page_write_begin fails: it returns NULL, which IS_ERR does
\* not catch, and kmap(NULL) oopses the thread, leaving pgs allocated and
\* the pages already in it referenced.
W2GrabFail(t) ==
    /\ w2[t].pc = "loop"
    /\ w2[t].pos < w2[t].off + w2[t].sz
    /\ "grab" \in Faults
    /\ w2' = [w2 EXCEPT ![t].pc = "oops"]
    /\ UNCHANGED <<inodeVars, calls, lastWrite>>

\* One iteration up to unlock_page: grab_cache_page_write_begin locks the
\* cached page or a new zeroed one (no read from the lower file), zero
\* fill and copy, SetPageUptodate, unlock; the reference is kept.
W2Fill(t) ==
    LET c   == w2[t]
        idx == PageIndex(c.pos)
    IN  /\ c.pc = "loop"
        /\ c.pos < c.off + c.sz
        /\ owner[idx] = NoThread
        /\ cache' = FillCache(c, Grabbed(idx).data)
        /\ refs' = [refs EXCEPT ![idx] = @ + 1]
        /\ w2' = [w2 EXCEPT ![t].pc = "commit", ![t].dataOff = NextDataOff(c)]
        /\ UNCHANGED <<mode, isize, metaSize, owner, lowerCt, lowerBytes, kbufs, calls, lastWrite>>

\* After unlock_page: pgs[i++] = page for an encrypted file; otherwise
\* ecryptfs_write_lower_page_segment(inode, page, start_offset_in_page,
\* data_offset) and put_page, goto out on error.  Then pos += num_bytes.
W2Commit(t) ==
    LET c     == w2[t]
        idx   == PageIndex(c.pos)
        start == OffsetInPage(c.pos)
        next  == [w2 EXCEPT ![t].pc = "loop",
                            ![t].pos = @ + WriteStepLen(c.pos, c.off, c.sz),
                            ![t].pgs = IF mode = "encrypted" THEN Append(@, idx) ELSE @]
    IN  /\ c.pc = "commit"
        /\ \/ /\ mode = "encrypted"
              /\ w2' = next
              /\ UNCHANGED <<refs, lowerBytes, lastWrite>>
           \/ /\ mode = "plain"
              /\ refs' = PutPage(idx)
              /\ lowerBytes' = WriteLowerSegment(idx, cache[idx].data, start, c.dataOff)
              /\ w2' = next
              /\ UNCHANGED lastWrite
           \/ /\ mode = "plain"
              /\ "lower" \in Faults
              /\ refs' = PutPage(idx)
              /\ W2Return(t, "EIO", {"EIO"})
              /\ UNCHANGED lowerBytes
        /\ UNCHANGED <<mode, isize, metaSize, cache, owner, lowerCt, kbufs, calls>>

\* References pgs[0..nrpgs-1] hold on page p.
BatchRefs(c, p) == Cardinality({k \in 1..c.nrpgs : c.pgs[k] = p})

\* After the loop, encrypted file: rc = ecryptfs_encrypt_pages2(pgs, nrpgs)
\* encrypts the first nrpgs pages (on failure only some of them reach the
\* lower file), put_page on each of them, kfree(pgs).
W2Batch(t) ==
    LET c == w2[t]
    IN  /\ c.pc = "loop"
        /\ c.pos >= c.off + c.sz
        /\ mode = "encrypted"
        /\ \E done \in 0..c.nrpgs, ok \in BOOLEAN :
              /\ ok => done = c.nrpgs
              /\ ~ok => done < c.nrpgs /\ "crypto" \in Faults
              /\ lowerCt' = [p \in Pages |->
                               IF p \in BatchHead(c, done)
                               THEN Encrypt(cache[p].data) ELSE lowerCt[p]]
              /\ w2' = [w2 EXCEPT ![t].pc = "size",
                                  ![t].rc = IF ok THEN "0" ELSE "ECRYPT",
                                  ![t].errs = IF ok THEN @ ELSE @ \cup {"ECRYPT"}]
        /\ refs' = [p \in Pages |-> refs[p] - BatchRefs(c, p)]
        /\ kbufs' = kbufs - Kmalloced(c.nrpgs)
        /\ UNCHANGED <<mode, isize, metaSize, cache, owner, lowerBytes, calls, lastWrite>>

\* if ((offset + size) > ecryptfs_file_size): i_size_write(offset + size)
\* and, encrypted, rc = ecryptfs_write_inode_size_to_metadata (replacing rc).
W2Size(t) ==
    LET c   == w2[t]
        end == c.off + c.sz
    IN  /\ \/ c.pc = "size"
           \/ c.pc = "loop" /\ c.pos >= end /\ mode = "plain"
        /\ IF end > c.fsize
           THEN /\ isize' = end
                /\ \/ /\ mode = "encrypted"
                      /\ metaSize' = end
                      /\ W2Return(t, "0", {})
                   \/ /\ mode = "encrypted"
                      /\ "meta" \in Faults
                      /\ metaSize' = metaSize
                      /\ W2Return(t, "EMETA", {"EMETA"})
                   \/ /\ mode = "plain"
                      /\ metaSize' = metaSize
                      /\ W2Return(t, c.rc, {})
           ELSE /\ UNCHANGED <<isize, metaSize>>
                /\ W2Return(t, c.rc, {})
        /\ UNCHANGED <<mode, cache, owner, refs, lowerCt, lowerBytes, kbufs, calls>>

W2Next(t) ==
    \/ W2Start(t)
    \/ W2GrabFail(t)
    \/ W2Fill(t)
    \/ W2Commit(t)
    \/ W2Batch(t)
    \/ W2Size(t)
=============================================================================
