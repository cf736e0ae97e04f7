------------------------------ MODULE WriteSeq ------------------------------
(***************************************************************************)
(* ecryptfs_write (read_write.c:106-219), the sequential write extent      *)
(* engine: walk [min(offset, i_size), offset + size) page by page; lock     *)
(* each page with ecryptfs_get_locked_page (which fills it from the lower  *)
(* file), zero-fill and copy, mark it up to date and unlock it; then       *)
(* encrypt it (encrypted file) or write its segment to the lower file      *)
(* (plaintext file) and put it.  After the walk the size is raised to the *)
(* position reached and, for an encrypted file, persisted to metadata.    *)
(*                                                                         *)
(* One call of a thread is the record ws[t]; an action is one loop         *)
(* iteration up to the next suspension point: lock and fill the page     *)
(* (WSFill), commit it to the lower file (WSCommit), update the size      *)
(* (WSSize), or one of the exits (fatal signal, page lookup failure).     *)
(***************************************************************************)
EXTENDS Inode

VARIABLE ws     \* thread -> the write call it runs

IdleCall == [pc |-> "idle", id |-> 0, off |-> 0, sz |-> 0, fsize |-> 0,
             pos |-> 0, dataOff |-> 0, rc |-> "0", errs |-> {},
             before |-> NoWrite.before]

wsVars == <<ws>>

WSTypeOK ==
    ws \in [Threads ->
              [pc : {"idle", "loop", "commit", "size"}, id : 0..MaxCalls,
               off : 0..MaxPos, sz : 0..MaxPos, fsize : 0..MaxPos,
               pos : 0..MaxPos, dataOff : 0..MaxPos, rc : {"0"} \cup Errors,
               errs : SUBSET Errors, before : [Positions -> Byte]]]

WSInit == ws = [t \in Threads |-> IdleCall]

\* The call of thread t returns rc, its collaborators having reported the
\* failures errs in this last step: it goes idle and is the last write.
WSReturn(t, rc, errs) ==
    /\ ws' = [ws EXCEPT ![t] = IdleCall]
    /\ lastWrite' = Returned(ws[t], rc, errs)

\* ecryptfs_write(inode, data, offset, size) is called: it reads i_size
\* once and starts the walk at the old size when writing past it.
WSStart(t) ==
    /\ ws[t].pc = "idle"
    /\ calls < MaxCalls
    /\ \E off \in 0..MaxPos, sz \in 0..MaxPos :
          /\ off + sz <= MaxPos
          /\ ws' = [ws EXCEPT ![t] =
                      [pc |-> "loop", id |-> calls + 1, off |-> off, sz |-> sz,
                       fsize |-> isize, pos |-> WriteStart(off, isize),
                       dataOff |-> 0, rc |-> "0", errs |-> {},
                       before |-> DurableFile]]
    /\ calls' = calls + 1
    /\ UNCHANGED <<inodeVars, lastWrite>>

\* Mutant: break on a fatal signal without setting rc.
WSSignalNoRc(t) ==
    /\ ws[t].pc = "loop"
    /\ ws[t].pos < ws[t].off + ws[t].sz
    /\ "signal" \in Faults
    /\ ws' = [ws EXCEPT ![t].pc = "size", ![t].errs = {"EINTR"}]
    /\ UNCHANGED <<inodeVars, calls, lastWrite>>

\* Loop head, fatal_signal_pending(current): rc = -EINTR; break.  The
\* break still runs the size update after the loop.
WSSignal(t) ==
    /\ ws[t].pc = "loop"
    /\ ws[t].pos < ws[t].off + ws[t].sz
    /\ "signal" \in Faults
    /\ ws' = [ws EXCEPT ![t].pc = "size", ![t].rc = "EINTR", ![t].errs = {"EINTR"}]
    /\ UNCHANGED <<inodeVars, calls, lastWrite>>

\* ecryptfs_get_locked_page fails: rc = PTR_ERR(page); goto out.
WSGrabFail(t) ==
    /\ ws[t].pc = "loop"
    /\ ws[t].pos < ws[t].off + ws[t].sz
    /\ "grab" \in Faults
    /\ WSReturn(t, "EPAGE", {"EPAGE"})
    /\ UNCHANGED <<inodeVars, calls>>

\* One iteration up to unlock_page: lock the page (read_mapping_page fills
\* it from the lower file unless it is cached up to date), zero-fill and
\* copy, SetPageUptodate, unlock.  The reference is kept for the commit.
WSFill(t) ==
    LET c   == ws[t]
        idx == PageIndex(c.pos)
        pg  == IF cache[idx].present /\ cache[idx].uptodate
               THEN cache[idx].data ELSE Readpage(idx)
    IN  /\ c.pc = "loop"
        /\ c.pos < c.off + c.sz
        /\ owner[idx] = NoThread
        /\ cache' = FillCache(c, pg)
        /\ refs' = [refs EXCEPT ![idx] = @ + 1]
        /\ ws' = [ws EXCEPT ![t].pc = "commit", ![t].dataOff = NextDataOff(c)]
        /\ UNCHANGED <<mode, isize, metaSize, owner, lowerCt, lowerBytes, kbufs, calls, lastWrite>>

\* After unlock_page: ecryptfs_encrypt_page(page) for an encrypted file,
\* else ecryptfs_write_lower_page_segment(inode, page, start_offset_in_page,
\* data_offset); put_page; on error goto out, else pos += num_bytes.
WSCommit(t) ==
    LET c     == ws[t]
        idx   == PageIndex(c.pos)
        start == OffsetInPage(c.pos)
        fault == IF mode = "encrypted" THEN "crypto" ELSE "lower"
        err   == IF mode = "encrypted" THEN "ECRYPT" ELSE "EIO"
    IN  /\ c.pc = "commit"
        /\ refs' = PutPage(idx)
        /\ \/ /\ mode = "encrypted"
              /\ lowerCt' = [lowerCt EXCEPT ![idx] = Encrypt(cache[idx].data)]
              /\ ws' = [ws EXCEPT ![t].pc = "loop",
                                  ![t].pos = @ + WriteStepLen(c.pos, c.off, c.sz)]
              /\ UNCHANGED <<lowerBytes, lastWrite>>
           \/ /\ mode = "plain"
              /\ lowerBytes' = WriteLowerSegment(idx, cache[idx].data, start, c.dataOff)
              /\ ws' = [ws EXCEPT ![t].pc = "loop",
                                  ![t].pos = @ + WriteStepLen(c.pos, c.off, c.sz)]
              /\ UNCHANGED <<lowerCt, lastWrite>>
           \/ /\ fault \in Faults
              /\ WSReturn(t, err, {err})
              /\ UNCHANGED <<lowerCt, lowerBytes>>
        /\ UNCHANGED <<mode, isize, metaSize, cache, owner, kbufs, calls>>

\* Mutant: the size record persisted as offset + size, as ecryptfs_write2
\* does, instead of the position the loop reached.
WSSizeReqEnd(t) ==
    LET c == ws[t]
    IN  /\ \/ c.pc = "size"
           \/ c.pc = "loop" /\ c.pos >= c.off + c.sz
        /\ IF c.pos > c.fsize
           THEN /\ isize' = c.pos
                /\ \/ /\ mode = "encrypted"
                      /\ metaSize' = c.off + c.sz
                      /\ WSReturn(t, c.rc, {})
                   \/ /\ mode = "encrypted"
                      /\ "meta" \in Faults
                      /\ metaSize' = metaSize
                      /\ WSReturn(t, IF c.rc = "0" THEN "EMETA" ELSE c.rc, {"EMETA"})
                   \/ /\ mode = "plain"
                      /\ metaSize' = metaSize
                      /\ WSReturn(t, c.rc, {})
           ELSE /\ UNCHANGED <<isize, metaSize>>
                /\ WSReturn(t, c.rc, {})
        /\ UNCHANGED <<mode, cache, owner, refs, lowerCt, lowerBytes, kbufs, calls>>

\* After the loop: if (pos > ecryptfs_file_size) i_size_write(inode, pos),
\* and for an encrypted file ecryptfs_write_inode_size_to_metadata; its
\* error is the result unless the loop already set one.
WSSize(t) ==
    LET c == ws[t]
    IN  /\ \/ c.pc = "size"
           \/ c.pc = "loop" /\ c.pos >= c.off + c.sz
        /\ IF c.pos > c.fsize
           THEN /\ isize' = c.pos
                /\ \/ /\ mode = "encrypted"
                      /\ metaSize' = c.pos
                      /\ WSReturn(t, c.rc, {})
                   \/ /\ mode = "encrypted"
                      /\ "meta" \in Faults
                      /\ metaSize' = metaSize
                      /\ WSReturn(t, IF c.rc = "0" THEN "EMETA" ELSE c.rc, {"EMETA"})
                   \/ /\ mode = "plain"
                      /\ metaSize' = metaSize
                      /\ WSReturn(t, c.rc, {})
           ELSE /\ UNCHANGED <<isize, metaSize>>
                /\ WSReturn(t, c.rc, {})
        /\ UNCHANGED <<mode, cache, owner, refs, lowerCt, lowerBytes, kbufs, calls>>

WSNext(t) ==
    \/ WSStart(t)
    \/ WSSignal(t)
    \/ WSGrabFail(t)
    \/ WSFill(t)
    \/ WSCommit(t)
    \/ WSSize(t)
=============================================================================
