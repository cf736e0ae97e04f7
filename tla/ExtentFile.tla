----------------------------- MODULE ExtentFile -----------------------------
(***************************************************************************)
(* What the sequential write path promises (spec sections 3 and 4.2), on  *)
(* the logical file alone: no page cache, no cipher, no lower file.  A    *)
(* write call walks from min(offset, size) to offset + length one page-   *)
(* bounded step at a time.  A step writes zeros below offset and the      *)
(* caller's bytes from offset on; a step still in the hole, or starting a *)
(* page, also zeroes the rest of its page (section 4.2 step 4).  After    *)
(* the walk, or when a cancellation ends it, the size becomes the         *)
(* position reached if that is larger; a failed step aborts the call and *)
(* leaves the steps already made in place (section 7).                    *)
(*                                                                         *)
(* A byte is Zero, Unwritten (never written), or <<id, i>>: byte i of the *)
(* buffer of write call id.                                               *)
(***************************************************************************)
EXTENDS Translator

CONSTANTS
    MaxLen,     \* bytes of the file
    Writers,    \* the callers
    MaxId,      \* calls are numbered 1..MaxId
    Unwritten   \* content of a byte never written

Zero == <<0, 0>>
Idle == [id |-> 0, off |-> 0, sz |-> 0, cur |-> 0]

VARIABLES
    file,   \* position -> byte
    size,   \* the logical size
    op      \* caller -> its write in progress, with cursor cur, or Idle

ExtentTypeOK ==
    /\ file \in [0..MaxLen - 1 -> {Zero, Unwritten} \cup ((1..MaxId) \X (0..MaxLen - 1))]
    /\ size \in 0..MaxLen
    /\ op \in [Writers -> [id : 0..MaxId, off : 0..MaxLen, sz : 0..MaxLen, cur : 0..MaxLen]]

Init ==
    /\ file = [x \in 0..MaxLen - 1 |-> Unwritten]
    /\ size = 0
    /\ op = [w \in Writers |-> Idle]

\* A write of sz bytes at off starts, numbered id, at min(off, size).
Begin(w) ==
    /\ op[w] = Idle
    /\ \E id \in 1..MaxId, off \in 0..MaxLen, sz \in 0..MaxLen :
          /\ off + sz <= MaxLen
          /\ op' = [op EXCEPT ![w] = [id |-> id, off |-> off, sz |-> sz,
                                      cur |-> WriteStart(off, size)]]
    /\ UNCHANGED <<file, size>>

\* The next step of the walk, [cur, cur + len) inside one page.
Advance(w) ==
    LET c     == op[w]
        k     == c.cur + WriteStepLen(c.cur, c.off, c.sz)
        pgEnd == (PageIndex(c.cur) + 1) * PAGE_SIZE
        wipe  == c.cur < c.off \/ OffsetInPage(c.cur) = 0
    IN  /\ c # Idle
        /\ c.cur < c.off + c.sz
        /\ file' = [x \in DOMAIN file |->
                      IF c.cur <= x /\ x < k
                      THEN IF c.cur < c.off THEN Zero ELSE <<c.id, x - c.off>>
                      ELSE IF wipe /\ k <= x /\ x < pgEnd THEN Zero ELSE file[x]]
        /\ op' = [op EXCEPT ![w].cur = k]
        /\ UNCHANGED size

\* The walk ends, done or cancelled: the size grows to the cursor.
Finish(w) ==
    /\ op[w] # Idle
    /\ size' = IF op[w].cur > size THEN op[w].cur ELSE size
    /\ op' = [op EXCEPT ![w] = Idle]
    /\ UNCHANGED file

\* A step fails: the call ends, its earlier steps stay.
Abort(w) ==
    /\ op[w] # Idle
    /\ op' = [op EXCEPT ![w] = Idle]
    /\ UNCHANGED <<file, size>>

Next == \E w \in Writers : Begin(w) \/ Advance(w) \/ Finish(w) \/ Abort(w)

Spec == Init /\ [][Next]_<<file, size, op>>
=============================================================================
