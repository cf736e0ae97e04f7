--------------------------- MODULE WriteContract ---------------------------
(***************************************************************************)
(* What a write call promises about the file (spec sections 3, 4.2, 7     *)
(* and 8), stated over the last write that returned (lastWrite) once no  *)
(* call is in flight (quiet).  The model-checking modules instantiate    *)
(* these for the engine they run.                                        *)
(***************************************************************************)
EXTENDS Inode

\* Every byte below i_size holds content somebody wrote.
NoGarbageBelowSizeIn == \A x \in Positions : x < isize => Durable(x) # JUNK

\* Every byte below the size record persisted in the lower file's metadata
\* holds content somebody wrote: what a remount recovers (spec section 4.4).
RecoverableSizeIn == \A x \in Positions : x < metaSize => Durable(x) # JUNK

\* A read through the page cache returns the buffer at [offset, offset+size).
CachedReadBackIn(quiet) ==
    quiet /\ lastWrite.rc = "0" =>
        \A x \in lastWrite.off..(lastWrite.off + lastWrite.sz - 1) :
            View(x) = <<lastWrite.id, x - lastWrite.off>>

\* The gap [old size, offset) reads back as zeros from the lower file.
HoleReadsZeroIn(quiet) ==
    quiet /\ lastWrite.rc = "0" =>
        \A x \in lastWrite.fsize..(lastWrite.off - 1) : Durable(x) = ZERO

\* A call whose collaborators reported a failure does not return 0.
ErrorsReportedIn == lastWrite.errs # {} => lastWrite.rc # "0"

\* No page stays locked or referenced and no page array stays allocated.
ReleasedIn(quiet) ==
    quiet => /\ kbufs = 0
             /\ \A p \in Pages : owner[p] = NoThread /\ refs[p] = 0
=============================================================================
