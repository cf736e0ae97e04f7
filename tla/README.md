# TLA+ models of the KOCL eCryptfs extent engines

This directory holds TLA+ models of `src/gaes/ecryptfs_4.7_kocl/read_write.c`, together with the TLC configurations that check them. That file is the extent-translation core of a GPU-accelerated eCryptfs for Linux 4.7. It turns byte-range reads and writes of the plaintext file into page operations on the eCryptfs page cache. Around those page operations it zero-fills holes, encrypts and decrypts pages (one at a time or in batches), writes the lower file and keeps the file size in step. `PROJECT.json` lists the components, runs, mutants, the map from definitions to source lines, the findings and the hazards.

## 1. The system

### Parts of read_write.c

| part | lines | what it does |
|---|---|---|
| `ecryptfs_write_lower`, `ecryptfs_write_lower_page_segment` | 40-86 | Write `size` bytes to `index << PAGE_SHIFT + offset_in_page` of the lower file, taken from `virt = kmap(page)`, the start of the page. A positive byte count becomes 0. A missing lower file gives -EIO. |
| `ecryptfs_write` (sequential write engine) | 106-219 | Walks `[min(offset, i_size), offset+size)` page by page. For each page it: locks and fills the page (`ecryptfs_get_locked_page`); zero-fills and copies; marks it up to date and unlocks it; then encrypts the page, or writes a plaintext segment, and puts it. After the walk, `i_size = pos` if it grew, persisted to metadata for encrypted files. Returns on a fatal signal (after the size update), on a lookup failure and on a commit failure. |
| `ecryptfs_write2` (batched write engine) | 221-350 | The same walk with `grab_cache_page_write_begin` (no fill). For encrypted files it keeps each page in `pgs[i++]`, then encrypts them all with `ecryptfs_encrypt_pages2(pgs, nrpgs)`, puts `nrpgs` pages and frees `pgs`. It then sets `i_size = offset + size` and writes the metadata. |
| `ecryptfs_read_lower`, `ecryptfs_read_lower_page_segment` | 366-408 | Read a page segment back from the lower file. |
| `ecryptfs_read2` (read engine) | 427-539 | Clamps `size` to `i_size`. Locks pages `0..nr_pages-1`, filling each with `readpage` (no decryption needed) or decrypting them all with `ecryptfs_decrypt_pages`. Leaves at EOF. Otherwise copies the walk from `pgs[page_idx]`, then sets or clears `PG_uptodate`, unlocks, puts, frees `pgs` and returns the byte count. |
| `ecryptfs_read3` and older variants | 541-766 | Commented out. |

The engines share the inode: `i_size`, the page cache of the upper file (page locks, reference counts, `PG_uptodate`, contents) and the lower file (ciphertext pages, or plaintext bytes, plus the size record in the metadata header). They also share their collaborators, which are outside `src/`:
- the page cache;
- `ecryptfs_readpage`;
- the crypto calls of `crypto.c`;
- `ecryptfs_write_inode_size_to_metadata`.

Each call runs on its caller's thread (spec §5). Callers are concurrent, and the only lock taken is the page lock. A call may block in a page lookup (a page locked by someone else) or in a collaborator.

### Hard behaviours of this code
- Two callers interleave page by page. i_size is read once at entry and written at the end (lines 112, 228, 435).
- `ecryptfs_write2` unlocks each page before the batch encryption that reads it (308 → 329).
- Array sizes are computed from `size`, while the walks follow the file's page boundaries (238, 310, 449, 504).
- Exits skip cleanup: goto out with pages locked, referenced, or `pgs` not freed (280, 322, 332, 468, 490).
- A collaborator fails part way: a fatal signal, a lookup, an encryption, a lower write or the metadata write, each after some pages were committed.
- An undefined pointer is used: `pgs == NULL`, an index past `nr_pages`, or a NULL page that `IS_ERR` does not catch.

## 2. Modules

| module | models | state | actions |
|---|---|---|---|
| `Translator` | The inline page arithmetic of all three engines: `PageIndex`, `OffsetInPage`, `WriteStart`, `WriteStepLen`, `ReadStepLen`, `BatchPages`, `ReadPages` and `ReadClamp`, plus the write walk as a RECURSIVE sequence of steps. | none (constant `PAGE_SHIFT`) | none |
| `Inode` | The shared inode state and the collaborators. `mode` is `crypt_stat->flags & ECRYPTFS_ENCRYPTED`, fixed per file. | `mode`, `isize`, `metaSize`, `cache`, `owner` (page lock), `refs`, `lowerCt`, `lowerBytes`, `kbufs` (live `pgs` arrays), and the history variables `calls` and `lastWrite` | `Evict(p)`: the kernel reclaims a clean, unlocked, unreferenced page. The lower-file helpers are operators: `WriteLower` (`ecryptfs_write_lower`), `WriteLowerSegment`, `ReadLower` (`ecryptfs_read_lower`) and `LowerPage` |
| `WriteSeq` | `ecryptfs_write` | `ws[t]`: thread `t`'s call (pc, request, i_size read at entry, pos, data_offset, rc) | `WSStart`, `WSSignal`, `WSGrabFail`, `WSFill` (lookup, lock, fill, memset, copy, unlock), `WSCommit` (encrypt or lower write, put, error exit), `WSSize` (size update and metadata) |
| `Write2` | `ecryptfs_write2` | `w2[t]`, with `nrpgs` and `pgs` | `W2Start` (kmalloc), `W2GrabFail`, `W2Fill`, `W2Commit`, `W2Batch` (encrypt the first `nrpgs` entries, put them, kfree), `W2Size` |
| `Read2` | `ecryptfs_read2` | `r2[t]`, and `lastRead` (history) | `R2Start` (clamp, count, kmalloc), `R2Grab`, `R2Decrypt` (including the EOF exit), `R2Copy`, `R2Finish` |
| `System` | Threads running `ecryptfs_write2` and `ecryptfs_read2`, one call at a time each, over one inode | union | `ThreadNext(t)`, `Evict`, `Finished` |
| `ExtentFile` | What the sequential write path promises (spec §3, §4.2, §7), on the logical file alone: a write walks from `min(offset, size)` to `offset + size` one page-bounded step at a time, writing zeros in the hole and the buffer from `offset` on, and zeroing the rest of a page a step starts or fills in the hole. A cancelled walk still sets the size, and a failed step aborts the call and keeps earlier steps. | `file`, `size`, `op` (each writer's call and cursor) | `Begin`, `Advance`, `Finish`, `Abort` |
| `WriteContract` | What a write promises (spec §3, §4.4, §7, §8), stated over `lastWrite`, plus what a remount recovers: the lower file up to the persisted size record `metaSize` | none | none |
| `MCTranslator`, `MCWriteSeq`, `MCWrite2`, `MCSystem` | Instantiations for TLC, with the properties | | |

Actions are cut at the points where another thread can run: the page lookup (which blocks while another thread holds the lock) and the collaborator calls. An action also contains every state change up to the next such point. For example, `WSFill` covers the memset, the copy, `SetPageUptodate` and `unlock_page` together, and `W2Batch` covers the encryption together with the puts and the `kfree`.

**Refinement.** `MCWriteSeq` maps `ecryptfs_write` onto `ExtentFile`:
- `file` is `DurableFile`, the decryption of the lower file;
- `size` is `isize`;
- `op[t]` is thread `t`'s request, with `ws[t].pos` as its cursor.

`WSCommit` (the page encrypted) is `Advance`. `WSSize` or a signal is `Finish`, and a failed commit is `Abort`. Every other step (lookup, fill, eviction) stutters. `RefinesExtentFile == FS!Spec` is checked as a PROPERTY. So the page that reaches the lower file holds the hole zeros, the buffer bytes at the right `data_offset`, and no byte the abstract walk does not write. The size never runs ahead of the durable data.

**Data abstraction.** A byte is one of three values:
- `ZERO`;
- `JUNK`: contents nobody wrote, such as the decryption of a page that was never encrypted, or memory past a mapped page;
- `<<c, i>>`: byte `i` of call `c`'s buffer.

Encryption is the injective tag `Encrypt(d) = [plain |-> d]`, and `Decrypt(NoCt)` is a page of `JUNK`. So "decrypt after encrypt recovers the plaintext" (spec §8) holds by construction, and any byte the model returns can be traced to the call that wrote it. Error codes are names of the failing collaborator, and `errs` records which collaborators failed during a call.

**Undefined behaviour.** A store past `pgs[nrpgs-1]` in `ecryptfs_write2` is kept in the model's `pgs` sequence but never read back, since the code only walks `nrpgs` entries. A dereference of `NULL` or past `pgs[nr_pages-1]` in `ecryptfs_read2`, and `kmap` of a NULL page in `ecryptfs_write2`, end the thread in pc `"oops"`. There the thread stops and keeps the locks it holds.

**Collaborators, modelled from the spec.** These are outside `src/`, and the map marks them `spec_modelled`:
- `Grabbed`: a new page is zero-filled and not up to date.
- `Readpage`: fills the page from the lower file and unlocks it.
- `Evict`.
- `Encrypt` / `Decrypt`.
- `DecryptPages`: a prefix of the batch is decrypted before a failure.
- The metadata write: success, or the `"meta"` fault.

`Faults` selects which collaborator failures a run enables: `grab`, `crypto`, `lower`, `meta`, `signal` and `alloc`.

## 3. Runs

Bounds: `PAGE_SHIFT = 1` (2-byte pages) and `NPages = 3`, so the file has 6 bytes (2 bytes in `system_lost`). `MaxCalls = 2` (3 in `system_eof` and `system_lost`), and there are one or two threads. These bounds are enough to reach the interesting cases:
- an unaligned write that crosses a page boundary;
- a write past EOF with a hole that spans a whole page;
- two calls on the same page, and a call that overwrites an earlier call's data;
- a walk that visits one more page than `nrpgs`.

The pass runs below each reach between 46,000 and 310,000 distinct states (1,183 for `translator`). All finish in about 2 minutes or less; `writeseq` takes the longest. With `MaxCalls = 3` and `NPages = 3`, `MCWriteSeq` runs for more than 9 minutes. With `MaxCalls = 3` and `NPages = 2` it finds the refinement violated in seconds (see section 4).

| run | expect | checks | shows |
|---|---|---|---|
| `translator` | pass | `WalkTiles` | For every request in 12 bytes with 4-byte pages, the write walk tiles `[start, offset+size)`: non-empty steps, each within one page, hole steps stopping at `offset`, and data steps consuming exactly `size` bytes. |
| `writeseq` | pass | `RefinesExtentFile`, `ErrorsReported`, `Released`, `RecoverableSize` | On an encrypted file, with fatal signals, lookup, encryption and metadata failures, `ecryptfs_write` implements `ExtentFile` under the mapping above. It also reports every failure and releases every page. `RecoverableSize`: every byte below the persisted size record holds written data, because the walk encrypts each page before the size update and sets the record to the position it reached, not to `offset + size`. So a remount that takes the size from the metadata reads no garbage, even after a fatal signal or failed encryption part way. `ecryptfs_write2` persists `offset + size` instead, which is findings 1 and 2 as a remount would see them. |
| `writeseq_plain` | pass | `ErrorsReported` | The same engine on plaintext files, with lower-write failures: every failure reaches the caller. What a plaintext file reads back is not a passing property, because `ecryptfs_write_lower_page_segment` writes from the page base (finding 8). |
| `writeseq_hole` | violation | `HoleReadsZero` | On a plaintext file a hole reads back non-zero bytes (finding 3). |
| `writeseq_race` | violation | `SizeMonotone` | Two concurrent writers shrink the file (finding 4). |
| `write2` | pass | `CachedReadBack` | On encrypted and plaintext files, with lookup, lower-write, metadata and allocation failures: after `ecryptfs_write2` returns 0 on an encrypted file, reading through the cache returns the buffer, even when the kernel reclaims pages. On a plaintext file the property would fail through finding 8, so it is stated for encrypted files. |
| `write2_garbage` | violation | `NoGarbageBelowSize` | The `pgs` overflow leaves garbage below `i_size` (finding 1). |
| `write2_errswallow` | violation | `ErrorsReported` | A failed batch encryption returns 0 (finding 2). |
| `system` | pass (`CHECK_DEADLOCK FALSE`) | `TypeOK`, `ReadReturnsFile` | Encrypted file, writes by `ecryptfs_write2` and reads at offset 0, with allocation, metadata and lookup failures: every returned read holds exactly the file's bytes from when it started. The deadlock check is off because a failed `grab_cache_page` in the read leaves pages locked, so the next call on them hangs (hazard at line 468; the same hang is `system_eof`). |
| `system_oops` | violation | `NoOops` | A plaintext read stores into the NULL `pgs` (finding 5). |
| `system_eof` | violation (`CHECK_DEADLOCK FALSE`) | `CallsReturn` | A read at EOF keeps its pages locked, and the next call hangs (finding 6). |
| `system_lost` | violation | `BatchedPagesKept` | Two threads, one page, no faults: a read refills a page that a write has unlocked but not yet encrypted, and the write is lost (finding 7). |

The passing runs, taken together, fire every action and every disjunct of each next-state relation. Each property of a passing run has a mutant in `PROJECT.json`: a plausible bug in a mapped definition, such as a dropped hole cap, a copy from `data` without `data_offset`, a missing `put_page`, a size record set to `offset + size`, or a batch loop starting at `pgs[1]`. The mutant is defined right before the definition it replaces, and TLC finds the property violated under the run's own cfg.

**Fairness.** `System` assumes weak fairness of each thread's steps (`WF_vars(ThreadNext(t))`). Every call runs on its own thread, which the kernel keeps scheduling. A thread is blocked only by a page lock held by another thread, and the model's guards express that wait. `MCWriteSeq` and `MCWrite2` check safety only and assume no fairness.

## 4. Findings

1. **`pgs[]` overflow in `ecryptfs_write2`** (lines 231-238 and 310). `nrpgs` counts the pages of `size`, but the walk visits the pages from `min(offset, i_size)`. Some examples of the mismatch:
   - a 1-byte write at offset 1 of an empty file visits page 0 twice;
   - a 1-byte write at offset 2 visits pages 0 and 1.

   The extra entries overflow the array and are never encrypted or put, yet `i_size` covers them. A later read decrypts `JUNK` (`write2_garbage`).
2. **Encryption error swallowed** (line 338). The metadata write's `rc` replaces that of `ecryptfs_encrypt_pages2` (`write2_errswallow`).
3. **Plaintext holes and data_offset** (lines 188-191 and 314-317). The lower segment size is the cumulative `data_offset`, so hole steps write nothing and data steps write past the page (`writeseq_hole`).
4. **Stale i_size** (line 112). Concurrent `ecryptfs_write` calls can shrink the file, against spec §3 (`writeseq_race`).
5. **NULL `pgs` in `ecryptfs_read2`** (line 473). Every read of a non-empty plaintext file dereferences NULL (`system_oops`).
6. **Read at EOF keeps its locks** (lines 483-491). The pages stay locked and referenced and `pgs` is leaked, and the next call on those pages hangs (`system_eof`).
7. **Lost update in `ecryptfs_write2`** (lines 307 and 329). A page is unlocked before the batch encryption. A concurrent `ecryptfs_read2` locks it and refills it by decrypting the old lower page, and the batch then encrypts the old contents; the call still returns `size`. `BatchedPagesKept` says a page among the first `nrpgs` entries of a pending batch changes only by a step of its own writer (`system_lost`, 12 states).
8. **`ecryptfs_write_lower_page_segment` writes from the page base** (lines 78-81). It passes `virt = kmap(page)` to `ecryptfs_write_lower` at lower offset `index * PAGE_SIZE + offset_in_page`, so the lower file receives page bytes `0..size-1`, not `offset_in_page..`. Every plaintext write that starts inside a page puts the wrong bytes in the lower file. `WriteLowerSegment` models this; it is a one-call defect a unit test reaches, so it has no run of its own, and it is why no passing run states plaintext read-back.

Found while modelling, recorded as hazards, and not among the runs (the run list is full):
- **A failed encryption's bytes become durable** (lines 186-193). `ecryptfs_encrypt_page` fails and the call returns the error. The page in the cache keeps the call's bytes and stays up to date. A later write to another part of the page encrypts the whole page, so the failed call's data reaches the lower file. `RefinesExtentFile` is violated this way with `MaxCalls = 3` and `NPages = 2` in the `MCWriteSeq.cfg` setup.
- `ecryptfs_write` zeroes the tail of a page on every aligned write, against its comment "fresh page beyond eof" (line 166). Writing 2 bytes at 0 and then 1 byte at 0 loses byte 1. Spec §4.2 step 4 prescribes the same zero-fill, so `ExtentFile` follows it, and the refinement checks the code against the spec, not against the comment.
- `ecryptfs_read2` indexes pages from 0 rather than from `offset` (lines 464 and 504). Spec §9 lists this as an open question.
- A failed decryption is returned as data (line 477).
- `pgs` is never freed for plaintext writes (line 332).
- Three returns are ignored:
  - `ecryptfs_write_lower_page_segment` turns a short `kernel_write` into success (line 82);
  - `ecryptfs_write2` ignores a short `copy_from_user` (line 300) and returns 0 with a page that holds the bytes not copied;
  - `ecryptfs_read2` ignores a short `copy_to_user` (line 516) and counts the bytes it did not deliver.
- `ecryptfs_read2` clamps `size` to `i_size`, not to `i_size - offset` (line 447). A read at offset > 0 walks past EOF. In the `system` setup with offsets 1 and 2, `NoOops` fails first, and without it `ReadReturnsFile` fails.

`ecryptfs_write` unlocks a page before it encrypts it (line 184). This window is benign in the model. `CacheCoherent` in `MCWriteSeq` says that once every call has returned, each up-to-date cached page equals its lower page. `MCWriteSeq_coherent.cfg` checks it with two writers on an encrypted file without faults, and it holds over 1,443,404 states. With encryption faults it fails at once, which is the failed-encryption hazard above. It is not among the runs because the list is full.
- `grab_cache_page_write_begin` returns NULL, which `IS_ERR` at line 274 does not catch.

## 5. Not modelled

- `ecryptfs_read3` and the rest of lines 541-766: commented out.
- `VIEW_AS_ENCRYPTED` files (`nodec` from the flag at line 453): they behave as the plain `nodec` path, whose NULL `pgs` oops ends every such read before anything else happens.
- The internals of the kernel: page allocation, `readpage`, the block cipher and metadata persistence. They are modelled only through the interfaces of spec §6.
- `printk`, `kmap`/`kunmap`, `flush_dcache_page`, `file_accessed` and `mark_inode_dirty_sync`: no effect on the modelled state.
- Short results of collaborators: a `kernel_write` that writes part of its bytes, and a `copy_from_user` or `copy_to_user` that stops at a faulting user address. The code ignores each of them, so each one breaks a property of a plaintext or read pass run (`ReadReturnsFile`, and plaintext read-back, which finding 8 already breaks). Each would need a violation run of its own, and the project's run list is full. They are listed as hazards instead (lines 82, 300, 516).
- Byte widths: positions stay in a few bytes, so the `int`/`size_t`/`loff_t` mix never overflows in the model. For example, `int nrpgs` only overflows for writes above 8 TiB.

## 6. Plan for later work

1. A refinement of `ExtentFile` by `Write2`, whose batch makes a call's pages durable only at `W2Batch`. The overflow (finding 1) would show as a refinement violation.
2. Two checks are written but are not among the runs, because the project keeps at most 12 runs:
   - `MCWriteSeq_coherent.cfg`: `CacheCoherent` holds (the unlock-then-encrypt window at line 185);
   - `MCWriteSeq.cfg` with `MaxCalls = 3` and `NPages = 2`: `RefinesExtentFile` is violated (a failed encryption's bytes become durable).

   Each of them would become a run, with a finding for each violation, in place of a run retired or merged.
3. `ecryptfs_write` and `ecryptfs_write2` together in `System`, with the mixed-engine interleavings.
4. Reads at non-zero offsets under a property that names the relative-index behaviour, once the open question of spec §9 is decided.
