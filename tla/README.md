# A TLA+ model of the rCore ch6 kernel and easy-fs

The repository is a small RISC-V kernel (`os`) with processes, address spaces
and a file system (`easy-fs`) on a block device. The kernel runs on one hart
and takes no traps in supervisor mode. Concurrency comes from the timer, from
the order in which processes make calls, and from calls that give up the
processor inside the kernel. Faults come from power failures and from pools
that run out. Most hazards in `PROJECT.json` are of these kinds.

A handler runs to its end or to its next call of `schedule`. That stretch is
one action. Operations of the file system hold its lock from start to end and
are one action each. In the block cache an action is smaller: a get, an
assignment, a release, or one write of a sync, because a power failure can come
between any two of them.

## Modules

| Part | Code | Modules | Promise it implements |
|---|---|---|---|
| Processes, scheduler, pids | `os/src/task`, `syscall/process.rs`, `trap/mod.rs` | `RecycleAllocator`, `Processes` | `ProcessTree`, by `ProcessRefinement` |
| Frame allocator | `os/src/mm/frame_allocator.rs` | `FrameAllocator` | `FramePool` |
| Address spaces | `os/src/mm/memory_set.rs`, `page_table.rs`, `task/task.rs` | `MemorySets` | `PrivateMemory`, by `MemoryRefinement` |
| Copies to and from the user | `os/src/mm/page_table.rs`, `syscall/fs.rs`, `syscall/process.rs` | `UserCopy` | `UserMemory` |
| Block cache | `easy-fs/src/block_cache.rs` | `BlockCache` | `BlockStore`, by `BlockCacheRefinement` |
| Inodes and their blocks | `easy-fs/src/layout.rs`, `vfs.rs` | `DiskInode` (operators), `InodeBlocks` | `FlatFiles` |
| Image and bitmaps | `easy-fs/src/efs.rs`, `bitmap.rs` | `EasyFileSystem` | |
| Names, open files, links | `os/src/syscall/fs.rs`, `fs/inode.rs`, `vfs.rs` | `OpenFiles` | `Links` |

The parts use each other at the level of the promises. `MemorySets` takes free
frames from a set, which is what `FramePool` offers and `FrameAllocator`
implements. `InodeBlocks` and `EasyFileSystem` read and write blocks as
`BlockStore` describes them. `OpenFiles` has plain sequences of bytes and
entries, as in `FlatFiles`. These links are by reading. No module composes two
detailed parts.

Variables have the names of the fields and statics they stand for
(`task_status`, `ready_queue`, `PID_ALLOCATOR`, `data_bitmap`, `fd_table`, ...).
System calls have the name of their handler (`SysFork` is `sys_fork`). The
`map` of `PROJECT.json` gives the lines of every definition.

- **Processes.** A TCB is a slot that is reused once dropped. `StrongRefs`
  counts the places that hold an `Arc` of it, for the assertion in
  `sys_waitpid`. `in_read` are the tasks suspended inside `Stdin::read`, with a
  reference on their kernel stack.
- **FrameAllocator.** Trackers own frames; `answer` is what `frame_alloc`
  returned last.
- **MemorySets.** Areas with their frames, the page table as a function, the
  break, and the contents of frames. Panics are recorded by where they happen.
- **UserCopy.** Physical memory byte by byte, under an arbitrary injective page
  table.
- **BlockCache.** `held` is the stack of blocks that nested closures have
  locked. `MayRequest` states which nestings the callers in `vfs.rs`,
  `layout.rs`, `bitmap.rs` and `efs.rs` have.
- **InodeBlocks.** A cell is a byte of a data block or an entry of an index
  block. A directory entry is one cell.
- **EasyFileSystem.** A block is its groups of bits. `inodes` and `blocks` are
  what was handed out.
- **OpenFiles.** `OSInode`s are dropped with their last descriptor.

Operators such as `ParentsKept` or `WriteBackSkipped` stand in front of the
definition they are a broken variant of. No specification uses them. Each
checked property is violated when one of them takes the definition's place.

## Runs

Each `MC*.tla` has the constants and each `.cfg` one question.

| Run | Instance | Shows |
|---|---|---|
| `processes` | INITPROC and two more TCBs | Scheduler and tree are consistent under all interleavings; ids are never shared; the assertions hold; each exit is reported once; the calls implement `ProcessTree`; ready tasks run and orphans are reaped |
| `block_cache` | 4 blocks, queue of 3, 2 values | No update is lost to replacement; held blocks stay; the queue never runs out; power failures leave only values since the last completed sync |
| `frames` | 5 frames, 6 trackers | Every frame is accounted for and refusal means empty |
| `memory` | 2 processes, 10 frames, 5 user pages | Page tables match areas, frames are never shared or lost, memory is private and new pages are zero |
| `inode_blocks` | blocks of 2 cells, 1 direct block, 13 blocks, a file and a directory | Index blocks of all levels behave as a flat file; blocks are never shared; only `unlink` strands one |
| `open_files` | 2 processes, 2 names, 2 inodes, 2 handles | Descriptors and names lead to allocated inodes; data goes with the last link |
| `easy_file_system` | images of 6 to 14 blocks | Areas are apart, bitmaps are exact after opening again, every block can be used |
| `user_copy` | 2 pages of 3 bytes in 3 frames | Copies over page boundaries reach exactly the bytes asked for |

Four runs show where the code does not do what a comment says:

| Run | Property | What happens |
|---|---|---|
| `memory_conflict` | `ConflictsDetected` | A range that encloses an area passes `check_conflict`, and `PageTable::map` panics |
| `memory_heap` | `HeapBottomIsHeap` | `exec` and `spawn` keep the break of the old program |
| `efs_image` | `DataWithinImage` | The data bitmap has more bits than the image has data blocks |
| `user_stat` | `StatDelivered` | `fstat` takes the index of a slice for a byte offset |

### Bounds

Three TCBs allow a grandchild that outlives its parent, running or as a zombie,
and a pid that is reused while another process lives. A queue of three is the
smallest that the nesting of the callers allows, and four blocks force
replacement with two entries held. Blocks of two cells and one direct block put
every boundary between levels, two second-level index blocks and the maximal
file size within 15 cells. `Offset` and `Buf` start writes in one level and end
them in another, and one write is too large. Frames, inodes, handles, blocks
and bitmap bits all run out in their runs. `MaxDirents`, `MaxLost`, `MaxSize`
and `MaxFds` cap what would grow without end. Bitmap blocks of four bits make
images with one and with several bitmap blocks.

Symmetry is used for blocks, entries, trackers and names, in runs without
liveness. The view of `MCMemorySets` identifies states that differ in the names
of frames, as nothing in the model compares frames.

### Fairness

`FairSpec` of `Processes` has weak fairness of the idle loop, of the timer
interrupt for the running task, and of the kernel side of `Stdin::read`. The
loop of `run_tasks` never ends, every timer trap sets the next one, and a
resumed `Stdin::read` either returns or suspends again. Applications owe
nothing. `OrphansReaped` assumes in its statement that the initial process,
which is user code, keeps waiting for any child.

## Proofs

TLAPS checks the following for every value of the constants that satisfies the
named assumptions in the modules.

- **ProcessProofs.** `ProcessInv` is inductive. It joins `TypeOK`,
  `SchedulerConsistent`, `TreeConsistent`, `IdsPartitioned`, `KstackFollowsPid`,
  `NoAssertionFails` and `InitprocStays`. The assertion of `sys_waitpid` needs
  the first three (a zombie is in one children vector and nowhere else), and
  the assertions of `dealloc` need that the allocators partition the ids. That
  the initial process stays, with pid 0, gives `NeverIdle`. `Rooted` follows
  because a set of processes that is cut off would stay cut off.
- **ProcessRefinementProofs.** Every step of `Processes` is a step of
  `ProcessTree` or none. Distinct pids make a pid the name of one TCB, and
  `TreeConsistent` makes the children vectors the children in the tree. Two
  more facts are needed: a slot without a TCB has exit code 0, and INITPROC has
  no parent. The theorem asks that `Pids` has the pids in use (`PidsSuffice`);
  with `Pids = Nat` that follows.
- **OpenFilesProofs.** `ReferencesAllocated` is inductive together with types
  and with the fact that a process that does not run has no descriptors.
- **BlockCacheProofs.** `CacheInv` adds to the checked invariants how deep the
  callers nest and how far a sync has come. Three entries are enough because at
  most two are held when a third is asked for. `CacheAssumption` asks for a
  capacity of at least three; the code has 16.
- **BlockCacheRefinementProofs.** Every step of the cache is a step of
  `BlockStore` or none. The argument uses `CacheInv` together with
  `DiskIsRecent`, which is proved along with it.
- **FrameAllocatorProofs.** `FrameInv` is inductive, and every step is one of
  `FramePool`.
- **RecycleAllocatorProofs** and **SequenceFacts** hold the lemmas about
  allocators, stacks and sequences that these rest on.

Only model-checked: liveness (`ReadyRuns`, `OrphansReaped`), as the prover does
not handle fairness; the refinement of `Links`, which counts entries; and all
properties of `MemorySets`, `InodeBlocks`, `EasyFileSystem` and `UserCopy`. What
`DiskInode` and `UserCopy` compute by folds and recursive functions would need
induction over data, which is out of the prover's reach.

## Not modelled

- Console characters, logging, SBI calls and the panic handler. A console read
  of another length than one, which an assertion refuses.
- The kernel heap (an external allocator), boot code, the linker script,
  `trap.S` and `switch.S`: registers are below the level of an action.
- The virtio driver: `BlockCache` takes the write of a block as atomic.
- `UPSafeCell` borrows: where handlers hold cells is left out.
- Counters of `task_info`, the clock and priorities: nothing in the kernel
  reads them to decide anything.
- The kernel's address space, inner nodes of page tables, and requests for
  pages from `TRAP_CONTEXT` up. User buffers lie in mapped pages.
- ELF parsing: a program is its list of segments.
- Open flags with undefined bits, and names longer than a directory entry holds.
- Images too small for their inode area, for which `create` would wrap around.
- What directories look like after a power failure. `link` and `unlink` do not
  sync and the code promises nothing, so that only `BlockStore` speaks of it.
- Calls that only return an error and change nothing.
- The tool that packs images, `easy-fs-fuse`.
