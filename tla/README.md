# hJH-OS in TLA+

hJH-OS is a small RISC-V kernel (QEMU `virt` and K210 boards): processes with a
shortest-slice scheduler, pipes, a FAT32 file system over a buffer cache, a virtio or
SD-card disk, a buddy and a slab allocator, SV39 paging.  This directory holds a TLA+
model of its core logic, the TLC runs that check small instances, and TLAPS proofs of
the main invariants and refinements for all sizes.

Throughout, file names without a directory are in `src/arch/riscv/kernel/`.

## 1. How the kernel runs, and what a step is

* One hart runs the kernel.  A trap clears `sstatus.SIE`, so kernel code is not
  interrupted: between two calls of `schedule()` it is **atomic**.  Interrupts (timer, disk,
  keyboard) arrive only in user mode, which includes the user-mode idle loop of task 0.
  There are two exceptions, which the models leave out: `exec()` sets SIE when the new
  image is complete (`exec.c:95`), so that an interrupt may come before the system
  call has returned, and `first_switch_to()` sets it just before its `sret`
  (`sched.c:186-191`).  By then both have done all that they do to modelled state.
* Tasks therefore interleave only at `schedule()`: in `sleep()`, `wait()`,
  `nanosleep()`, `yield()`, `exit()` and at the end of a time slice.  An action of a model
  is the stretch of code from one such point to the next.  Where a finer step costs
  nothing (`Pipe`: one iteration of a copying loop), the action is finer.
* `acquire()` on a spinlock that another task holds is a **deadlock of the machine**:
  with interrupts off nobody can ever release it.  `acquire()` on a lock the task itself
  holds panics.  Both are modelled as ways the kernel stops (`kernel = "spin"`,
  `"panic"`), as is a memory fault in kernel code (`"fault"`).
* `exit()` makes its parent ready whatever the parent is waiting for.  So every `sleep()`
  can return without its `wakeup()`; every component model in which tasks sleep has this
  step (`ChildExits`), except the models of FAT32, which leave waiting for locks and buffers
  to `Bcache`.

## 2. Inventory

| part | source | state | operations | hard part | what makes it correct |
|---|---|---|---|---|---|
| process table, scheduler | `sched.c`, `clone.c`, `spinlock.c` | `task[]` (state, slice, parent, channel, lock), `current`, nanosleep globals | clone, exit, wait4, sleep/wakeup, nanosleep, yield, timer | exit racing wait; locks kept across switches; reused slots | parents alive, no lost exit, locks owned when released |
| pipes | `pipe.c` | ring, two free-running counters, two open flags, lock | write, read, close | sleeping in the middle of a copy, counter wrap-around, closing | a bounded FIFO, no lost wakeup |
| buffer cache | `buffer.c`, `sleeplock.c`, `disk.c` | buffers with identity, count, valid flag, sleep lock; an LRU list | bread, bwrite, brelse | recycling while others wait, sleeping for the disk | one buffer per block, an atomic block store |
| virtio driver | `virtio_disk.c` | descriptors, avail/used rings, per-request info | rw, interrupt | descriptors running out, completion order | no descriptor shared, no transfer lost |
| SD card driver | `sdcard.c` | stage of the initialization, kind of the card, `sdcard_lock` | init, read/write sector | retries with late answers, byte or sector addresses, early wakeups during DMA | a sector store; card and channel used by one transfer at a time |
| board support | `fpioa.c`, `gpiohs.c`, `sysctl.c`, `dmac.c`, `spi.c`, `plic.c`, `utils.c` | function of each pin, clock gates, DMA routing, DMA channel, SPI registers, PLIC enables | one function per register change | the order in which registers are set | what the SD driver needs is set when a transfer starts |
| page allocator | `mm/buddy.c` | tree of longest free blocks | alloc, free | splitting and merging | disjoint blocks, nothing lost |
| slab allocator | `mm/slub.c` | page structs, a list of slabs per cache, a free list per cache and per slab | kmalloc, kfree, page tables' pages | two lists of the same objects, slabs given back or left behind | every object at one place, every page accounted for |
| entry cache and directories | `fat32.c` | cached entries with counts and locks, directory slots | ename, eget/eput, eupdate, create, remove | counts together with locks, sleeping in the middle of a release, recycling | counts exact, one entry per name |
| file table | `sysfile.c`, `pipe.c` | system file table, descriptors, reference counts | open, close, dup, pipe2, chdir, mkdir, unlink | failure paths, a release that sleeps under the table's spinlock | a file lives exactly as long as it is referenced |
| regular files on FAT32 | `fat32.c`, `sysfile.c` | FAT, clusters, chain and size of each entry, positions | eread/ewrite, etrunc, open | stale cached cluster, a walk past the end mark, several opens, a full disk | every cluster in at most one chain; a file is a sequence of bytes |
| console | `console.c` | input ring with three indices | interrupt, read | editing, a full ring, indices that wrap at different times | lines delivered once, in order |
| virtual memory | `vm.c` | page tables, list of areas | mmap, munmap, mappings | overlap, remapping | mapped pages match areas |
| exec | `exec.c` | new address space, stack | exec | partial failure | the old image survives a failure |
| traps | `entry.S`, `strap.c`, `syscall.c`, `timer.c` | saved registers | trap, return | register order | registers restored |
| library, information calls, boot | `lib/`, `sysother.c`, `time.c`, `systemInfo.c`, `init/`, `head.S` | none of interest | printing, copying, answers | | straight-line code |

Parts interact as follows.  All sleeping goes through `sleep()`/`wakeup()` of `sched.c`;
the file table calls pipes and FAT32; FAT32 reads and writes single sectors through
`bread`/`bwrite`/`brelse`; the cache calls the disk driver (virtio or SD card), which sleeps
until its interrupt; page tables, tasks and pipes live in slabs, which take pages from the
buddy allocator.

## 3. Plan

1. `Proc`: process table and scheduler. *(checked and proved)*
2. `Pipe` implements `Fifo`. *(checked and proved, with the refinement)*
3. `Bcache` implements `BlockStore`. *(checked and proved, with the refinement)*
4. `Virtio`: descriptors, rings and interrupt, several requests at once. *(checked; all its
   safety proved)*
5. `SdCard`, over `Fpioa`, `Sysctl`, `Dmac` and `Spi`, implements `SectorStore`. *(checked
   and proved, with the refinement)*
6. `Buddy` implements `PageAllocator`; `Slub` on top of the latter. *(checked)*
7. `FatFile` implements `ByteFiles`. *(checked and proved, with the refinement, on media
   below 1 GB while `allocClus()` works in the first sector)*
8. `Ecache` and, over it, `FileTable`. *(checked; all its invariants proved)*
9. `Console` implements `LineQueue`. *(checked and proved, with the refinement)*
10. Left: the slab allocator's invariants, `Vm`, and the trap path of `exec`.

## 4. Modules

### Proc (`sched.c`, `clone.c`, `spinlock.c`)

State: the fields of `task[i]` as functions of the slot number (`state`, `counter`, `ppid`,
`chan`, `lk`), where each task will continue when it is switched to (`pc`, and `target`
for `wait(pid)`), `current`, nanosleep's global `flag` and the ticks left until its deadline
(`left`), and how the kernel stopped, if it did.  A pid is its slot number, as in the code,
so a reused slot is mistaken for its former owner exactly as in the code (lock owners
too).  Every action ends with `Schedule` where the code calls `schedule()`: renewal of
used-up slices, then the shortest slice, the highest slot among equals.

`Wait` follows `wait()` lock by lock: which task it meets first decides whether it spins,
panics, reaps, sleeps or returns, and which locks it leaks.  `dirty` abstracts the file
system to the one thing that matters here: whether releasing a task's files must go to
the disk and therefore sleep.

Ends of the model, which are what the code does: `wait4` spins on the lock of a child that is
inside `sleep()` (also with `WNOHANG`, of which `doc/进程管理.md:139` says that it returns 0 at
once); reaping a child whose written file has to be put away acquires the reaper's lock a
second time and panics.  The timer makes the task in `flag` ready whatever has become of it,
a zombie or another task in its slot included; the properties hold in spite of it.

Not in the model: time accounting, exit status, address spaces (`exec`, successful `brk`),
the 34 registers on the kernel stack.

### Pipe and Fifo (`pipe.c`)

State: the fields of `struct pipe`, its lock, and per task where it is in a call and what
it has still to copy.  The counters are `uint`s; the model takes them modulo `UintRange`.
Actions are loop iterations under `pi->lock`.  `sent` and `rcvd` are history variables,
which `Fifo` takes as its whole state.  `pipealloc()` is the initial state; `pipeclose()`
happens when the last reference of an end is released, so nobody is inside a call on it.

### Bcache, BlockStore (`buffer.c`, `sleeplock.c`, `disk.c`)

State: the fields of each buffer, the owner of its sleep lock, the list as a sequence
from head to tail (the assignments to `b_prev` and `b_next` are abstracted), the transfer under way (`b->disk`), the medium, and per task its place
between `bread()` and `brelse()`.  A caller uses one block at a time, as those in `fat32.c`
do.  `BlockStore` is an atomic store; `Current` maps the cache to it: the up-to-date
buffer's content, else the medium's.

### Virtio (`virtio_disk.c`)

State: the free descriptors and their links, `info[].b`, the two rings with their
indices modulo the ring size, the driver's place in the used ring, `b->disk`; on the
device's side how far it has looked and what it is working on; and the hart: `current`, and
whether each task is in user mode, in the kernel, asleep for descriptors or asleep for its
transfer.  The device (external) takes chains in order and completes them in any order.
The hart is in the model because the interrupt is taken in user mode only: that is what
makes the driver safe without its lock, and what the livelock below hangs on.

### SdCard, SectorStore, Fpioa, Sysctl, Dmac, Spi (`sdcard.c` and the drivers below it)

`Fpioa`, `Sysctl`, `Dmac` and `Spi` have no variables: each is a set of operators from the
value of a controller's registers to their new value, one operator per C function that the
kernel calls, under the function's name.  `Fpioa` contains the whole table
`function_config`, abbreviated by the kinds of pads it is made of.  Functions nobody calls
are left out.  `is_memory()` counts the first 6 MB from 0x80000000 as memory
(`dmac.c:29-37`), where there are 8 (`MEM_END`, `include/memlayout.h:49`): a buffer of the
last two would be taken for a peripheral and its channel set up as such.  The models
assume buffers below.

`SdCard` has the variables: pins and GPIO, clock gates, DMA routing and channel, SPI
registers, the PLIC, the card and its medium, the stage of the initialization with its
timeout counter, `is_standard_sd`, `sdcard_lock`, and per task the place in a call, its
buffer for the DMA transfer and what it has read.  A command whose answer the processor polls is one
step, since nothing in it sleeps; a task sleeps for the lock and for the channel, and between
these sleeps the channel moves single bytes (`Beat`), the card makes programming progress
and the interrupt is raised and taken.  The card (external) is byte- or sector-addressed and
may answer at once, too late for the polling, with an error or not at all.  A driver that gave up
after its last try panics.  `SectorStore` promises that a read returns the sector and a
write returns when the sector holds the data; the refinement goes through every byte of
every frame, since one byte too many would be part of the next answer.

### PageBlocks, PageAllocator, Buddy (`mm/buddy.c`)

State: the array of the tree, and as history the blocks in use and the last request with
its answer.  The search, the recomputation of the ancestors and the climb are recursive
functions over the nodes.  A block can be given back by any of its pages, because the slab
allocator passes an object's address; that this works is part of `BitmapExact`, which says
what the whole array holds for a given set of blocks in use.  `PageAllocator` promises
aligned disjoint blocks and refusal only when no place is left.

### Slub (`mm/slub.c`)

State: the page structs, per cache its free list, the slab its list leads to and the number
of its slabs, the first word of every object (which links it while it is free and belongs to its user while it is not),
and the pages taken for large requests and for page tables.  Pages come from
`PageAllocator`'s definition of a block (`PageBlocks`), not from `Buddy`'s tree.  A cache
serves from `cache->freelist`; objects that come back go to their slab's list, which the
cache takes over when its own is used up **without clearing it there**, so that the same
objects are on two lists.  The model follows the kernel until a list means nothing any more:
the next object is no pointer (`wild`), lies in pages given back (`stale`, because
`cache->freelist` may point into a slab that went back to the buddy system), is in use
(`double`), or a list is linked through an object in use (`overwrite`).  Until then no slab
is given back early, every page is accounted for, and every object is at one place.  The page
struct of a large request is marked for the pages `kmalloc()` really marks.

One of these places is a defect.  `cache_alloc_pages()` calls
`list_add_tail(&cache->list, &page->slub_list)` (`slub.c:209`) where the new node comes first
(`include/list.h:117`).  That puts the cache's head into the ring of the new slab and leaves
the slabs before outside, with links to `cache->list` that nothing answers.
So the search of `kmem_cache_alloc()` sees the newest slab only, and `list_del()` of
any slab of the cache (`slub.c:70`) closes the ring over `cache->list` alone, so that the newest
slab drops out as well.  What is freed into a slab outside the ring is never served
again: `ObjectsAccounted` counts these objects as left *behind*, and says that objects are lost
in no other way.  `nr_partial` still counts those slabs.

### Ecache and FileTable (`fat32.c`, `sysfile.c`, `pipealloc()`)

`Ecache`: the fields of `root` and of the cached entries, the ring from `root.next` to
`root.prev`, the owner of each entry's sleep lock, and the directories on the disk as
places with name, attribute and first cluster; per task its current directory and, in `at`,
where it is in its call with that call's variables (`cur`, `nxt`, the rest of the path, the
entry `eput()` is writing and where the call goes on).  `FileTable` adds `SysFTable[]`, the
descriptors, `SysFLock` when its owner sleeps, and the system calls.  `leak` and `lost` are
history: the references that no one can give back, because a failed path keeps its last
directory locked and counted, `rm()`'s refusals keep lock and reference, and `dup()` counts a
file without installing the descriptor.

A step ends where the code may sleep: before a sleep lock, during a transfer, and inside
`eput()` after it has given `ecache.lock` up (`flush`).  The kernel's ends are `panic`,
`fault` and `spin`; and the model also ends when what the kernel does next has no meaning:

* `panic`: closing a file whose directory is referenced only through it (`fat32.c:488-496`),
  no entry left to recycle, a lookup in what is no directory, a write to a directory, a full
  disk;
* `fault`: `rm()` of a name that does not exist takes the lock of NULL before it tests it,
  and a descriptor that `dup()` has marked and not installed is used as a pointer;
* `spin`: another task wants `SysFLock` while `frelease()` keeps it across a sleeping
  `eput()`;
* `undercount`: an entry was taken while `eput()` wrote it, between the test of the count
  and the decrement;
* `stale`: a lookup finds the file of another directory, because the slot of its directory
  was recycled (or recycled back) while the file's entry stayed valid;
* `overwrite`: a file removed while open is written or closed and its place on the disk
  is now another's, or none.

A failed `open()` or `pipealloc()` releases a file structure with what its former user left
in it; `pipe2()` returns indices of `SysFTable`; both are in the model as they are.  A write
(`fwrite()`) is atomic here and only marks the entry: contents and positions are
`FatFile`'s.  Left out: removal of directories (`AT_REMOVEDIR`), what `exit()` closes,
permissions, `getdents`, `fstat`, `getcwd`, `openat` relative to a descriptor, long names,
directories of several clusters.

`MountAssumption` is what a FAT32 volume that was unmounted in order is like when it is
mounted: exactly the directories have clusters of directories, what has no name is free, no
directory has a name twice, and every directory is in one place, the root in none
(`InOrder`; `.` and `..` are no places, the walk handles them by itself).  `DiskAssumption`
says that there are finitely many names and places, and a place for every name.
`Coherent` (an up-to-date clean entry says what its place on the disk says) is about entries in use only: an entry of a removed directory's former slot may stay valid
while nobody uses it, which is the beginning of the `stale` end.

The root's count starts as the code's does.  The first task and task 0 take a reference each
in `procfile_init()` (`sched.c:65`, `sched.c:113`), before `first_switch_to()` calls `fat_init()`
(`sched.c:182-184`), which clears `root` and sets its count to 1 (`fat32.c:86-93`).  So two
references are forgotten, and the 1 stands for the first task's current directory:
`CountsExact` for the root says that its count is the references of `InitTask` and its clones
and of everything else that the kernel can give back, none of them task 0's, which never does.

### Console and LineQueue (`console.c`)

State: the ring and its three indices modulo `UintRange`, the lock, and per task where it
is in a call, what it may still take and what it has copied.  `consoleintr()` runs as a
whole and only while the lock is free, since interrupts are taken in user mode only; the
model has one action for a stored key (`Type`), one for each kind of editing.  `LineQueue`
sees `[r, w)` as what can be read and `[w, e)` as the line being edited.  Tasks that write
to the console matter only as holders of the lock.

### FatFile and ByteFiles (`fat32.c`, file calls of `sysfile.c`)

State: the FAT, the content of the clusters, `first_clus`, `cur_clus`, `clus_cnt` and
`file_size` of each file's cached entry, `f_pos` of each open, and the write under way in
each file.  The sectors of a cluster and the sectors' buffers are below the model.  A call
holds the entry's sleep lock throughout, so calls on one file exclude each other; calls on
different files meet in the FAT, and there only in `allocClus()`.  A write is cut after each
cluster, a read or a truncation is one step: what it touches belongs to the file.
`allocClus()` is modelled with its own arithmetic (`EntryNumPerSec`, `ClusterOf`).  Marking a
cluster, emptying it and linking it are one step, and so is filling a gap of several
clusters: the mark is set under the buffer's lock, and after it no other call touches the
cluster or the entry of the file's last one.  `ByteFiles` sees, through the chains, one
sequence of bytes per file.

The kernel stops when the disk is full, and when it asks the disk for a sector that is not
there.  The latter hangs on a read that ended exactly at the end of the last cluster and
left the end mark in `cur_clus`.  `reallocCurClus()` then gives the mark to `readFAT()`
(`fat32.c:266`), whose test of its argument is commented out (`fat32.c:151`), and so asks for
sector `RsvdSecCnt + 2097151`.  On a medium below 1 GB, such as the 256 MB that
`Makefile:78` makes for QEMU, that sector does not exist, and the driver panics.  On an SD
card of 1 GB or more it does, and the kernel takes what is there for a cluster.  `AtMark`
is what it finds: `NoSector`, an end mark, or a number of the FAT that it goes on from.
`SmallMedium` is the first case, which `fatfile` checks and the theorems assume.  In the
others the model goes on as the kernel does, and TLC finds both properties violated in a few
steps: after such a read an append links its new cluster nowhere (`writeFAT()` refuses
unseen, `fat32.c:173`) or into another file's chain.

## 5. Runs

| run | instance | shows |
|---|---|---|
| `proc` | 3 slots, slices 1..2, two channels, every pid for wait4, all calls | all its properties below |
| `pipe` | 2 writers, 2 readers, ring of 2, counters modulo 4, at most 4 bytes | FIFO, no lost wakeup |
| `bcache` | 3 tasks (symmetric), 2 buffers, 3 blocks, 2 values | the eight properties of Bcache |
| `virtio` | 3 tasks, 8 descriptors, fairness | its three invariants, and every transfer finishes |
| `virtio_crowd` | 4 tasks, fairness | **violation**: two waiters for descriptors keep the hart in the kernel |
| `sdcard` | 2 tasks, 2 sectors of 2 bytes, 2 contents, 3 tries, two pins the firmware may have used, both kinds of card | a sector store from reset on, one owner of card and channel, no lost wakeup |
| `buddy` | 16 pages, 8 of them the kernel's | the array is exact; it implements `PageAllocator` |
| `slub` | 8 pages, one the kernel's; one cache, slabs of two pages with two objects each, requests of 1..3 pages, one table page | objects, slab counts and pages accounted for |
| `console` | 2 readers, ring of 3, indices modulo 6, calls of 0..2 bytes, an ordinary key, newline, control-D | the console is a line queue, loses no wakeup, never locks up |
| `fatfile` | 2 files, 2 opens of one and 1 of the other, 3 clusters of 2 bytes | on a medium below 1 GB files are byte files, chains are exact |
| `fatfile_alloc` | the same, all entries that `allocClus()` looks at in the first sector in use | **violation**: a new cluster belongs to another file |
| `files` | 2 tasks, 2 cached entries, 3 directory clusters with 2 places each, 3 system files, one of them the console's | counts, locks and names of entries and files |

Properties of `Proc`: `TypeOK`, `ParentsLive` (no ppid of a live or zombie task names a dead
slot), `NoLostExit` (who sleeps in wait() has no zombie to collect), `SleeperHoldsLock`
(release() at the end of sleep() cannot panic), `CurrentReady`, `WorkConserving`.  Of `Pipe`:
`TypeOK`, `NoLostWakeup`, `IsFifo`.  Of `Bcache`: `TypeOK`, `OneBufferPerBlock`,
`ExclusiveUse`, `CountIsUsers`, `ListComplete`, `WrittenThrough`, `NoLostWakeup`,
`IsBlockStore`.  Of `Virtio`: `DescriptorsOwned`, `DoneIsServed`, `NoLostWakeup`,
`TransfersFinish`.  Of `SdCard`: `ProtocolKept` (no command in the middle of a transfer, no
address that is none of the card's sectors), `DmaOwned` (the running channel belongs to the
holder of `sdcard_lock`, whose buffer is still allocated), `NoLostWakeup`, `IsSectorStore`.
Of `Buddy`: `BitmapExact`, `IsPageAllocator`.  Of `Slub`: `ObjectsAccounted`, `SlabCounts`,
`PagesAccounted`.  Of `Console`: `NoLostWakeup`, `FullIsReadable`, `IsLineQueue`.
Of `FatFile`: `ChainsExact`, `IsByteFiles`; `AllocatedWasFree` is the one it breaks.
Of `FileTable`: `CountsExact`, `FileCounts`, `LockedIsCounted`, `OneEntryPerName`,
`Coherent`.

The two violations are defects of the code.  `alloc3_desc()` gives descriptors back with
`free_desc()`, whose `wakeup()` wakes the other waiters although three are no more free than
before (`virtio_disk.c:172`): two waiters wake each other for ever and the interrupt that
would free descriptors is never taken.  `allocClus()` looks at 16 entries of each FAT sector
where there are 128 and computes the cluster from 16 (`fat32.c:219`): from the second sector
on it marks one cluster and returns another one.

**Bounds and why they suffice.**  Three slots give a parent, a child and a third task to
lock, orphan or replace them; the proofs cover any number.  Slices 1..2
distinguish shorter, equal and used up.  `MaxNap = 1` gives a nap that is due and one that
is not.  A ring of two bytes with counters modulo four wraps both the ring and the
counters within the four bytes sent, and a call of three bytes does not fit the ring.
Three blocks on two buffers force recycling; two values tell old content from new.
Eight descriptors are the driver's own number; two transfers use six, so the third task
gives two back and waits, and the rings wrap after eight transfers.
Two sectors tell byte addresses from sector addresses, two bytes the order within a sector;
three tries let an answer come in time, late, and not at all.
A console ring of three bytes is filled with and without a newline, its indices wrap at
different moments, and two readers fight for every line; nothing bounds the number of keys.
Two free clusters of two bytes for two files, and calls of up to two bytes, let a call cross
from one cluster to the next, give a cluster back and take it again for the other file, and
fill the disk; files of at most three bytes end inside a cluster and at its end.  `fatfile`
has a FAT sector of 40 entries, so that all its clusters are among those that
`allocClus()` counts correctly; `fatfile_alloc` is about the others.
Eight pages besides the kernel's split and merge over four levels, next to a half that is
never free.  In `slub` two slabs fill the space, so that taking the second, giving either
back, with the other one left behind, and serving a large request compete; a slab of four objects has states empty, partial
and full, and `MinPartial = 1` lets one partial slab stay and the next go.
In `files` two entries are the fewest that a path of two names needs, so each call recycles
what the last one left; the calls make, find, empty, write and remove the same file from
both sides and make its directory the current one; the proofs cover larger caches.  The proofs remove
the bounds on tasks, slots, buffers, blocks, rings, sectors, entries, files and programs.

**Deadlock.**  Checking is off where the program may really stop: a kernel that spun,
panicked or faulted (`proc`, `sdcard`, `files`), a cache without free buffers (`bcache`), a
pipe closed at both ends (`pipe`), a kernel that ran out of disk (`fatfile`), a list of
objects that means nothing any more (`slub`), a failed path's lock that all tasks want
(`files`).

**Fairness.**  `schedule()` prefers the shortest slice and, among equals, the highest slot,
without ageing; a ready task can wait for ever behind tasks whose renewed slices are
shorter.  No fairness of a single task is therefore justified by the code, and all models but
`Virtio` state the absence of lost wakeups as invariants instead of
liveness: whoever sleeps has a reason that still holds.  The `virtio` runs with liveness
assume three things that are not about the scheduler: kernel code goes on executing (weak
fairness of *some* task's kernel step), the device takes and completes what it is given
(weak), and a pending interrupt is taken when the hart is in user mode (strong: the hart
may leave user mode again and again, but the interrupt comes before its next user
instruction).  `TransfersFinish` says that the driver learns of the completion, not that
the waiting task runs again, which the scheduler does not promise.

## 6. Proofs

Each proof establishes an inductive invariant from which the properties follow; all but the last
step of every theorem is first-order.  The invariants were checked by TLC on the
instances of section 5 before they were proved.

`ProcProofs` proves all six properties of `Proc` for any number of slots, slices and
channels.  The inductive invariant `ProcInv` is the conjunction of the five checked
invariants with `IdleStays` (task 0 never leaves user mode: `exit()` and `sleep()` by task 0
are impossible since it makes no system call).  `NoLostExit` needs it because orphans go to
task 0; `ParentsLive` needs `CurrentReady` because a new child's parent is `current`;
`SleeperHoldsLock` stands on the fact that every path that takes or leaks a task lock first
finds it free.  Assumptions: at least two slots, slices at least 1, sentinels distinct.

`BcacheProofs` proves the seven invariants of `Bcache` and the
refinement `Spec => IsBlockStore` for any finite set of tasks and any buffers, blocks and
values.  The inductive invariant `BInv` adds `Placed` (a task has a buffer exactly during a
call), `TransferOwned` (a transfer belongs to the lock's owner), `Content` (what a task's
place says of its buffer: up to date after the read, equal to the medium after a transfer)
and `Named`.  `ListComplete` needs that the list has no buffer twice (`Distinct`), since
taking one out removes its first occurrence only.  The refinement has four interesting
steps: recycling, end of a read, end of a transfer (none changes `Current`, by
`WrittenThrough` and `OneBufferPerBlock`) and a change by the owner, which is `BlockStore`'s
`Write`.

`PipeProofs` proves type correctness, `NoLostWakeup` and the refinement `IsFifo` for any
writers, readers, ring and range of the counters that is a multiple of the ring.
`NoLostWakeup` is about moments with a free lock; in between, a
writer fills a ring on which readers still sleep.  `PipeInv` therefore adds where each task
is and that it owns the lock there (`Placed`), that no call is under way on a closed end
(`Closed`), and the reason of every sleeper up to the one task that copies and will wake it
(`Reasons`).  The refinement rests on `InRing`: the counters are the lengths of
`sent` and `rcvd` modulo their range, at most a ring apart, and each byte between them stands
in the slot of its index.  Then `nwrite == nread + PIPESIZE` modulo 2^32 is fullness.

`ConsoleProofs` proves `NoLostWakeup`, `FullIsReadable` and the refinement `IsLineQueue` of
`Console`, with type correctness, for any readers, any ring and any range of the indices that
is a multiple of it.  `ConsoleInv` drops the lock from `NoLostWakeup`: whoever sleeps faces an
empty ring at *every* moment, because a call that moves `r` found the ring not empty and so
nobody asleep.  `Window` says that `w` lies between `r` and `e` within one ring, `OpenLine`
that the line being edited has no newline, `OneLine` that what one read copies is of one line.
The refinement needs sections of the ring between two indices as sequences, with lemmas for
what a change at either end does to them.

`VirtioProofs` proves the three invariants of `Virtio` that the run checks, its type
correctness, that the interrupt finds a waiting task behind every id it reads
(`CompletionsKnown`), and that no transfer is lost (`NothingLost`: the rings never lap).
`VInv` adds where a task is in its call (`Placed`), what a chain looks like (`ChainShape`) and
`OnePlace`: a transfer somebody waits for is in exactly one place.  The rings never lap
because a slot is held by a transfer, a transfer has three descriptors, and there are as many
slots as descriptors.

`SdCardProofs` proves all four properties of `SdCard`, the refinement of `SectorStore`
included, for any tasks, sectors, contents, sizes, tries and pins.  `SdInv` states what each
stage of the initialization has set up (`Booted`), who holds lock and channel (`Held`), that
the card is as the driver believes (`CardKept`) and, for the transfer under way, how far the
bytes are in buffer and card (`Transfers`).  That the pins are wired is not assumed: it follows
from an answer having been heard, which ends every stage the initialization can leave upwards.  The
assumptions are `SdAssumption` (sectors are numbers, their contents are bytes, there is one
try and one byte at least, no task is `Nobody`) and `CallAssumption` (`NoCall` is no call).

`FileTableProofs` proves `CountsExact`, `FileCounts`, `LockedIsCounted`, `OneEntryPerName`
and `Coherent`, all invariants of `FileTable`, for any tasks, any size of cache and tables, any
directories and any programs, under the named assumptions of `Ecache` and `FileTable`
(`CacheAssumption`, `DiskAssumption`, `MountAssumption`, `TableAssumption`,
`CallAssumption`).  All are statements about a running kernel, and so is the inductive
invariant, `IInv == Running => Core`.  `Core` consists of

* types, and which variables a call has at each place (`Typed`, `Shape`, `TableTyped`);
* the books of files: a file's count is its descriptors, the `open()` that fills it in, what
  is lost, and the console's own (`FileBalanced`); an open file has an entry of its kind
  (`HasEntry`);
* the books of entries: an entry's count is the entries below it, what the tasks' calls and
  current directories refer to, open files, and what is leaked, the root's no less than the
  others' (`Balanced`);
* `Sound`: an entry in use has a parent other than itself;
* `Working`: what a lookup has taken is its task's alone; `LocksExact`: a task holds exactly
  the locks its place says, or what a failure left it; `OneHit`: valid entries of one
  directory have different names, and none has the name that is just being looked up.

Each action then has a lemma of its own that reduces it to one of a few changes of the books:
`CacheStep` (entries and calls change, files do not), `TableStepKeeps` and `OneFileKeeps`
(one file changes, with or without an entry).  So the argument that
a release lowers the counts of an entry and, when it was the last, of its directory, is made
once, in the lemmas about `eput()`, and used by every call that ends in one.
`OneEntryPerName` stands on the lock of the directory: a name is looked up and created under
it, and `LocksExact` says that no failure path gives it up early.

`Coherent` needs to know that the place an entry points to is still its own, and so a second
invariant on top of `Core`, `Tree`, about entries and disk together:

* `InTree`: the disk is in order (`InOrder`, which every step keeps); an entry in use is below
  a directory in use; a valid one has its name in its place, and all the rest of the place too
  unless it is dirty (`Says`); only files are dirty or removed (`Plain`); no two directories
  in use have one cluster (`Apart`), so that two entries with different parents have
  different places;
* `Awaited`: an entry in use that is not valid has been taken by a call that is looking it up
  or making it, and that call holds its directory's lock;
* `Placed` and `Pending`: between the search and the write, a new file's place is free, its
  name not in the directory, and a new directory's cluster nobody's.

The lemma `OneChanged` reduces a step to one entry and what the others see of the disk;
`PutTreeStep` does so for all calls that end in `eput()`, whose write to the disk is
`FlushTree`'s business alone.  The only directory entry that changes while it is in use is
one being made (`MakeTree`), and its lock keeps every other call out of it.

`FatFileProofs` proves `ChainsExact`, the refinement `IsByteFiles` and `AllocatedWasFree` of
`FatFile` for any files, opens, sizes of the disk, of clusters and of calls, and any chains
on the disk as it is mounted, from `FileAssumption`, `DiskAssumption`, `MarkAssumption` and
`MountAssumption`.  All three have two hypotheses.  `SmallMedium` is the one about the end mark of section 4,
without which the first two are false.  `[]FirstSector` says that the FAT has one sector, or one of the entries
that `allocClus()` looks at in its first sector is free.  Without it all three are false, which
is what `fatfile_alloc` shows.  With it, `allocClus()` returns the cluster whose entry it found,
however many sectors there are; a FAT of one sector always satisfies it (`OneSector`), and that
is what `fatfile` checks.

The inductive invariant is `IInv`: there are chains `q`, one sequence of clusters per file,
such that

* `Exact(q)`: no cluster is in two places of `q` (`Apart`), each leads in the FAT to the next
  and the last to the end mark, every other entry of the FAT is free or the root's (`Chains`),
  and each file's entry says so: its first cluster, their number, and a current cluster that
  is in the chain or the end mark (`Says`);
* `Contents(q)`: everything in the clusters past the end of a file is zero (`Empty`; without it
  a write past the end would uncover what the previous owner left), and the write under way on a
  file belongs to one of its opens (`Calling`).

Stating the chains as data keeps the walks along them out of the invariant.  What the walks
return is proved once, by induction over a set of numbers (`Climb`, from well-founded minima):
`NthIs` and `LastIs` for a step along the FAT, `ChainIs` for the clusters of a file.
`LinkGrows` is about one call of `allocClus()`, `LocatedGrows` and `LocatedMoves` about
`reallocCurClus()` with and without growing the file, `ReadingReads` about the copying loop of
`eread()`, `PatchedBytes` about what a piece of a write does to the bytes of its file.  `OneStep`
combines them: each action leads from chains `q` to chains that extend or shorten them by free
clusters only (`Fresh`) and is a step or a stutter of `ByteFiles`.

The counters of `Pipe` and `Console` are taken modulo a range that is a multiple of the
ring, and the solvers do not know `%` with a variable modulus; `PipeProofs`, `ConsoleProofs`,
`VirtioProofs` and `SdCardProofs` begin with the lemmas on it that they use.

**Only model-checked.**  `TransfersFinish`: liveness under fairness is out of the prover's
reach.  `BitmapExact` and `IsPageAllocator`: the tree's nodes are found by halving and their
sizes are powers of two, arithmetic that none of the solvers knows, through functions
recursive in it.  `ObjectsAccounted`, `SlabCounts` and `PagesAccounted` of `Slub` count objects
along linked lists in memory; a proof would state the lists as data, as `FatFileProofs` does with
chains, and is not done.  The violation runs.

## 7. Not modelled

`vm.c` and `exec.c` are left of the plan.  Trap entry (saving and restoring registers) is
below the models: a trap is the point where an action starts.  Library routines, calls that
only report information, vendor routines without a caller and boot are left out for good.  The
`components` of `PROJECT.json` say for each part that is modelled what of it is left out.
