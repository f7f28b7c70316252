# A TLA+ model of xv6 with demand paging

The repository is xv6, the teaching Unix for x86 multiprocessors, extended with
demand paging: a process keeps at most `MAX_PHYS_PAGES` pages in memory and the
rest in a swap file of its own (`/.swap<pid>`).  This directory models the parts
of the kernel whose correctness depends on order, sharing or failure, and the
shell and tests that exercise them; checks them with TLC on small instances; and
proves the central facts about paging, the redo log and the console with TLAPS for
instances of every size.

Contents: 1 the system, 2 the modules, 3 the runs, 4 the proofs, 5 disagreements
between code and comments, 6 what is not modelled.

## 1. The system and its parts

| Part | Source | State | Operations | What is hard |
|---|---|---|---|---|
| Paging metadata | swap.c, proc.h | `pages[]`, list of resident pages, table of free swap offsets, `file_size` | init_page_meta, add_page, remove_page, swap_to_file, swap_from_file, get_offset, free_offset | long sequences of legal calls on linked structures; the last offset; the empty list |
| Virtual memory | vm.c, trap.c | page tables, frames | allocuvm, deallocuvm, copyuvm, freevm, free_page, handle_pgflt | failure in the middle of a loop; stale permissions and counters |
| Page allocator | kalloc.c, pagealloc.c | free list, counters | kalloc, kfree | exhaustion |
| Processes | proc.c, exec.c, sysproc.c | process table, parents, `killed` | allocproc, fork, exec, exit, wait, kill, growproc | interleavings of exit, wait and kill; slots used again |
| Sleep and scheduling | proc.c, swtch.S | `state`, `chan` | sleep, wakeup, sched, yield, scheduler | lost wakeups |
| Locks | spinlock.c, sleeplock.c | holder, interrupt depth | acquire, release, acquiresleep, releasesleep | interrupts, lock order |
| Redo log | log.c | header, `outstanding`, `committing`, disk | begin_op, log_write, end_op, commit, recover_from_log | crashes at any point; reservation; waiting |
| Buffer cache | bio.c | buffers, reference counts, LRU list | bget, bread, bwrite, brelse | recycling, exhaustion |
| Disk driver | ide.c | request queue | iderw, ideintr, idestart | interrupt against process |
| File system | fs.c, sysfile.c | inodes, bitmap, directories | iget, ilock, iput, balloc, bmap, writei, link, unlink, create | reference against link counts, lock order |
| Swap file life cycle | fs.c, exec.c | `p->swapFile` | createSwapFile, removeSwapFile, read and write | dangling pointer after removal |
| File table and pipes | file.c, pipe.c | reference counts, byte queue | filealloc, filedup, fileclose, pipewrite, piperead, pipeclose | full and empty, closing ends, kill |
| Console | console.c, kbd.c, uart.c | input indices r, w, e | consoleintr, consoleread | wrap, ^D given back |
| Shell, init, tests | sh.c, init.c, usertests.c, forktest.c | descriptors, children | parsecmd, runcmd, the tests | ends of pipes left open; what a test insists on, in every interleaving |
| User library | umalloc.c, ulib.c | malloc's free list | malloc, free | coalescing |
| Boot, devices, headers | the rest | | | sequential or pure I/O |

Interactions: user instructions fault into `trap`, which calls `handle_pgflt`,
which may evict a page (`free_page`, `swap_to_file`) before it reads one
(`swap_from_file`); both go through the file system, hence the log, the buffer
cache and the disk.  `sbrk`, `fork` and `exec` change pages[] and page tables
together and take frames from `kalloc`.  `exec` runs inside a transaction of the
log and removes and creates swap files there.

Everything that waits rests on sleep and wakeup, and these on spin locks.  The
models follow that order: `Sleep` goes down to single instructions and shows that
a sleep lock, and a test followed by `sleep`, are as atomic as their users think;
`BufferCache`, `FileSystem`, `Processes` and `Console` then take a stretch under
one lock as one step.  `Log` shows that operations that are not nested become durable
in one step and are let in by `begin_op`.  `FileSystem` relies on the first.  It also
takes `begin_op` never to wait; that leaves out executions in which operations that
exec begins inside its own wait for each other, which `log_nested` shows.

## 2. Modules

| Module | Models | Role |
|---|---|---|
| `SwapMeta` | swap.c, proc.h | the paging record of a process; every function of swap.c as an operator from record to record |
| `Paging` | vm.c, trap.c, proc.c, exec.c, kalloc.c | state machine of processes that fault, grow, shrink, fork, exec, exit and are killed |
| `UserMemory` | | abstract: each process has a memory that only it changes |
| `Log` | log.c, bio.c | transactions, commit, crash, recovery |
| `AtomicDisk` | | abstract: a disk that changes in one step between operations |
| `FsDisk` | fs.c, fs.h, mkfs.c | the disk as data: inodes, bitmap, blocks, directories; the operators on it; the image mkfs builds; `Fsck` |
| `FileSystem` | fs.c, file.c, sysfile.c, exec.c, proc.c | processes that make file system calls: inode cache, path lookup, table of files, swap files |
| `UserTests` | usertests.c | its file system tests as scripts of calls with the results they insist on |
| `Shell` | sh.c, init.c, cat.c, echo.c, zombie.c, forktest.c, usertests.c | the parser, and programs as lists of calls |
| `Processes` | proc.c, pipe.c, file.c, sysfile.c | fork, exit, wait, kill, pipes, descriptors |
| `Sleep` | spinlock.c, sleeplock.c, proc.c, trap.c | spin locks, sleep and wakeup, scheduler, timer, on several processors |
| `SleepLock` | | abstract: a lock with one owner and sleepers that are woken when it is given back |
| `BufferCache` | bio.c, ide.c | buffers, their list, the disk's queue and interrupt |
| `Console` | console.c | line editor, readers and writers |
| `LineDiscipline` | | abstract: a line being typed in front of a queue of lines |
| `MCPaging`, `MCFileSystem`, `MCProcesses`, `MCSleep`, `MCBufferCache` | | instances for TLC, and the properties of those models |
| `MCConsole` | console.c | the instance for TLC, and the loop of `consoleread` to compare with |
| `PagingInv` | | the invariants of `Paging`, and the words its proofs are written in |
| `PagingLemmas`, `PagingProofs` | | proofs about pages[], the page table and the swap offsets |
| `PagingSteps`, `PagingContent`, `PagingVisible`, `PagingMemory` | | proofs about frames, the swap file and the memory that programs see |
| `LogProofs` | | proofs about the log |
| `ConsoleProofs` | | proofs about the console |

Definitions have the names of the C functions they translate.  A definition whose
comment begins with "Mutant" is a plausible mistake in the definition after it;
`PROJECT.json` lists which property notices it.

### SwapMeta and Paging

`pages[]` is kept per field (`taken`, `on_phys`, `pte`, `offset`, `nextp`,
`prevp`) and a page table per flag (`PTE_P`, `PTE_PG`, `PTE_A`, `PTE_U`,
`PTE_ADDR`).  Addresses are page numbers; swap offsets and file sizes count pages.
The model is of the default build (`SELECTION=SCFIFO`).

`kern[p]` says where the kernel is on behalf of process p.  The loops of
`get_page_to_swap`, `allocuvm`, `deallocuvm`, `copyuvm` and exec's loading are one
step per turn, so other processes' allocations, exits and kills come in between.
Allocation and release of frames is atomic (`kmem.lock`).  File operations on
the swap file are atomic within a step, since the file belongs to one process:
`writeToSwapFile` includes the refusal of `writei` to write beyond the end of the
file, which nobody checks.  A panic, or a use of `pages[-1]`, ends the run with
its message in `panic`.

Failures are the code's.  `copyuvm` may fail at `setupkvm` or at the frame of a page
(`CopyNoMemory`), or at the page table of the copy (`CopyNoTable`), where it loses the
frame it has just filled.  `copy_swap_file` without memory for its buffer reads the file
over page 0 of the parent and then panics in `kfree` (`ForkNoBuffer`).  An exec may fail at
any point after `init_page_meta` (`ExecFails`); the process goes on with its old page table
and a `pages[]` that does not describe it, and the model follows it from there only to
its exit.  `bigargtest` of usertests.c goes on to print and open a file; what may
happen then is in section 5.

The environment is the user programs: `Refs` are the pages they refer to, `Bufs`
those they pass to system calls, `MaxGrow` the most pages one `sbrk` asks for,
`Pressure` says that `kalloc` may fail because the rest of the kernel holds the
memory.  Programs fetch their instructions from page 0 only.

### Log

`log.lock` makes `begin_op` and `end_op` atomic.  `log_write` makes its two checks
before it takes the lock, so it is two steps (`log_write`, `record`).  The commit
runs without the lock, one step per disk write; so does recovery.  A crash
may come between any two steps: it keeps `home`, `dlog` and `dhead` and loses the
rest.  The buffer cache is a function from blocks to contents; a buffer that is
neither locked nor `B_DIRTY` may be recycled at any time, and what is read then
is the disk's.

`Depth` is 1 for ordinary system calls.  It is 2 for `exec`, which calls `begin_op`
again, through `removeSwapFile` and `createSwapFile`, before its own
`end_op`.  `MaxOps` bounds the `begin_op` calls between two boots.

### FsDisk and FileSystem

A block is `BSIZE` cells; a cell is a byte of a file, a block number in an indirect
block or a directory entry.  `balloc`, `bmap`, `itrunc`, `readi`, `writei`,
`dirlookup` and `dirlink` are operators from disk to disk, as their callers hold
the locks that make them atomic.  A process in the kernel has a list `todo` of the
operations left of its call.  A step reaches from one place where the code may
wait for an inode's sleep lock to the next; inodes that stay locked meanwhile have
a `holder`.  `iput` is three steps, because it reads the reference count, lets go
of `icache.lock` and acts on it later.  `outstanding` counts operations of the log.
The disk a crash leaves is the one at `outstanding = 0`.

`fork`, `exec` and `exit` are here as far as files go: descriptors, the current
directory, `createSwapFile` and `removeSwapFile`.

### Shell and Processes

A program is a list of system calls; `runcmd` turns a parsed line into such lists.
A step is a stretch of a call under one lock up to where it returns or sleeps.  A
pipe's counters are modulo `Wrap`, a multiple of `PIPESIZE`, as unsigned numbers in
C are modulo 2^32.  A sleeping process has a channel; `wakeup` and `kill` make it
run again, and it makes its test again.  A process number is a slot of the table,
so slots are used again.  The meaning of a line, `Does` in `MCProcesses`, is
independent of the calls: what the words echo, cat, `|`, `<`, `>`, `;` and `&` say.

### Sleep

A processor runs the head of the list of its current thread, a process or its own
scheduler.  `acquire` is the interrupts off, then the `xchg` that may spin; `sleep`,
`yield`, `acquiresleep` and `sys_sleep` are lists of such operations in the order of
the code.  The timer interrupts wherever interrupts are on.  `ncli` and `intena`
belong to the processor, and `sched` keeps `intena` on the stack of the process.

### BufferCache and Console

In `BufferCache` processes call `bread`, `bwrite` and `brelse` as log.c does; the disk
answers at any time; it has the data of a write when the request is started, and the
interrupt brings the data of a read.  `content` is
the last value written to each block and serves only the properties.  In `Console`
the keyboard interrupt may come at any time `cons.lock` is free; `consoleread` lets
go of the inode, takes `cons.lock`, copies or sleeps, and takes the inode again.  `Copy`
says where its loop stops and what it leaves, without a recursion.

## 3. Runs

Passing runs:

| Run | Instance | Shows |
|---|---|---|
| `paging_metadata` | 1 process, 3 resident of 4 pages, 5 virtual pages, 6 frames, page contents, memory pressure | `PagesDescribed`, `ResidentList`, `OffsetsPartitioned`, `SwapFileHoldsPages`, `PhysLimit`, `FramesExclusive`, `NoPanic`; `MemoryPreserved`: paging implements `UserMemory` |
| `paging_fork` | 2 processes, 3 of 4 pages, page contents, memory pressure | `FramesExclusive`, `FramesKept`, `OnlyForkPanics`, `MemoryPreserved` across fork, failing fork, exit, kill |
| `paging_returns` | 2 processes, 2 of 3 pages, 6 frames, memory pressure | `KernelReturns`: page faults, sbrk, fork and exec return, or fail and return |
| `log_crash` | 2 processes, 3 blocks, 2 values, room for 2 operations | `CacheCoherent`, `QuietIsDurable`; `DiskIsAtomic`: the log implements `AtomicDisk` |
| `log_space` | 3 processes, 5 blocks, a log of 5 data blocks | `NoPanic`: the reservation suffices; `OpsFinish`: everybody waiting in `begin_op` is let in |
| `fs_tests` | 3 processes, blocks of 3 cells, 1 direct block, 13 inodes, 26 blocks | 21 tests of usertests.c, the second half of concreate, and an exec of a name that does not exist: `TestsPass`, `NoPanic`, `CrashConsistent`, `CacheCoherent`, `RefsCounted`, `NoCircularWait` |
| `processes` | 6 slots, 6 files, 2 pipes of 2 cells, 13 sequences of lines | `TestsPass`, `OutputRight`, `RefsExact`, `NoLostWakeup`; `PromptReturns`: everything is run and reaped |
| `sleep` | 2 processors, 3 processes | `NoPanic`, `RunsOnce`, `InterruptsMasked`, `NoLostWakeup`; `SleepLockAtomic`: the code implements `SleepLock` |
| `buffer_cache` | 3 processes, 4 blocks, 3 buffers | `Coherent`, `BuffersSound`; `AllServed`: every request and lock is served |
| `console` | 2 processes, a buffer of 2, indices modulo 4, 4 characters, 3 calls | `ReadersWoken`; `LinesKept`: the code implements `LineDiscipline`; `Served`: no reader keeps others from the console |

Each property is stated in words above its definition.  The deadlock check is off in
`processes`, `buffer_cache` and `console`, where all work may be done; their liveness
properties say that nothing stops earlier.

Bounds, and what they leave out:

- Paging: three resident pages are the fewest with a head, a middle and a tail in the
  list; four entries and five virtual pages let a process swap, and outgrow `pages[]`
  so that `add_page` fails.  The runs keep to programs outside the disagreements of
  section 5: `Refs` and `Bufs` leave out the guard page and buffers that are swapped
  out, and `MaxGrow` is less than `MAX_PHYS_PAGES`.  `NoPanic` of `paging_metadata` is a
  statement about one such program at a time, up to the first exec that fails;
  `OnlyForkPanics` of `paging_fork` about two that fork.  Images have at most
  `MAX_PHYS_PAGES` pages in these two runs; in `paging_returns` they have one page more.
  The proofs need none of these restrictions.
  Frames are interchangeable: `VIEW AnyFrames` identifies states that differ only in
  which frame holds a page, and `AnySlots` also those that differ in which of two slots
  a process has.
- Log: `log_space` and `log_crash` let an operation write `OpBlocks <= MAXOPBLOCKS - 2`
  blocks.  The on-disk log holds `LOGSIZE - 1` data blocks (mkfs.c counts the header
  among the `LOGSIZE` blocks) and `log_write` panics at that number even for a block
  already logged, so a reservation of `MAXOPBLOCKS` is really one of `MAXOPBLOCKS - 2`
  when a single operation fills the log.  Operations of this kernel stay below:
  `filewrite` writes at most 3 blocks of data, with the inode, the indirect block, the
  bitmap and unaligned ends.
- File system: with three cells to a block and one direct block, a file of four blocks
  is the largest (`writetest1` reaches it), directories grow over several blocks, and
  small files already use the indirect block.  Data in the tests is shortened and their
  loops run once or twice.  The passing run leaves out tests in which two processes
  use one name (section 5).
- Processes: pipes of two cells fill and wrap within one command; `pipe1` sends more
  than a pipe holds.  Six slots leave room for init, the shell and four more, and the
  crowded line needs more, so forks fail in the shell's children.  `kill_writer`, which is
  no program of the repository, kills a child that writes to a pipe.  `OutputRight` is
  not claimed of these two lines.
- Sleep: two processors are the fewest on which a wakeup can come between the test and
  the sleep, and three processes give a processor a choice of whom to run.
- Buffer cache: fewer buffers than blocks, so that every block is recycled.  The programs
  never hold and pin more buffers than there are.
- Console: a buffer of two is full after two characters; indices start next to the wrap.

Fairness.  Every liveness property assumes of a process only that it goes on when it can
(weak fairness of its steps): the scheduler is round robin and passes over nobody
RUNNABLE.  `AllServed` assumes also that the disk answers.  `OpsFinish` assumes that an
operation writes finitely often before its `end_op` (every system call is a bounded
loop), which is strong fairness of `end_op`.  Nothing obliges a process to begin
an operation, anybody to type, or the machine to crash.  Since `MaxOps` is finite,
`OpsFinish` speaks of calls that eventually stop; with an endless stream of calls
`begin_op` promises no order.  In `Served` a lock that is given up and taken again is
no threat to others, because the calls are finitely many (`MaxCalls`).

## 4. Proofs

### Paging

Proved for every number of processes, pages and frames:

| Theorem | Module | Statement |
|---|---|---|
| `TypeCorrect` | `PagingProofs` | `Spec => []TypeOK` |
| `PagesDescribedHolds` | `PagingProofs` | `Spec => []PagesDescribed` |
| `ResidentListHolds` | `PagingProofs` | `Spec => []ResidentList` |
| `OffsetsPartitionedHolds` | `PagingProofs` | `Spec => []OffsetsPartitioned` |
| `MetadataNeverPanics` | `PagingProofs` | the panics that guard pages[], page table and offsets are unreachable |
| `PhysLimitHolds` | `PagingProofs` | `Spec => []PhysLimit` |
| `FramesOwned` | `PagingMemory` | `Spec => []Owned`, the inductive invariant of frames and swap files |
| `FramesExclusiveHolds` | `PagingMemory` | `Spec => []FramesExclusive` |
| `FramesKeptHolds` | `PagingMemory` | `Spec => FramesKept` |
| `SwapFileHoldsPagesHolds` | `PagingMemory` | `Spec => []SwapFileHoldsPages` |
| `MemoryPreservedHolds` | `PagingMemory` | `Spec => MemoryPreserved`, the refinement of `UserMemory` |

Assumptions: `SizesAssumption` (2 <= `MAX_PHYS_PAGES` <= `MAX_TOTAL_PAGES`),
`ValuesAssumption` (`NoFrame` is no frame, `Zero` differs from `Junk`) and
`EnvAssumption` (images have at least three pages, text, guard and stack, and at
most `MAX_TOTAL_PAGES`).  `PhysLimit` bounds the resident pages of each process whose own
image had at most `MAX_PHYS_PAGES` pages; a larger image has no such bound
(`PagingBigImage.cfg`).

Metadata.  The invariant is `Inv` of `PagingInv`.  The three properties of the
record alone (`RecOK`) are kept by each operation of swap.c: `PagingLemmas` has
one lemma per operation.  They are not inductive for the system, since the
operations have preconditions that come from the loops around them.  `LoopOK`
supplies these: where the loop of the kernel stands and which pages are mapped at
that point, so that `add_page` never finds the page already there, `remove_page`
always finds it, and the victim search is on a resident page.  `CopyOK` and `ForkOK`
describe the child's page table while `copyuvm` runs and that no two forks share a
child.  A counting argument on offsets shows that `get_offset` never fails: a
process with `phys_pages >= MAX_PHYS_PAGES` has at most
`MAX_TOTAL_PAGES - MAX_PHYS_PAGES` pages in the file, one less than there are
offsets.  One lemma per action of
`PagingProofs` then shows that it keeps `Inv`.

Frames and swap files.  The invariant is `Owned` of `PagingInv`, on top of `Inv`.
`FramesExclusive` lacks two facts to be inductive: only exec has frames set aside in
`old`, and an unused slot maps no page, so that neither a new process nor a new image
drops a frame.  `FramesKept` then follows step by step: each lemma about a step also says
that the frames accounted for stay the same, except for `CopyNoTable`.  `SwapFileHoldsPages` needs `SwapOK`.  `get_offset` takes the first entry
of a table that `free_offset` shuffles; why should that entry never lie beyond the end of
the file?  Because the table beyond the end is as `init_page_meta` left it
(`offsets[s] = s`), every other entry and every offset in use is inside, and `free_offset`
stores into the first taken entry, which is inside as well.  `PagingSteps`
shows that the operations of swap.c keep it and says what each step does to its
process's slot, and `PagingMemory` shows that every step keeps `Owned`.

Memory.  The invariant is `DataInv` of `PagingInv`, on top of `Inv` and `Owned`.  It
says what holds of memory that programs do not see yet, or no longer: the pages beyond
the size of a growing process are zero; `deallocuvm` has left no page between the size
the program sees and where its loop stands; the pages of an image being loaded are zero;
the pages that `copyuvm` has copied equal the parent's.  `ContentOut`, `ContentIn`,
`ContentAdded` and `ContentRemoved` of `PagingSteps` state what the operations of swap.c do to the
contents of all pages: eviction writes at an offset that no other page uses
(`OffsetsPartitioned`) and that `writei` accepts (`SwapOK`), so a page's contents move
between frame and file unchanged.  A step changes only free frames and frames of one
slot (`MemKept`), so other processes see nothing.  Each action then is a hidden step of
`UserMemory` (`PagingContent`) or the one that `UserVisible` names (`PagingVisible`).

### The log

Proved in `LogProofs`, for every number of processes and blocks, every set of contents
and every size of the log:

| Theorem | Statement |
|---|---|
| `NeverPanics` | `Fits => (Spec => []NoPanic)` |
| `CacheIsCoherent` | `Fits => (Spec => []CacheCoherent)` |
| `QuietDurability` | `Fits => (Spec => []QuietIsDurable)` |
| `LogIsAtomic` | `Fits => (Spec => DiskIsAtomic)`, the refinement of `AtomicDisk` |

`Fits` says that operations are not nested (`Depth = 1`; section 5 has the nested case),
that an operation writes at most `MAXOPBLOCKS - 2` blocks, and that the log on disk is
as large as mkfs makes it.

Argument.  The invariant is `IInv`.  `NoPanic` is not inductive, since
`log_write` tests the size of the transaction before it takes the lock and records the
block later.  `Reserved` makes it so: the header and the `Claim`s together fit into
the log, where a claim is a block that an operation in progress may still add, counted
as a pair of process and number.  `begin_op` adds `MAXOPBLOCKS` claims only if there is
room for them; recording a block trades a claim for an entry; ending an operation
drops its claims.  `Running` and `Booting` say for each point of a commit and of a
recovery which of header, log, cache and home agree.  One lemma per action shows that
`begin_op`, `log_write`, `end_op`, the five steps of a commit, recycling, crash and
recovery keep it.  For the refinement, an operation maps
to one of `AtomicDisk`, the step that writes the header maps to the commit, and all
other steps of commit and recovery are hidden.

### The console

Proved in `ConsoleProofs`, for any number of processes, any size of the buffer, any
width of the indices that is a multiple of that size, and any index to start from
(`ConsoleConstants`; in the code 128 and 2^32):

| Theorem | Statement |
|---|---|
| `ConsoleInvariant` | `Spec => []Inv` |
| `ReadersWokenHolds` | `Spec => []ReadersWoken` |
| `LinesKeptHolds` | `Spec => LinesKept`, the refinement of `LineDiscipline` |

Argument.  `ReadersWoken` alone is not inductive: a reader tests for input and sleeps in
two steps.  `SleepOK` adds that it holds `cons.lock` in between, so that `consoleintr`
cannot run there.  `InputOK` says that what has been entered and the line being typed
fit into the buffer together, which makes the three indices lie in order on the circle,
and that the line holds no newline, so that Control-U erases all of it and nothing else.
`ProcOK` says that the bytes a read has and those it still asks for add up to its size;
`consoleread` tests that sum to decide whether an end of file goes back into the buffer.
The buffer is seen through `Bytes`, the sequence between two indices.  Lemmas on
arithmetic modulo `Wrap` show that storing at `e` leaves the bytes between `r` and `e` alone
(`PutBytes`, `PutLine`), that moving an index splits or joins sequences (`BytesPart`,
`BytesJoin`), and that a pass of the loop takes from the front of the queue what
`LineDiscipline` allows (`LoopReads`, `LoopTakes`).  The other steps are a step of
`LineDiscipline` each, or leave its variables as they are.

### Only model-checked

- `NoPanic` of paging as a whole: it is false for some values of the constants (section 5).
  `MetadataNeverPanics` is the part that holds for all of them.
- All liveness properties: fairness and ENABLED are out of the prover's reach.
- `Processes`: the parser of the shell is a RECURSIVE operator, which the prover cannot
  follow.
- That `Copy` is what the loop of `consoleread` computes: `Loop` of `MCConsole` is that
  loop, one byte a turn, and TLC compares the two (`CopyIsLoop`) on every buffer of two
  bytes, at every index.
- `FileSystem`, `Sleep` and `BufferCache`: what a process has left to do is a list of
  operations.  An invariant would have to say which lists occur, for every program, and
  `FileSystem` keeps the results of whole scripts.

## 5. Disagreements between code and comments

Two are runs that TLC refutes:

| Run | The code | The comment |
|---|---|---|
| `fs_same_name` | create drops its directory while it holds the new inode, and `iput` locks the directory again; unlink or link of that name, with the locks in the other order, deadlocks with it | usertests.c "another concurrent link/unlink/create test, to look for deadlocks" |
| `log_nested` | execs that begin operations inside their own wait for each other for ever | log.c "it sleeps until the last outstanding end_op() commits" |

In `log_nested` the sizes are those of param.h and mkfs.c: two execs outstanding and one
block in the log suffice.

Eight further configurations are kept for whoever changes that code.  Each has a single
invariant that TLC refutes:

| Configuration | Module | Invariant | The code | The comment |
|---|---|---|---|---|
| `PagingGuard.cfg` | `MCPaging` | `GuardInaccessible` | a swapped out guard page comes back accessible | exec.c "Make the first inaccessible" |
| `PagingBadAccess.cfg` | `MCPaging` | `BadAccessKills` | touching the guard page panics the machine | trap.c "In user space, assume process misbehaved" |
| `PagingBuffers.cfg` | `MCPaging` | `CheckedBuffersUsable` | a checked buffer that is swapped out panics the machine | syscall.c, argptr |
| `PagingFailedSbrk.cfg` | `MCPaging` | `FailedSbrkRecovers` | a failed sbrk can leave an empty list and the next fault uses `pages[-1]` | usertests.c "does it clean up the last failed allocation?" |
| `PagingForkMemory.cfg` | `MCPaging` | `ForkFailsGracefully` | fork without memory for the buffer of copy_swap_file panics in kfree | usertests.c "test that fork fails gracefully" |
| `PagingFailedExec.cfg` | `MCPaging` | `FailedExecRecovers` | after a failed exec pages[] and its counters do not describe the page table that the process goes on with | usertests.c "does exec return an error if the arguments are larger than a page?" |
| `PagingBigImage.cfg` | `MCPaging` | `RoomBeforeSwapIn` | a large image makes handle_pgflt read without freeing | vm.c "must free page before bringing one from disk" |
| `FileSystemLeak.cfg` | `MCFileSystem` | `LastReferenceFrees` | two processes that drop the last two references to a removed directory both read a count of 2, and nobody frees it | fs.c "If that was the last reference and the inode has no links to it, free the inode" |

Met while modelling: a pipe writer that is killed returns without waking the reader of
what it has written (pipe.c:86), who finds it when the last writer's end is closed;
`NoLostWakeup` of `processes` states this as its one exception.  In no configuration:
`ideintr` marks a buffer valid when its read failed
(ide.c:118); `exec` keeps its program's inode locked while the functions of the swap
file lock the root directory; an inode that is open without links when the machine
stops is never freed; a program longer than a page may fork while page 0 is swapped out,
and `copyuvm` then panics where it has no memory for the page table (vm.c:392).

## 6. Not modelled

- Boot, interrupt controllers, multiprocessor tables, UART, scan codes, the cursor,
  `cprintf`: they run once, sequentially, or are pure I/O.
- Strings, formatting and `umalloc.c`: sequential code of one process that shares
  nothing.
- The AQ, NFUA and LAPA builds: the Makefile's default is SCFIFO, and the others
  compile other functions in place of those modelled.
- What a process does after an exec that has failed, except exit.  Its pages in the old
  swap file are lost by then.
- Use of `p->swapFile` after `removeSwapFile`: exec of sh makes no new swap file, and
  the next exec or exit closes the old `struct file` again.  `FileSystem` has exec as
  the code has it, but no script of its runs execs sh.
- Contents of programs: a loaded page is zero, and a program is the calls it makes.
- Programs that only read and print (ls, grep, wc), or make one call (kill, ln, mkdir,
  rm).  The tests of sbrk and of bad addresses are subsumed by `Paging`, whose programs
  refer to pages in every order.

`PROJECT.json` lists the hazards of the code at their lines, with the properties that
cover them or the reason why none does.
