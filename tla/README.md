# A verification of xv6-riscv in TLA+

This directory models `xv6-riscv` in TLA+: the kernel, and the user programs
that have an algorithm or a protocol of their own.  TLC checks the models on
small instances; TLAPS proves the main results about the log, the process table,
pipes, the buffer cache, the disk driver, the table of open files and the clock
for every value of the constants.  `PROJECT.json`
lists the components, the runs, the source lines of every definition, the hazards
and the theorems.

## 1. The system

xv6 is a small multiprocessor Unix kernel.  Its parts, the state each keeps, the
operations that change it, and what makes each hard:

| part | state | operations | hard because |
|---|---|---|---|
| spin-locks (`spinlock.c`) | `locked`, `cpu`; per CPU `noff`, `intena` | acquire, release, push_off, pop_off | interrupt handlers take the same locks on the same CPU |
| processes (`proc.c`, `trap.c`) | per slot `state chan killed xstate pid parent`; `nextpid`, `wait_lock`, each CPU's `proc` | allocproc, fork, exit, wait, reparent, sleep, wakeup, kill, yield, sched, scheduler | locks held across a context switch, lost wakeups, reuse of slots |
| sleep-locks (`sleeplock.c`) | `locked`, `pid` | acquiresleep, releasesleep | sleeping under a spin-lock |
| buffer cache (`bio.c`) | buffers with `refcnt valid blockno`, LRU list | bread, bwrite, brelse, bpin, bunpin | one copy per block, recycling, exhaustion |
| log (`log.c`) | `outstanding committing lh`, on-disk header and log blocks | begin_op, log_write, end_op, commit, recovery | crashes between any two writes, log space |
| disk driver (`virtio_disk.c`) | descriptor table, avail and used rings, `info[]` | virtio_disk_rw, virtio_disk_intr | descriptors shared by processes, completion by interrupt |
| inodes, blocks (`fs.c`) | in-memory inode table, on-disk inodes, bitmap | ialloc iget ilock iput itrunc bmap balloc bfree readi writei | reference counts in memory and on disk, reuse of inodes |
| directories, paths (`fs.c`, `sysfile.c`) | entries, link counts | dirlookup dirlink namex link unlink create open mkdir chdir | two inodes per operation, dangling entries |
| files (`file.c`, `sysfile.c`) | file table with `ref off`, descriptors | filealloc filedup fileclose fileread filewrite, open dup close pipe | shared offsets, last close |
| pipes (`pipe.c`) | ring buffer, `nread nwrite readopen writeopen` | pipealloc pipewrite piperead pipeclose | blocking both ways, close and kill while blocked |
| console, UART (`console.c`, `uart.c`) | input buffer `r w e`, output buffer `tx_r tx_w` | consoleread, consoleintr, uartputc, uartintr | interrupt against process, wrap-around |
| memory (`kalloc.c`, `vm.c`, `exec.c`) | free list, page tables, `sz` | kalloc kfree mappages uvmalloc uvmcopy uvmunmap copyin copyout exec | partial failure must free exactly what it took |
| clock, traps (`trap.c`, `sysproc.c`) | `ticks` | clockintr, sleep, uptime, usertrap | wakeups from interrupts |
| copies, strings, names (`vm.c`, `syscall.c`, `string.c`, `fs.c`) | user pages, buffers | copyin, copyout, copyinstr, memmove, skipelem | page boundaries, missing NULs, address wrap-around |
| user level (`umalloc.c`, `sh.c`, `init.c`, `grep.c`, `mkfs.c`) | free list, command trees, descriptors, image | malloc, free, the shell's parser and runcmd, grep, mkfs | coalescing, ends of pipes left open, lines cut by reads |

How they interact: every blocking operation goes through `sleep`/`wakeup`; file
system calls run between `begin_op` and `end_op`; the log pins buffers of the
cache; the cache reads and writes through the disk driver, whose interrupt wakes
the caller; `exit` closes files, which may free pipes and inodes; `fork` and
`exec` allocate memory and must give it back when they fail half way.

What correctness means for them: calls of the file system are atomic across
crashes; no wakeup is lost and nobody waits on a condition that already holds; a
process runs on one CPU at a time and its slot is freed once; locks are taken in
an order without cycles; reference counts keep an object exactly as long as
somebody can reach it; counters behave across their wrap; a call that fails half
way gives back what it took; the kernel does not panic.  `hazards` in
`PROJECT.json` lists where each of these could go wrong.

## 2. The modules and the code

Each component is a module with its state, its operations as actions and its
properties.  Code that runs under one acquire of a spin-lock is one step, unless
another actor can see or change something in between; loops are one turn per step
where others can move between turns.  Abstract specifications (`AtomicDisk`,
`Fifo`, `BlockStore`, `DiskCalls`, `LineInput`) say what a component promises, and
the detailed one is shown to implement it through a refinement mapping.

**`Log`** (`log.c`, and `bread`, `bget`, `bpin`, `bunpin` of `bio.c`).  `lh`,
`outstanding`, `committing` are the fields of `struct log`; `hd` and `logd` are
the header and the blocks of the on-disk log, `disk` the home locations; `cache`
and `pins` are the buffer cache as far as the log depends on it.  `BeginOp`,
`LogWrite` and `EndOp` are the critical sections of `log.lock`.  `Commit`,
`WriteLog`, `WriteHead`, `InstallTrans`, `ClearHead`, `EndCommit` are the phases
of `commit`, one synchronous disk write at a time.  `ReadHead`, `RecoverInstall`,
`RecoverClear` are `recover_from_log`.  `Crash` can happen between any two steps,
also during recovery; the block being written is then old, new or torn (`Torn`:
any value).  The header is never torn: it fits in one sector.  `Kill` wakes a
sleeper of `begin_op`, which looks again.  `Recycle` evicts any buffer without
pins, `Bread` brings one in.  **`AtomicDisk`** is the promise: `stable` moves only
by taking all of `current`, while no call is open; a crash throws `current` away.
Under the mapping `stable` is what recovery would leave on the disk of this
instant, `current` what the calls read through the cache, `open` the calls in
progress.

**`Proc`** (`proc.c`, and the parts of `trap.c`, `sysproc.c` and `spinlock.c` it
needs).  Slots have `state chan killed pid parent`; each CPU runs its scheduler
or the kernel thread of its process; a lock has the CPU that holds it, since
`p->lock` is taken by one thread and released by another across `swtch`.  `Scan`,
`Resume`, `SwitchedOut` are the scheduler and the two sides of the switch;
`AllocProc`, `ForkParent`, `ForkRun` the three critical sections of `fork`;
`Exit`, `Reparent`, `WakeInit`, `WakeParent`, `Zombie` those of `exit`; `Wait`,
`WaitScan`, `WaitEnd` those of `wait`; `Sleep`, `Kill`, `UserTimer`,
`KernelTimer`, `Return` the rest.  Loops over the table are one slot per step.
`Spin` is a failed attempt of `acquire`, with interrupts off.  `panicked` records
the panics of `sched` and of a ZOMBIE that resumes in `exit`.  The panic of init's own exit is the label
`panic`: `init.c` calls `exit` when its fork fails, and a killed init comes there too;
`panic` loops with interrupts on and freezes the output, so that the thread of init
stops and all else goes on.

**`Pipe`** (`pipe.c`, the last `fileclose` of each end, `sleep`, `wakeup` and
`kill` as pipes use them).  `nread` and `nwrite` wrap at `WIDTH` (2^32 in the
code).  `pi->lock` is held from step to step, because a kill can come between
the test of `killed` and the sleep.  `WriteByte` includes the failing `copyin`,
`ReadByte` the failing `copyout`, which loses the byte it took.  Each process
has one end, and all descriptors exist at the start.  **`Fifo`** is the promise: a
bounded queue with two ends, each closed once; bytes enter only while the read
end is open.

**`Bcache`** (`bio.c`, `sleeplock.c`).  `buf` has the fields of `struct buf`, `lru`
the order of the list, `lock` the holder of each buffer's sleep-lock.  `Bget` is
one critical section of `bcache.lock`, with recycling from the end of the list and
the panic when there is nothing to recycle.  A process has two pointers to buffers,
since `bmap` and `itrunc` keep the indirect block over `balloc` and `bfree`, and
`write_log` and `install_trans` copy from one buffer to the other; `Nests` says which
block a client asks for with which in hand.  `Acquiresleep` is one turn of its loop,
`Bread` the transfer of an invalid buffer, `Change` and `Bwrite` what the client
does, `Bpin` and `Bunpin` the log's pins, `Releasesleep` and `Brelse` the two
halves of `brelse`.  The client leaves no change behind that is neither written
nor pinned.  **`BlockStore`** is the promise: one copy of each block, given to one
process at a time.

**`VirtioDisk`** (`virtio_disk.c`, `devintr`, `plic.c`).  The descriptor table,
both rings with their 16-bit indices, `info[]`, `b->disk`; `Submit` and `Finish`
are the two halves of `virtio_disk_rw`, `IntrStart`, `IntrLoop`, `IntrEnd` the
handler; `Fetch` and `Complete` the device (external), which takes commands in
order and completes them in any order.  `START` puts the ring indices just before
their wrap.  **`DiskCalls`** is the promise: a call carries out its transfer
exactly once and then returns.

**`Console`** (`console.c`): the ring with `r`, `w`, `e`; `consoleintr` with `^U`,
`^H` and `^D`; readers that take a line character by character.  **`LineInput`** is
the promise.  **`Uart`** (`uart.c`, `consolewrite`): the transmit ring, writers,
the interrupt handler, and `uartputc_sync`, which takes no lock; it implements
`Fifo`.  **`Trap`** (`trap.c`, `spinlock.c`, `sched`, `kernelvec.S`,
`trampoline.S`): the interrupt state of a hart (`sstatus`, `sepc`, `stvec`, `noff`,
`intena`) across traps, switches and locks.  **`Clock`** (`clockintr`,
`sys_sleep`): `ticks` with its wrap.

**`Fs`** (`fs.c`, `sysfile.c`): the inode table and the directory tree.  A process
has in `code` the operations its call has still to do (`iget`, `ilock`, lookup,
link, unlock, `iput` with its release of the lock while it frees the inode); any
other process may run between two of them.  **`FileBlocks`** (`balloc` to `writei`,
`fileread`, `filewrite`): bitmap, inodes with direct and indirect blocks, the
cached and the logged copy of each block; a transaction is one step, a write is
several.  **`FileTable`** (`file.c`, `sysfile.c`, `pipealloc`): files, descriptors
and what they stand for, one critical section per step, with every failure; `pc`
is where a call stands, `rf`, `wf`, `ff`, `ip`, `fd`, `np` are its local variables.

**`Vm`** (`kalloc.c`, `vm.c`, `growproc`, `fork`, `exec`, `exit`): free pages, page
tables of `LEVELS` levels, memory contents; calls work page by page and any
allocation can fail.  **`UserCopy`** (`copyin`, `copyout`, `copyinstr`, `fetchaddr`,
`fetchstr`),
**`Strings`** and **`StringCalls`** (`string.c`, `memmove` of `ulib.c`),
**`PathName`** (`skipelem`, `namex`, `dirlink`, the name `exec` sets): loops over
memory, checked against definitions that say what the functions are for.

**`Umalloc`** (`umalloc.c`), **`Mkfs`** (`mkfs.c`), **`Grep`** (`grep.c`),
**`ShParse`** and **`ShRun`** (`sh.c`, `init.c`): the allocator's ring of free
blocks; the image builder; the matcher and the loop over lines; the parser, with
its tree and its NULs; and the processes, pipes and waits of a running command, with
the shell that init starts again, whose `exec` may fail (`ShExec`).

Definitions named as mutants in the modules are small plausible bugs; each
property is known to fail for one of them, which shows that the property depends
on the code.  They are not part of any specification.

How the modules fit together: `Fs` and `FileBlocks` take a call as a transaction
and the cache as one copy of each block, which `LogIsAtomic` and
`CacheIsBlockStore` justify; `Bcache` takes a disk transfer as one step, which
`DiskServesCalls` justifies; `ShRun` takes `fork`, `wait`, `exit` and pipes as
atomic, as `Proc`, `FileTable` and `Pipe` show them to be.

## 3. The runs

`log_atomic`, `proc_safe` and `pipe_fifo` check one module each (`MCLog`, `MCProc`,
`MCPipe`).  The other MC modules put several components side by side that share no
state: a behaviour belongs to one `part` and the variables of the other parts are
constantly `Off` (or, for a component whose own properties the run names, keep
their first values), so that the state space is the sum of those of the parts and not
their product.

| run | instance | shows |
|---|---|---|
| `log_atomic` | 2 processes, 3 blocks, 2 values, log of 4, 2 crashes | `Log` implements `AtomicDisk`; home locations are written only under a committed header (`WriteAhead`); a sleeper of `begin_op` has a waker |
| `proc_safe` | 3 slots, 2 CPUs, 3 pids, kill of pids 1 and 2 | no panic but that of init's exit, no process on two CPUs (`OnOneCPU`), living parents and no lost wakeup in `wait` (`FamilyRight`), no lock cycle (`NoDeadlock`), a slot is freed by the parent of the zombie (`FreedByParent`) |
| `pipe_fifo` | 2 readers, 2 writers, pipe of 2, counters of 2 bits | `Pipe` implements `Fifo` across the wraps; no lost wakeup (`NotStuck`); the page is freed only when unused; nothing read from an empty pipe means end of file |
| `devices` | `VirtioDisk` with 3 calls, 8 descriptors, indices that start at 65534; `Console` with 2 readers, a ring of 2; `Uart` with 2 writers, 2 harts that echo, a ring of 2; `Trap` with 1 process on 2 harts and 2 on 1 | the driver implements `DiskCalls`, the console `LineInput`, the UART `Fifo` with no overrun of its FIFO; traps come back to where they were taken |
| `files` | `Bcache` with 2 processes of 2 pointers each, 3 blocks of which one is the indirect block over the others, 2 buffers; `Fs` with 2 processes and 5 calls between them on 3 inodes, and alone with 6; `FileBlocks` with writes of up to four blocks, with a full disk, with failing copies | the cache implements `BlockStore`, `bget` panics only when every buffer is pinned or in use by a call (`BuffersSuffice`), no wakeup of a sleep-lock is lost (`NoLostWakeup`); entries lead to allocated inodes, counts of references are exact, no panic (`NoDangling`); link counts are exact for one process (`LinksExact`); bitmap and inodes agree (`BlocksOwned`), files hold what was written and their sizes are right, also after a copy that failed inside a block (`ContentsRight`), transactions fit (`LogFits`) |
| `programs` | `FileTable` with 2 processes, 3 files, 2 descriptors each, an inode and a pipe; `Vm` with 2 processes and 12 pages, and exec with 7 to 16; `UserCopy` on 3 pages of 2 bytes; strings of 6 bytes; paths of 5 characters; images of 3 files; patterns of 4 characters and inputs of 6; command lines of 5 | every file, inode and end of a pipe is counted and given up once (`ObjectsExact`); every page is free or used once, failures change nothing; copies, names, image, grep and parser agree with their reference definitions on all such inputs |
| `liveness` | `Log` with a crash, 4 blocks, a log of `LOGSIZE = 4` blocks with its header, as `mkfs` makes it, and calls that write one of the two blocks they reserve; `Proc` with 1 CPU, `VirtioDisk` with 4 descriptors, `Uart` | sleepers of `begin_op` are woken, and an admitted call finds room (`NoPanic`); orphans are freed, unless init has panicked; callers of the disk driver get descriptors and return, output drains |
| `shell` | `ShRun` with pipelines and background jobs, `Umalloc` with a heap of 10 units, `Pipe`, `Clock` with ticks that wrap at 4, `Fs` with 2 processes and 4 calls between them | the shell prompts again, in pipelines and with background jobs, or init has panicked for want of a slot; it waited for its foreground jobs; the heap stays divided, sleeps are neither early nor late, no call waits for ever |
| `log_full`, `proc_kill_none`, `proc_kill_lost`, `fs_orphan` | | violations: see Findings |

**Bounds.**  *Log*: two overlapping calls and a third block suffice for
absorption, for a transaction of several blocks with part of it installed, and
for eviction of a block outside the transaction; the second crash can fall into
the recovery from the first.  In `liveness` the log gets as full as `begin_op` lets it,
with one block less than `LogNeverPanics` asks for.  *Proc*: three slots give init, a child and a
grandchild, hence orphans and the reuse of a slot; with `MaxPid = 3` fork is called
while `nextpid <= 3`, so both free slots are allocated; two CPUs give every race
between two kernel threads and between a thread and a scheduler.  *Pipe*: two
processes at each end, so that one can take what woke the other; `PIPESIZE = 2`
and `WIDTH = 4` wrap both the index and the counters; calls of up to two bytes
leave a call half done in a full pipe.  *Bcache*: two processes and two buffers
make each process find, miss, wait for and recycle; three blocks exceed the
buffers, which pins and calls that hold two buffers exhaust.  *VirtioDisk*: two calls leave too few descriptors for the third, which
sleeps; the indices wrap.  *Console*: the ring of two lets `^U` erase at most one
character before the line counts as complete.  *Clock*: with ticks that wrap at 4 a
sleep lasts at most one tick; `ClockProofs` has no such bound.  *Fs*: three inodes (the root and two), so that an inode
is reused for another kind of file; two processes make up to five calls between
them, enough for one to make, open, remove and make again what the other is using;
the table of inodes in memory has an entry for each, so that `iget: no inodes` is out of
reach.  *FileBlocks*: blocks of two units and
files that reach the indirect block; the disk fills up.  *FileTable*: three files for two processes with two
descriptors each, so that files and descriptors both run out, in a pipe between
the first file and the second; one inode and one pipe, so that what is given up is
taken again at once.  *Vm*: memory runs out at
every allocation of every call.  The inputs of the algorithms are all inputs up to
the given length, which exceeds each internal limit (a page, `DIRSIZ`, the buffer
of grep, `MAXARGS`).  *Umalloc*: a heap of 10 units; requests whose size in bytes does
not fit the `int` of `sbrk` (`umalloc.c:54`) are far beyond it.  *Mkfs*: `Fits` is a bound
of the model, an image never fills the disk.

Symmetry sets are used only in runs that check invariants and properties of single
steps, never liveness, and contain only values that no action or property tells
apart: processes, bytes and values, and in `log_atomic` blocks; not the blocks of
`Bcache`, of which one is the indirect block.

Deadlock is checked for the log and for processes.  It is not where the system may
rightly stop: descriptors are all closed, everybody waits for a partner who need
not come, a bounded number of calls is over, or an input has been dealt with.

**Fairness.**  *Log*: recovery and the steps of `end_op` go on (weak fairness);
nobody has to begin or to end a call.  *Proc*: the scheduler loop of a CPU runs on
(weak); timer interrupts keep coming (strong, as a process in user space may
leave it between two of them); a process that gets the CPU again and again
reaches its next step, and gets a spin-lock that is released again and again
(strong: `acquire` is a test-and-set loop, fair only statistically); init calls
`wait` while it has children, as `init.c` does until its fork fails.  *Devices*: the device completes what it has
fetched and interrupts; the handler and the processes inside the driver go on
(weak).  *Pipe*: strong fairness for a process in a call, as for spin-locks above;
nobody has to read, write or close.  *Shell, clock, directories*: every process
that can move does (weak), init waits and starts shells, the clock ticks; nobody
has to type a command.

## 4. The proofs

Every theorem holds for all values of the constants, under the named assumptions
of its module: `LogSets`, `LogSizes` (finite sets, a call reserves at most the
log, the disk log has a header and a block); `PipeSizes`, `PipeSets` (a pipe of at
least one byte, counters that wrap at a larger multiple of its size); `ProcSets`,
`ProcSizes` (no CPU is `None`, a table of at least one slot); `CacheSizes` (a buffer at
least, finitely many processes, no client asks for the block it has in hand); `RingSizes` (a ring of at
least three descriptors, indices that wrap at a larger multiple of its size);
`ClockSizes` (a counter of an even number of values, and a delay by the scheduler of
no more than the half of them which `n`, an `int`, leaves free); `FileTableSizes` (finitely many processes, a descriptor at least, no object
is the null pointer).

**`LogProofs`.**  The invariant is `LogInv`.  The properties alone are not
inductive: that the cache holds what was written depends on what the committer
has done so far.  `CommitInv` says it for each phase (the log blocks below `tail`
equal the cached blocks, then the header equals `lh`, then the home locations
below `tail` equal the log), `HeaderInv` that the on-disk header is empty but
between the two header writes, `BootInv` the same for recovery, `CallInv` that
`outstanding` counts the active calls.  One lemma per action shows that it is kept.
What those lemmas need to know of sizes of finite sets is their hypothesis
`Counting`, which `SetsCount` proves before the results: `LogTypes`, `CommitsAlone`, `CacheKeepsUpdates`, `SleepersAreWatched` and, for steps,
`HomeWritesAreLogged`.

`LogNeverPanics`: if `OpBlocks < MAXOPBLOCKS` and
`LOGSIZE - MAXOPBLOCKS + OpBlocks < NLOG - 1`, log.c does not panic.  The argument
counts reservations: an active call that has written k distinct blocks still
holds MAXOPBLOCKS - k of them, and entries plus reservations never exceed LOGSIZE
(`SpaceInv`).  With the constants of `param.h` and the log of `mkfs` the
assumption is that no call writes more than 8 distinct blocks.

`LogIsAtomic`: `Spec => AtomicSpec`.  Most steps stutter;
the write of the header is `Commit`; `InstallTrans`, `RecoverInstall` and torn
writes leave what recovery finds unchanged, since they touch only what the log
overwrites; `Crash` maps to `Crash`.

**`ProcSteps`, `ProcProofs`.**  The invariant is `ProcInv`.  What makes it hard is
that a lock changes hands with the thread: `p->lock` is taken by `sched`'s caller
and released by the scheduler, or the other way round, so that neither "the holder
is at such a label" nor "the slot is RUNNING" alone survives a step.  `CpusRight`
says what a CPU executes and on which side of a switch it is, `LocksRight` that the
lock of a slot is held exactly for a switch and `wait_lock` exactly by the process
inside `exit` or `wait`, `ThreadsRight` how the place of a thread and the state of
its slot go together, `ForksRight` that a slot being filled is nobody's child yet,
`InitRight` that init stays, in the loop of `panic` if it must, `KidsRight` that a child has a parent which will wait
for it, and `WakeupsRight` why that parent does not sleep through the child's exit:
it has seen no ZOMBIE, or the one that exits, or hands a ZOMBIE over to init, has
yet to call `wakeup` while it holds `wait_lock`.  `ProcSteps` has one lemma for each
step of the scheduler, of traps and of the first half of `exit`, `ProcProofs` those
of `fork`, of the rest of `exit`, of `wait`, `sleep` and `kill`, and the results:
`RunsOnOneCPU`, `FamiliesRight`, `LocksAreOrdered`, `ParentsFree`.

**`PipeProofs`.**  The invariant is `PipeInv`: who can hold the lock at which
label (`LockInv`), a process in a call keeps its end open (`OpenInv`), what a
reader knows before it copies (`CountInv`), and why anybody sleeps (`SleepInv`:
the pipe is full or empty, or the holder of the lock has yet to call `wakeup`).
It gives `PipeTypes`, `PipeOutlivesCalls`, `NobodyStuck` and, for steps,
`ZeroIsEof`.  `PipeIsFifo` (`Spec => FifoSpec`) rests on lemmas about the remainder
operator: since `PIPESIZE` divides `WIDTH`, the slots of the bytes between `nread`
and `nwrite` are distinct, wherever the counters wrap, so that `WriteByte` puts
one byte behind the queue (`PutsLast`) and `ReadByte` takes the first
(`GetsFirst`).

**`BcacheProofs`.**  The invariant is `CacheInv`: a count is the number of calls
that use the buffer, and one for a pin (`CountsRight`); a block is in one buffer
(`OneCopy`); the two buffers of a process are different
(`TwoBuffers`); the holder of a sleep-lock is the process inside (`LocksRight`); a
buffer that nobody has changed since, or nobody can change, equals its block on
the disk (`DataRight`).  The last is what makes recycling safe: a count of zero
means no pin and no owner, hence a clean buffer.  From it follow
`SleepersHaveHolder`, `PanicsOnlyWhenFull` (a count that is not zero is that of a pin
or of a call that has yet to release the buffer) and `CacheIsBlockStore`
(`Spec => CacheIsStore`: `Bread` is `Take`, `Change` is `Change`, `Releasesleep` is
`Give`, and all else, recycling included, is invisible).

**`VirtioProofs`.**  The invariant is `DiskInv`.  A request is a chain of three
descriptors that no other request and not the free list has (`BusyRight`,
`ChainsApart`); it is on the avail ring, with the device, or served, and never two
of these (`PostedRight`, `HeldRight`, `DoneRight`).  The ring indices wrap, so that
"between `used_idx` and `used->idx`" is not an interval of them: the invariant says
that there are numbers without wrapping which the indices are the remainders of,
and that the slots between them hold different requests.  Then a ring never
overflows: a ring of `NUM` slots holds different heads of chains, of which there
are fewer than `NUM`; and `b->disk` is cleared only for a request the device has
served, whose caller waits.  Results: `DiskSafe`, `DriverNoPanic`, and `DriverServes`
(`Spec => DiskServesCalls`: `Submit` is the call, `Complete` its transfer, `Finish` its
return, all else is invisible).

**`ClockProofs`.**  `SleepOnTime`: `(ticks - ticks0) % WIDTH` is how long the process
has slept wherever `ticks` wraps, because `n` is an `int` and the process runs again
before another half turn of the counter (`ClockInv`).

**`FileTableProofs`.**  `FilesCounted`: `ObjectsExact` always holds.  Counts alone are not
inductive: that `fileclose` finds a reference to take depends on where every call
stands.  `FileInv` adds which local variables are in use at which label (`Locals`),
that a child which `fork` fills belongs to one parent and does not run (`Forks`), and
what a descriptor may name (`Names`): a file without a type is named only while
`open` has still to set its fields, or while `exit` has still to clear the
descriptor, which is why no `dup` or `fork` can count it and no second close can
meet it.  The lemmas go from counting to steps: how a count changes when one
descriptor, one local variable or one file changes (`CardChange`, `HoldChange`,
`InodeChange`, ...), that a step which moves a reference from one holder to another
keeps the sum (`RefsBalance`), then one lemma per system call (`CloseSteps`,
`OpenSteps`, `PipeSteps`, `ExitSteps`, ...) with its actions as steps.  The last close is where two objects
balance at once: the entry's references end, and the inode or the end of the pipe
passes from the entry to the copy `ff` that gives it up.

**Only model-checked.**  All liveness: fairness and ENABLED are outside TLAPS.
The algorithms of `programs`, the contents of files in `FileBlocks` and the heap of
`Umalloc`: they are loops over data, and what a loop computes for every input needs
an induction that the installed provers cannot do; several of these modules also
use recursive operators.  `Fs`, `Vm` and `ShRun` keep in `code` what a call has still
to do, as a sequence that grows with the path or the size of the process; an
inductive invariant would speak of every suffix of it, which is again an induction
over data.  The refinements of `Console` and `Uart` and the invariant of `Trap` are
within reach of the method of `PipeProofs` and are checked, not proved.

## 5. Findings

* `log_full`: `param.h` gives the log LOGSIZE data blocks and a call MAXOPBLOCKS,
  but `mkfs` counts the header in, and `log_write` tests the capacity before it
  looks for absorption: three admitted calls that use their whole reservation
  panic.  Real calls write less; `LogNeverPanics` says how much less is enough.
* `proc_kill_none`: `kill` does not look at `p->state`.  `kill(0)` marks a free
  slot, and the next process in it is born killed.
* `proc_kill_lost`: a kill between the test of `killed` in `wait` and its sleep
  wakes nobody; the victim sleeps on until a child exits.
* `fs_orphan`: `iput` frees an inode and drops its reference in two steps; in
  between another process can allocate the inode and drop it for good without
  seeing its last reference, and it stays allocated with no link.

Seen while modelling, and left out of the properties where they say so:

* Entries made in a directory that another process has removed are lost with it,
  so that `LinksExact` is checked for one process (`sysfile.c:254`; `fs.h:36` calls
  `nlink` the number of links to the inode in the file system).
* A walk through `..` of a removed directory can reach an inode that was freed,
  and `ilock` panics (`fs.c:315`); `CallsEnd` counts that as an end.
* A write whose `either_copyin` fails inside a block leaves the buffer changed and
  not logged (`fs.c:522`; `bio.c:10` asks for `bwrite` after a change): until it is
  recycled the cache shows what the disk does not have.
* `sbrk(n)` below minus the size of the process changes nothing and reports
  success (`proc.c:271`).
* `argstr` returns the length without the NUL (`syscall.c:79`, against the comment
  at line 73).
* A writer killed after its first bytes returns without `wakeup(&pi->nread)`
  (`pipe.c:84`), so that a sleeping reader is not told of them while another writer
  keeps the end open; `NotStuck` excludes killed writers for this reason.

## 6. Not modelled

Of processes, the exit status and `procdump`.  Of pipes, descriptors added by
`fork` or `dup` while a call is in progress (`FileTable` has them, without the
bytes), and a process that uses both ends of one pipe.  Of files, the reference
of a working directory to its inode (`Fs` has it).  No eventual durability is
claimed for the log, and none holds: calls that keep overlapping postpone the
commit.  pids are bounded in the model; in the code they repeat after 2^31 forks.
The kernel's own page table and boot are straight-line code before the other CPUs
start; their outcome is the initial states.  `printf` formats; the dispatch of
system calls indexes a table; `swtch`, `entry` and the register saving of the trap
vectors appear by their effect.  The remaining user programs are one loop around a
system call; `ShRun` has programs that read, write and exit in their place.  Test
programs are not modelled.
