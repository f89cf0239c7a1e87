# Tnix in TLA+

Tnix is a small multi-core kernel for RISC-V in C (`kernel/`), with user
programs (`user/`) and a tool that builds the disk image (`mkfs/`). This
directory holds TLA+ models of its concurrent core, of its file system and of its
memory management, the TLC runs that check them on small instances and TLAPS
proofs for instances of any size.
`PROJECT.json` lists for every definition the lines it translates, and for every
run the properties it checks.

## The system

| part | state | operations | what is hard about it |
|---|---|---|---|
| spinlocks (`util/spinlock.c`, `task/cpu.h`) | `locked`, `cpu`; per CPU `spinlevel`, `raw_intr`, SIE | `spin_get`, `spin_put`, `push_intr`, `pop_intr` | interrupts between any two instructions, nesting |
| scheduler (`task/sche.c`, `trap/trap.c`) | `task_queue`: state, chan, lock, context; `cur_task` | `task_schedule`, `yield`, `sleep`, `wakeup`, `first_sched`, `asy_timer` | a lock taken by one flow is released by another; lost wakeups |
| sleep locks (`util/sleeplock.c`) | `locked`, `task` | `sleep_get`, `sleep_put` | waits without a covering spinlock |
| task life (`task/task.c`, `syscall/systask.c`) | slots, parents, child lists, id map | `fork`, `exec`, `exit`, `kill`, `wait` | exit against wait on another CPU, orphans, reuse of slots |
| disk driver (`dev/disk.c`) | descriptors, two rings, in-flight table | `virtio_disk_rw`, `virtio_disk_intr` | device runs concurrently, completes in any order, indices wrap |
| buffer cache (`fs/bio.c`) | buffers, reference counts, LRU list | `bread`, `bwrite`, `bzero`, `brelse` | two locks, taken one after the other with a gap |
| pipes (`fs/pipe.c`) | ring buffer, counters, reference count | `piperead`, `pipewrite`, `pipealloc`, `pipeclose` | partial writes, wrap-around, wakeups |
| inodes, bitmaps, files, directories (`fs/`, `syscall/sysfs.c`) | inode cache, bitmaps, block index, open files, descriptors | `iget`, `ialloc`, `balloc`, `fread`, `fwrite`, `dentry_*`, the system calls | allocation arithmetic, early returns, calls that stop half-way |
| image (`mkfs/mkfs.cc`) | the disk | `directory_copy`, `reg_meta_copy`, ... | has to agree with the kernel's layout |
| memory (`mem/`, `syscall/sysmem.c`) | free pages, slots, page tables, vmas, id map | `alloc_page`, `alloc_slot`, `do_vmmap`, `copy_pagetable`, `fork`, `exec`, `exit`, heap calls | aliasing, leaks, arithmetic |
| console, uart (`dev/`) | the line's ring, escape buffer, output buffer, transmitter | interrupt handler, `console_read`, `uart_write` | ring arithmetic, interrupt against reader and writer |

The parts stack: the scheduler uses spinlocks; sleep locks, wait and the pipe
use `sleep` and `wakeup`; the disk driver uses `sleep` with its spinlock; the
buffer cache uses sleep locks and the disk; the file system uses the cache.

## Modules

Each layer is modelled on the abstract view of the layer below, and the places
where that view is justified are properties of the lower module.

* **`Mutex`, `Spinlock`** — `Spinlock` has one action per instruction-level step
  of `spin_get` and `spin_put`, and an interrupt may be taken wherever SIE is
  set. `ImplementsMutex` says it implements `Mutex`, an atomic take and give;
  the modules above use that view.
* **`Sched`** — a flow of control is a task or a CPU's scheduler; `run[c]` is the
  flow CPU `c` executes and `context_switch` changes it. Every `spin_get` and
  `spin_put` is a step of its own. The kernel code that calls `sleep`, `wakeup`,
  `fork` and `exec` is open: it calls them in any order. `NoLostWakeup`
  justifies modelling `sleep(chan, &lock)` as one step in `Disk` and `Pipe`.
* **`Sleeplock`** extends `Sched` with tasks that take and release one sleep
  lock again and again, and may block while they have it. `missed` records the
  waiters that had found the lock taken and were not yet in `sleep` when it was
  released.
* **`TaskLife`** extends `Sched` with `sys_exit`, `kill`, `sys_wait`, and the
  lists of children. `ReapKilled` is the `kill` inside `sys_wait`, when
  `copy_to_user` has no page for the exit code: the child is off the list by then
  and keeps its slot. An operation on a list is one step. Two variables are
  history: `missed`, the parents that had looked at a child before it exited and
  were not yet asleep, and `trodden`, that a slot was handed out while a CPU still
  executed on its kernel stack. Two flows on one stack can do anything, so the
  model takes no step after that.
* **`Disk`** — threads in `virtio_disk_rw`, the handler, and the device, which
  is modelled from how the driver uses it. Its steps are as large as the device
  cannot look inside.
* **`BlockStore`, `BCache`** — `BCache` has one step per section of
  `bcache.lock`. The callers are open: they have several buffers at once, change
  them, and write them or not before they release them, as `dentry_del` does not
  (`dir.c:198`). `BlockStore` is the abstract specification: blocks, each used by
  one thread at a time, which finds what the last user left there. What was
  written stays; a change that was not written may be forgotten whenever nobody
  uses the block. The refinement mapping takes the disk as the contents, a valid
  buffer, or else the disk, as the view, and a thread between `bread` and `brelse`
  as using its block.
* **`Fifo`, `Pipe`** — one turn of a copy loop per step; the mapping reads the
  queue off the ring buffer between the counters.
* **`Console`** — the handler, readers and writers, a step being what happens
  under `con.lock` or `tx` without a wait. `line` is the reference: what the keys
  typed leave to be read. `clean_console` takes no lock; its writes are one step,
  and what they do under a reader's copy is the exception `race`.
* **`Halt`, `Inodes`, `Dirs`, `Files`, `SysFs`** — the file system, sequential.
  Its state is one record `k`; every C function is an operator from `k` to `k`
  with its result in `k.r`, and a system call is one action that composes them in
  the order of the code. `Halt` says how a `panic` ends a call: `Then(k, Rest)`
  goes on with `Rest` unless `k` has stopped, so what had been written before the
  panic is on the disk, and `Restart` goes on from there with an empty memory.
  `k.disk` is what the data blocks hold on the disk and `k.data` what a read of
  them finds: they differ for a block that was changed and not written, until it
  is written, the machine restarts, or `Evict` recycles its buffer. A
  use that the code is not written for, or after which it goes wrong, is recorded
  in `odd`; a property that the use breaks names it. `text` is the reference for
  file contents.
* **`Mkfs`** — `mkfs.cc` as operators from a tree of files to a disk, which is
  the disk the file system's runs start from.
* **`Pages`, `Vm`, `TaskMem`** — pages, slots and page tables in the same style;
  `TaskMem` has boot, `first_sched`, `fork`, `exec`, `exit`, `kill`, `wait` and the
  heap calls, with the numbers of tasks. A `kill` happens in the copies of any
  call, and in `wait` after the child left the list. A program is a list of
  segments as `user/user.ld` lays them out, each of one page at most and starting
  on a page: `load_segment` checks neither `vaddr` nor `filesz`, and other programs
  are not considered. Addresses are numbers of pages, so the panic of `do_vmmap` for
  addresses that are not aligned cannot occur. `Translate` is the MMU, which the
  properties compare with the kernel's own walk.
* **`MC*`** instantiate the modules for TLC.

Definitions introduced by a comment that begins with "Slip" are plausible
programming errors in the action they stand next to. No specification uses
them; each is known to violate one of the properties.

## Runs

| run | bounds | shows |
|---|---|---|
| `spinlock` | 2 CPUs, 2 locks | masking, no panic, refinement of `Mutex` |
| `sched` | 2 CPUs, 3 slots, 2 locks, 2 channels | one CPU per task, reliable states, no lost wakeup, switches in critical sections |
| `sleeplock` | 2 CPUs, 3 tasks, fair | one holder, no panic, a free lock that is asked for is taken |
| `sleeplock_lost` | 2 CPUs | **violated**: a wakeup is lost |
| `tasklife` | 2 CPUs, 3 slots, fair | exits announced, child lists right, `sys_wait` returns |
| `tasklife_reuse` | 2 CPUs, 2 slots | **violated**: a slot is freed under a running task |
| `tasklife_orphan` | 1 CPU, 4 slots | **violated**: a zombie orphan is not announced to init |
| `disk` | 2 threads, 2 buffers, 7 descriptors, indices mod 14 | rings, descriptors and data consistent |
| `disk_live` | 3 threads, 4 descriptors, indices mod 8, fair | nobody sleeps on free descriptors, requests return |
| `bcache` | 3 threads, 2 buffers, 3 blocks | buffers right, no panic but for want of buffers, refines `BlockStore` |
| `streams` | pipe: 2 readers, 2 writers, 2 bytes, counters mod 4; console: 3 bytes of ring, 2 readers, 2 writers, up to 4 keys | bounded queue, justified sleepers; the line as edited, readers woken, output in order |
| `calls` | files: 7 workloads of up to 5 calls, 2 tasks; memory: 3 mixes of up to 7 calls, 4 tasks, 56 pages | see below |

The run `calls` is about sequences of system calls. A workload is a set of calls,
their arguments and an image: names (open, link, unlink, mkdir, rmdir, chdir),
bytes (reads, writes, seeks), descriptors (dup, fork, exit, pipe), devices, long
files with index blocks, wide directories of several blocks, and trees that
mkfs lays out without running a call. Restarts happen between calls, also after a
panic. The memory mixes are tasks (fork, exit, kill, wait), heap (alloc, free,
exec) and heirs (exec and alloc before fork and exit). It shows

* `ImageComplete`: the kernel finds every file that mkfs wrote;
* `BlocksAccounted`, `NamesLive`, `RefsHeld`, `FilesCounted`, `CacheIsDisk`,
  `TextRight`: bitmaps against indices, directories against inodes, reference
  counts against holders, descriptors against files, cache against disk, bytes
  against what was written;
* `PagesPartitioned`, `AddressSpaces`, `SlotsCounted`, `TidsDistinct`: no page is
  lost or in two places, no task reaches a page that is not its own, slots and
  numbers are counted.

Why the bounds are enough to be interesting: two CPUs and three slots give a
task that runs, one that sleeps and one that is being created or woken. Seven
descriptors hold two requests, so completions overtake each other; with four
descriptors two of three threads wait, and one descriptor is left over.
More threads than buffers make the cache recycle and run out. Writes longer than
the pipe block half-way. All index widths are a small multiple of the ring size,
so they wrap. A file system with two direct blocks of four bytes, two index
blocks of two entries, three names per directory block and bitmap sections of
eight bits reaches every boundary of the code (direct to index block, block to
block of a directory, section to section) with files of a dozen bytes. Tables
are small as well: three descriptors per task, seven open files, one pipe whose
`i8` has five values, so that its count wraps to 0, four entries of the inode
cache, twelve blocks, and words of the id map that fill up.
`MCDisk` and `MCStreams` use a view that leaves out bytes and ring
entries nobody reads any more; symmetry is used only in runs without liveness.

### Disagreements found

* `sleep_get` waits with `sleep(lock, NULL)`. The comment at `sche.c:66` explains
  that the lock argument prevents lost wakeups; on two CPUs one is lost. The
  run `sleeplock` shows that this gap is the only way: but for the waiters in
  `missed`, a free lock that is asked for is taken. Which task takes it is not
  promised: `sleep_put` hands the lock to nobody, and a task may retake it each
  time before the woken waiter runs.
* `sys_wait` waits the same way, with `sleep(&t->childs, NULL)`. `NoLostExit` and
  `WaitReturns` leave out the parents in `missed`, and without that they fail on
  two CPUs.
* `sys_exit` and `kill` write `EXIT` before they take `t->lock`, against
  `doc.md:179` and `:184`: the parent may free the slot while the child still
  executes on its kernel stack.
* `sys_exit` hands orphans to init (`systask.c:44`) without a wakeup: one that had
  already exited waits until something else wakes init. The trace has tasks
  0, 1, 2 and 3, each the parent of the next: 3 exits while 2 is ready, then 2
  exits, hands 3 to init, which sleeps, and wakes 1. `OrphansReachInit` does not
  look while a task is still handing over its children.
* `kill` hands nobody's children to init, and one inside `sys_wait` also leaves the
  child that was found: `Family` leaves out these tasks (`abandoned`), which keep
  their slots for ever.

The properties of `calls` and `streams` hold with exceptions that they name, and
each exception is a place where the code does not do what its caller expects:

* `fwrite` asks `data_block_alloc` for a block while the last one is not full,
  which the comment at `inode.c:251` says the kernel should not do, and adds what
  it overwrites to the size (`partial`, `long`, `overwrite`);
* past the direct blocks `blockno_of_data` divides a byte offset by the entries of
  an index block, which is right at the start of the first block there and at no
  later one (`Reach`);
* `ialloc` and the id map compute a number with the bytes of a word for its bits
  (`misnumbered`, `tid`);
* `path_split` of `/x` gives an empty parent, which is the working directory
  (`stray`); a file may be taken for a directory (`notdir`);
* `sys_pipe` installs the reading end twice (`pipe`); a full descriptor table
  leaves `fdx` on a used one (`full`);
* the count of a pipe is an `i8`, said to be 0 to 4 (`pipe.h:10`), and counts open
  files: pipe, dup and fork make five. When it has wrapped to 0 the pipe is handed
  out again under its users (`wrapped`);
* `unlink` and truncation do not look for other users (`freed`, `shrunk`);
* `idx_remove` clears the index blocks it shifts (`shifted`);
* an `exec` with an option moves `ustack` for good (`options`);
* `mkfs` counts one header for all blocks of a directory (`Fits`, `dropped`);
* in the console, a short read near the end of the ring and a long escape
  sequence overrun (`wild`), an erase across the ring's start takes the end of a
  line (`edge`), `clean_console` takes no lock (`race`), and `uart_write`'s buffer
  is shared by calls that sleep (`shared`).

### Fairness

* A CPU that can take a step again and again takes one (strong fairness per CPU in
  `Sleeplock` and `TaskLife`): besides going on executing, a CPU that spins for a
  lock gets it when it is released over and over. `amoswap` does not guarantee
  the latter; it is assumed.
* The timer goes off again and again in user mode: `asy_timer` rearms it. The
  fairness is strong, since a task may keep entering the kernel.
* Interrupts leave the scheduler time to scan the queue (strong fairness of
  `Window`): the handler is shorter than the timer's period.
* The device serves what it was given, and a CPU that spins for `vdisk_lock`
  gets it when it is released over and over, as above.

## Proofs

For every value of the constants, under the named assumptions of the modules:

* **`SpinlockProofs`** — type, exclusion, masking, panic freedom, the nesting
  count, and the refinement of `Mutex`. The inductive invariant adds that a lock
  is marked exactly while a flow holds it, that `lock->cpu` names the holder
  except in two windows, and that a flow is interrupted only where it holds no
  lock. Masking needs the count, and exclusion within a CPU needs masking.
* **`SchedProofs`** — type, one CPU per task, reliable states,
  complete wakeups, panic freedom, and switches in critical sections. The
  invariant says who holds a task's lock as a function of where each CPU is
  (`TaskLocks`), which is what allows a lock to be handed over by a context
  switch; `Swept` states `NoLostWakeup` at every turn of the loop. There is a
  lemma per action; `Local` is what the invariant says of one CPU. The module
  also has the sleep lock's: exclusion and panic freedom on any number of
  CPUs. That invariant (`SInv`) follows `lock->task`
  through its two windows and says that a holder off the CPU is in `yield`. It
  needs of the scheduler only that its own flow never enters the lock's code.
* **`TaskProofs`** — `Family`, for any number of CPUs and slots. The invariant
  (`TInv`) has three parts: the types, the lists (`Tree`), and, until a stack is
  trodden on, where each flow is (`Ctl`). In `Tree` the lists and the parent
  pointers agree, an entry is in use, and the entries of a task that has ended are
  exactly abandoned ones: hence a slot that `alloc_task` hands out is on no list.
  `Ctl` is needed because another CPU may free the slot of a task that has not
  left its stack: a task is executed only if its state is `RUN` or if it is on its
  way from `EXIT` to the last switch (`Dying`), and then its state may have gone on
  to `FREE` and `INIT`. So whoever hands over children, looks for one or forks is
  in use itself.
* **`BCacheProofs`** — type, one buffer per block, reference counts, the right
  buffer, panic freedom, and the refinement of `BlockStore`, for callers that hold
  any buffers and write them or not. The invariant adds who owns a buffer's lock
  and that a buffer that is not valid, once filled and until `valid` is set, holds
  what the disk does.
* **`Rings`** — arithmetic of counters that run modulo a multiple of a ring's
  size: how far they are apart, where an entry is, what one more step does to
  both. The disk, the pipe and the console rest on it.
* **`DiskProofs`, `DiskRings`** — descriptors are never lost or shared (`IInv`: a
  request's three descriptors are linked in their order once they are filled, so
  that `free_chain` visits just them). Then the rings, in a second invariant
  (`RInv`) on top: the unread part of the avail ring, what the device has in
  flight and the unread part of the used ring hold different heads (`Staged`),
  each that of a thread that waits with its chain filled (`Pending`), and what
  lies in the used ring has been transferred (`Moved`). As heads are descriptors,
  no window is ever longer than the ring (`Pigeons`), so an index never runs over
  an unread entry, though it wraps at 2^16. From it follow `DeviceSeesLive`, `Transferred`, `RingsHold`, `NoPanic` and
  `NoSleeperOnFreeDescriptors`. `DiskProofs` has the steps that only need the
  windows, `DiskRings` those that count.
* **`StreamProofs`** — of the pipe, that sleeping readers and writers are
  justified and that it implements `Fifo`. The invariant bounds the distance of
  the counters, which wrap at a multiple of the ring's size: the sizes the code
  computes modulo 2^32 are those of the ring, a read finds the oldest bytes, and a
  write fits behind the newest one without touching the others. Of the console,
  `OutputIntact` (`OutInv`: how much of its text a writer has sent follows from the
  lengths in its call, and the piece it is sending is in the buffer while it holds
  `tx`), `ReadersWoken` (`WakeInv`: a handler that has stored the end of a line has
  the wakeup still before it) and `LineKept` (`LineInv`: byte by byte, the ring
  from `r` on is the line, and what a reader has copied is the front of it).

The assumptions on the constants are those the code gives: sizes are positive,
the ring indices and the pipe's counters wrap at a larger multiple of the ring's
size (2^16 and 2^32 against powers of two), NULL and the names of the handler and
of nobody are no thread or buffer. `AskAssumption` leaves out reads of no bytes,
which return nothing.

Only model-checked: liveness (the provers do not reach fairness and `ENABLED`),
`NoLostExit`, the file system and memory. The last two are folds over data from
system call to system call; what they compute for every input needs induction
over data, which is out of the provers' reach.

## Not modelled

* boot code and assembly: their result is the initial state. The dispatch table
  of system calls is a look-up.
* the bytes of ELF headers, the formatting of output, string helpers, `sys_ls` and
  the dumps of tasks and page tables, which only print; `sys_sleep`, which
  calls `sleep(&tstub, NULL)` until a tick is reached, as the open caller of `Sched`
  may; `vmunmap`, which nothing calls.
* interleavings inside a file system call: `SysFs` makes a call one step. `iget`
  gives up its lock before it reads the inode and `iexist` reads a buffer it has
  released; both need two calls at once to go wrong and are listed as hazards.
  Likewise the pages of an exiting task are given back before its last switch,
  and the child lists have no lock: two CPUs that link and unlink in init's list
  at once race on its pointers.
* a copy to or from a bad user address with a lock held: `Vm` has the check,
  `TaskMem` and `TaskLife` the `kill` of the calls without a lock; `Pipe` and
  `Console` copy to valid addresses.
* `push_intr` reads SIE before it masks; a handler in between restores SIE, so the
  value is still right. Memory ordering is sequentially consistent in the
  models; the code has fences at the lock operations and the ring updates.
* user programs: only that init waits in an endless loop is used.
