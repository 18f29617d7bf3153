# A TLA+ model of FuriOS

FuriOS is a Unix-like kernel for AArch64 with its own user space, written in C
(`src/kernel`, `src/user`, `src/include`). This directory holds TLA+ modules that
model its parts, the TLC configurations that check them on small instances, and
proofs that TLAPS checks for every instance. `PROJECT.json` ties every definition
to the source lines it stands for and lists the runs, the mutants that show each
property can fail, the hazards and the findings.

Contents: [the system](#1-the-system) · [modules and code](#2-modules-and-code) ·
[runs](#3-runs) · [bounds](#4-bounds) · [fairness](#5-fairness) ·
[proofs](#6-proofs) · [findings](#7-findings) ·
[what is not modelled](#8-what-is-not-modelled)

## 1. The system

One processor runs the kernel at EL1 with interrupts masked and programs at EL0.
A system call, a fault or an interrupt is therefore atomic with respect to the
others, and the concurrency that remains is the order of traps: which task runs
next, when the timer fires, when a device answers. A call that cannot finish
returns -2 with its task `WAITING`; the wrapper in `user/lib/syscall.c` issues it
again when the task runs. The kernel never resumes a half-done call.

| Part | State | Operations | What is hard |
|---|---|---|---|
| Page allocator `pmm.c` | bump cursor, free list, `page_refs`, counts | alloc, alloc page, ref, free | pages in use on the free list, wrong counts |
| Address spaces `task.c`, `mmu.c` | page tables, page lists, areas, ASIDs, TLB | fault, copy-on-write, fork, mmap, mprotect, munmap, exec, reap | stale translations, ASID reuse, two records of one mapping |
| Tasks `task.c`, `trap.c`, `timer.c` | task table, current task | fork, exit, wait, sleep, schedule, timer | orphans, lost wake-ups, starvation |
| Signals `task.c` | pending mask and queue, blocked mask, dispositions, saved frame | kill, sigaction, sigprocmask, sigreturn, delivery | stop against continue, lost SIGCHLD, nested handlers |
| Descriptors and pipes `pipe.c`, `syscall.c` | ring, end counts, descriptor tables | pipe, dup2, read, write, close, poll | lost wake-ups, end of file too early or never |
| Page cache `pagecache.c` | entries with dirty bit, pins, age | load, evict, write fault, write-back, fsync, msync | lost updates, failing stores, eviction of mapped pages |
| Block cache `block_cache.c` | lines with dirty bit and age, active device | read, write, flush, attach | failing reads and flushes, change of device |
| ext4 and its journal `ext4.c` | metadata, log ring, pending transactions | begin, write, revoke, commit, checkpoint, replay | a crash between any two writes, a full ring |
| VFS `fs.c` | inode table, mount table, memory files | lookup, create, link, rename, unlink, mount | rename over a tree, growth of memory files |
| Network `net.c` | sockets, accept queues, ARP table, routes | connect, listen, accept, send, receive, tick | loss, duplication, TIME_WAIT, zero window |
| Drivers `virtio_blk.c`, `ahci.c`, `nvme.c`, `rtl81*.c`, `uart.c` | queues shared with the device | submit, poll, reset, interrupt | time-outs against late answers, full rings |
| User space `user/` | libc, dynamic linker, shell, tools | retry loops, relocation, pipelines | mostly sequential |

How they meet: tasks own descriptors, and descriptors own pipe ends; tasks own
mappings, and mappings own frames of the allocator; shared mappings pin pages of
the page cache, which writes through ext4, whose journal writes through the block
cache to a driver. Descriptors also own inodes of the VFS, which lie on ext4 or in
memory, and sockets, which outlive them while a connection closes.

The hazards list in `PROJECT.json` names, at the line where each bites, what can
go wrong in these parts that a test would hardly reach.

## 2. Modules and code

Operators keep the names of the C functions they model where there is one
function to name. Modules ending in `Ops` hold pure functions on a record (the
kernel's static variables or one structure); the state machines apply them. In the
file modules a step that can fail returns `[ok, x]`, and `Then` goes on after a success.

| Module | Models | State | Notes |
|---|---|---|---|
| `PmmOps`, `Pmm` | `pmm.c` | allocator record; `held`, the callers' references | objects may straddle pages; a caller frees only what it holds |
| `ForkMemory` | the memory side of fork, exec, fault, reap | allocator, pages owned by each task | composes `PmmOps` with the admission checks of `task.c` and the image buffers of `syscall.c` |
| `PipeOps`, `PipeRing` | `pipe.c` | one `pipe_t` | reads and writes of any length, release and reuse |
| `PipeFifo` | what a pipe promises | a queue and two end counts | abstract; `PipeRing` implements it |
| `PipeTasks` | descriptors and blocking pipe calls | descriptor tables, pipes, each task's call | fork, dup2, close, exit, signals, retry, buffers whose copy fails |
| `SignalOps`, `ProcOps`, `Process` | tasks, scheduler, signals | task table, current task, program counter of the kernel's loops | group kill, delivery and the idle loop are several steps, everything else is one |
| `Vm` | private user memory | page tables, page lists, frames, ASIDs, TLB | the TLB may load any entry of the running task at any time and drop any entry |
| `PrivateMemory` | what private memory promises | each task's own pages | abstract; `Vm` implements it |
| `PageCache` | page cache and shared file mappings | entries, mappings, the file on the device | every store to the device may fail |
| `BlockCacheOps` | `block_cache.c` | lines by age, what the device has been told, what its platter holds | each command may fail, do its work and fail, or be the last before the power goes |
| `Jbd2Ops` | the JBD2 journal of `ext4.c` | ring head and tail, open transaction, committed ones not yet at home | reservation, revokes, checkpoints by pressure, batch, age and sync, replay in three passes |
| `JlogOps` | the redo log behind a volume without JBD2 | header, records | applied in place at commit |
| `Journal` | transactions over either, mount, sync, timer, loss of power | the machine of the three modules above; the image committed, and the images a mount may find | composes them |
| `Ext4Ops` | bitmaps, counts, block maps of `ext4.c` | the volume `d` | pointer blocks three deep, extent trees |
| `Ext4Files` | directories, inode cache, file operations of `ext4.c` | volume, cached inodes, counts in memory | one record `x` with the VFS |
| `VfsOps` | `fs.c`: paths, memory files, mount point, transactions around each call | `x` | symbolic links, limits of memory files, dirty pages between write and volume |
| `FsckOps` | `fs_mkfs_ext4`, `fs_fsck_ext4` | the volume | scan, verdict and repairs, buffer reuse included |
| `Files` | the calls on paths and descriptors, mount, unmount, mkfs, fsck | `x`, descriptors, what was written | composes the four above |
| `TcpOps` | TCP, UDP and sockets of `net.c` | socket tables, the wire, interfaces, hardware addresses known | a packet to oneself is handled inside the send, as in the code; a send waits for an unknown address and does the network's work meanwhile |
| `Net` | socket calls, the network, timers | `TcpOps`' record, descriptors | packets are lost, repeated, reordered; an interface goes down, a device takes no frame for a while, addresses are forgotten |

`MC*` modules give TLC the small sets it enumerates and the symmetry sets. `PmmProofs`,
`PipeProofs`, `PipeTasksProofs`, `VmLemmas` with `VmProofs`, `PageCacheProofs` and
`ProcessProofs` hold the theorems about the module in their name, and `LoopLemmas` what
they need about loops (section 6).

Abstractions worth knowing:

- Data is reduced to what the properties tell apart: bytes of a pipe are values of
  a small set, a page holds one value, SIGTERM stands for the signals with the
  same default action, addresses are counted in the smallest alignment used.
- A copy to or from user memory is a success or a failure chosen by the caller.
- `PipeTasks` leaves open which runnable task runs; `Process` models the
  scheduler. `Vm` leaves the cost of tables and stacks to `ForkMemory`.
- A bounded loop of the code whose passes build on each other is a recursive function over
  the passes done (`Without` in `SignalOps`, `RefAll` and `CloseAll` in `PipeTasks`, `Keep`
  in `PageCache`), so that it can be reasoned about. A task's ranges may map the pages of a
  file at any addresses, so `PageCache` lets exit come to them in any order (`Orders`).
- What programs ask of `Process` is a repertoire of calls with their arguments, chosen
  at the start and held in `calls`; within it any task makes any call at any time.
- `Journal` works on two blocks of two halves; its transactions write and free them. `Files`
  takes a transaction as atomic (what `Journal` shows) and a commit may be refused.
- In `Files` a write makes dirty pages (`x.pc`, one page to a block), which close, truncate,
  unmount and the timer store, each page in a transaction of its own, and unlink drops. The
  cache has room for all of them and its clean pages are what the volume has; slots, eviction and
  mappings are `PageCache`'s. The mount point is fixed, one task works with absolute paths, and
  the volume has a journal; one made with checksums (`sb.csum`) is mounted read-only. After
  an abort that left memory ahead of the volume (the hazard at `ext4.c:1918`) no further file operation is taken.
- In `Net` an address is a host, each host asks for and answers hardware addresses while its
  device takes frames, one packet or time-out may come up in such a wait, a byte of a
  stream is its position, time-outs may fire whenever there is something to do, initial sequence numbers are far apart, and programs
  bind before they connect. A call that would block is made again later; of the network
  work that calls do first only that of a blocking read matters and is modelled. A segment of
  ours under way to a host whose address is not to be had falls due within the two seconds of
  the wait (in the code, one sent again twice already may not).
- In `Vm` a freed frame is normalised to zero contents: every path that hands a
  frame to a task clears or overwrites it first.

## 3. Runs

Deadlock is checked except where the system may really stop: in `pmm` (memory is
handed out and the callers may hold on to it), in the pipe runs (all tasks may exit)
and in `journal`, `files` and `net`, where the programs have made all their calls.

| Run | Checks | Shows |
|---|---|---|
| `pmm` | `RefsAreHolds` `AvailableExact` | the allocator's counts are the callers' references, and what it calls available can be had |
| `fork_memory` | `RefsMatchOwners` `AdmittedCompletes` | on a nearly full memory nothing leaks, no stack is shared, and an admitted fork or exec does not run out of pages half-way |
| `pipe_ring` | `ImplementsFifo` | the ring implements a bounded queue |
| `pipe_tasks` | `CountsAreDescriptors` `NoLostWakeup` `HangupSeen` | end counts are the descriptors, across slots released and used again; a blocked call whose condition holds has been woken, and poll agrees; once the last writer is gone nobody reads anything new, and whoever is in a call gets an answer |
| `process` | `ChildHasLiveParent` `WaiterNotStuck` `PendingSound` `SigchldKept` `SavedFrameKept` | four repertoires of calls in any order, the death of init included: lifecycle with auto-reaping, job control by pid and by group, handlers of every kind with masks and exec, interrupted sleeps |
| `proc_fair` | `RunnableRuns` `SleepsRight` `OrphansReaped` `FatalSignalActs` | liveness under the fairness of section 5; a sleep ends, and ends with its ticks over, with a signal and EINTR, or in a stop |
| `vm` | `RecordsAgree` `TlbCoherent` `IsolatedMemory` | copy-on-write, mprotect both ways and ASID rollover under a caching TLB implement memory that fork copies, with copies that fail for want of a frame |
| `page_cache` | `SyncIsDurable` `OnlyWritesChange` `UntrackedOnlyAtCritical` | three pages over two slots, two tasks, failing stores, the critical mark reached: eviction is invisible; fsync is durable for every page but those that are clean and writable at once; and only a write fault at the critical mark makes such a page |
| `journal` | `CacheCoherent` `ReadsSeeCommitted` `CrashAtomic` `CommitHasRoom` | power lost twice, or a command failing, at any device command: the mount succeeds unless the log holds a block the replay refuses, and then every transaction is there whole or not at all, and none whose commit returned is missing; the running system reads what was committed; the ring always has room for a commit |
| `files` | `BlocksOwnedOnce` `TreeSound` `CountsExact` `ContentsAsWritten` `CacheAgrees` `DescriptorKeepsFile` `ComplaintsExplained` | any three calls on top of seven prepared volumes, one commit refused: no block lost or shared, both trees sound, counts exact, contents as written unless an unlink dropped them, caches and descriptors true; and fsck complains of a volume the kernel wrote exactly when its free counts are off or it has one of the things fsck misjudges |
| `net` | `StreamIntact` `EndsAgree` `SocketsHeld` `OneEndEach` `PollTellsTruth` `CloseEnds` | eight situations with up to four more calls and one fault of the network, an interface, a device or the address table: what is read is what was written, in order and once; sender and receiver agree on what is under way; sockets, queues and descriptors match; poll and the calls agree, and a closed connection comes to its end, up to the exceptions below |
| `fsck_repair` | `RepairFixesCounters` | a violation, section 7 |

`TypeOK` of `ForkMemory`, `PipeTasks`, `Process`, `Vm` and `PageCache` is checked as a
conjunct of `RefsMatchOwners`, `NoLostWakeup`, `ChildHasLiveParent`, `RecordsAgree` and
`UntrackedOnlyAtCritical`, and `HangupIsFinal` as one of `HangupSeen`; those of `Pmm` and
`PipeRing`, with `FreeListSound`, `BelowBump`, `OwnedExact`, `FreshOwnership` and `RingConsistent`, are proved (section 6).

Some properties state their exceptions, which are what the code does and are listed as
hazards:

- `StreamIntact`: an end of file that a blocking read reports while bytes are in the buffer.
- `SocketsHeld`: a slot freed by TIME_WAIT under an open descriptor.
- `EndsAgree`: in SYN_RECV less is claimed, since an answer to a SYN that could not be sent is
  forgotten (`net.c:1595`) and its connection stays in the listener's queue.
- `PollTellsTruth`: calls that fail or return at once and that poll does not announce. These are
  reads after SHUT_RD, which return 0 (`net.c:2880`, against `net.c:3034`), and writes that
  fail, with EPIPE after SHUT_WR, on a stream that is not open, or after its error was
  collected. A send that asks for a hardware address waits for it.
- `CloseEnds`: the slot of a closed connection stays for ever in FIN_WAIT2, which has no
  time-out; after a deferred FIN that could not be sent when its turn came (`net.c:1534`);
  while the interface is down or the device takes no frame, because a failed retransmission
  is not counted (`net.c:1826`); and on a host that hangs (section 7).
- `TreeSound`: a second record of a name after the inode cache was full.
- `CountsExact`, `CacheAgrees`: counts after an abort.
- `ContentsAsWritten`: a file whose dirty pages an unlink of one of its names dropped.
- `ComplaintsExplained`: `Misjudged` lists what fsck complains of on a sound volume.
- `SyncIsDurable`: pages that are clean and writable (`Untracked`).
- `CrashAtomic`: the two flushes that cover blocks which need an order, and logs that the
  replay refuses although a commit wrote them (`Refusable`), of which it claims no success.
- `SleepsRight`: a sleeper that is stopped; `SigchldKept`: exec, and a wait that names no child
  (`WaitForNoChild`).

`NoLostWakeup` is checked with buffers that can be copied. Section 7 has the configurations
that show what happens in the other cases.

## 4. Bounds

| Run | Instance | Why it is enough |
|---|---|---|
| `pmm` | 6 pages of 2 units, heap of 4, at most 3 references | an object can end in the middle of a page, references to a page go one at a time, the bump region can run out while the free list is not empty |
| `fork_memory` | 11 pages, 3 tasks, stacks of 2 pages, 1 table page, reserve 1 | room for two tasks and not quite for three, so that each admission check is met from both sides |
| `pipe_ring` | 3 bytes, 2 ends of each kind, lengths up to 4 | reads and writes that are short, exact and wrap |
| `pipe_tasks` | 3 tasks, one slot of 1 byte, 2 descriptors, lengths 1 and 3 | a reader, a writer and a third party holding an end; full, empty, partial transfers; the slot used again |
| `process` | 3 slots, up to 3 pids after init, the repertoires of `MCProcess` | parent, child and grandchild; a slot reused under a new pid; stop, continue and handlers meet in every order |
| `proc_fair` | 3 slots, up to 3 pids after init | a task that is never chosen, an orphan and a sleeper at once |
| `vm` | 3 tasks, 1 page, 2 frames, 2 ASIDs | a shared frame, a private one and none left; fork and the scheduler run out of identifiers while other tasks hold old ones |
| `page_cache` | 3 pages, 2 slots, 2 tasks, both marks at 2 dirty pages | a page must be evicted; both slots dirty, which is the critical mark; two mappings of one page. The smaller write-back between the marks is covered by the proofs of section 6 and not by this instance |
| `journal` | 2 blocks of 2 halves, 3 cache lines, a journal of 9 blocks starting near its end, transactions of up to 2 blocks and 1 revoke, up to 3 of them (2 with checksums, 1 in a journal without the REVOKE feature), 2 losses of power or 1 failed command; a transaction begins while the transactions and the faults before it are fewer than 3 (`MaxWork`) | lines are replaced inside a transaction; the ring wraps and fills; a block is freed, revoked and used again; power goes during the replay of a loss |
| `files` | 2 groups of 10 blocks and 4 inodes, 2 bytes to a block, 1 direct pointer and 2 to a pointer block, directory blocks of 13 units with lengths that wrap at 6, 3 cached inodes, 4 memory nodes, 2 descriptors | the seven starts of `MCFiles` hold files with pointer blocks of every depth, a two-level extent tree, links, a full cache and volume, symbolic links, and counts gone off; three calls more reach each error path |
| `net` | 2 hosts of 3 sockets, 2 descriptors, buffers and segments of 2 bytes, 1 retry, 2 packets on the wire, sequence numbers modulo 64 | a listener, its child and another connection; short writes, a full buffer, wrapped numbers; two packets suffice to reorder, and one fault to lose what the other end waits for, to make a send fail in the middle of a handler, or to have an address asked for again |

`pids`, `MaxRefs`, `MaxEnds`, `MaxFilePages`, `MaxTx`, `MaxWork`, `MaxOps`, `MaxCrash`, `MaxFail`, `MaxRefuse`,
`MaxPut`, `MaxWire` and `left` cap what the code does not; they are conjuncts of the guards
(a packet beyond `MaxWire` is lost, as one beyond the receive queue is; `n.ring` holds at most
one event to happen inside a wait). The
starts of `files` and `net` are made by the modelled operations themselves, from a freshly
booted system. Symmetry is used for tasks and for pages in `PageCache` (nothing depends on
the order of the pages, `Orders` included), for frames and for the tasks
other than the first in `Vm` and for blocks in `Journal`, in runs of safety properties only.

## 5. Fairness

`Process!FairSpec` assumes that the kernel leaves its loops (group kill, delivery)
because they are bounded loops run with interrupts masked; that the idle loop sees
the clock advance while some task sleeps, because it polls the hardware counter; and
that the timer interrupts user mode again and again, because `timer.c` re-arms it in
every interrupt. Nothing is assumed of programs: a task may compute forever, never
wait for its children, or never unblock a signal.

`PipeTasks!FairSpec` assumes that a runnable task that still has its call to repeat
is run again. `proc_fair` shows of the scheduler that runnable tasks run.

`Net!FairSpec` assumes that each socket for which the timer has something to do is visited:
`net_tick` runs on every timer interrupt and walks the whole table. A send that needs an
interface or a device which is not there is not counted as something to do (`Due`): the code
tries it again without effect. Nothing is assumed of
programs or of the network, which may deliver nothing at all.

The last two, and parts of the first, are written with the enabling condition spelled out
in place of `WF` and `SF`, which TLC would evaluate at great cost.

## 6. Proofs

The theorems hold for every value of the constants that meets the named assumptions. Each
assumption is in the module that declares the constants, and TLC evaluates it in the runs.

| Assumption | Says |
|---|---|
| `PmmAssumption`, `RequestAssumption` | sizes are positive, the heap lies within RAM |
| `PipeAssumption`, `CallAssumption` | a pipe holds at least one byte, lengths are numbers |
| `TasksAssumption` | finitely many tasks; pipes are numbered from 1; chunks and lengths are positive |
| `VmAssumption` | finitely many tasks and pages; "unmapped" is neither a value nor a frame; at least two identifiers |
| `CacheAssumption` | finitely many pages; marks are positive; one write-back call does fewer pages than the high-water mark (`MaxBudget < HighWater`: 16 against three quarters of the slots in `pagecache.c`) |
| `SlotsAssumption`, `RepertoireAssumption` | at least one slot; the arguments of calls have the types of the system calls |

**`PmmProofs`** (allocator)

- `AllocatorSound`: `page_refs` equals the references callers hold, the free list
  holds unreferenced pages and each once, everything handed out lies below the
  bump cursor, and `owned_pages` is exact. None of these is inductive alone: a page
  taken from the free list is unreferenced only because the list is sound, and the
  list stays free of duplicates only because a page on it has no references and so
  cannot be freed again. The inductive invariant is `PmmOK` (type, no duplicates,
  no referenced page on the list, cursor, count) with `RefsAreHolds`; one lemma
  per call of `pmm.c` shows that it keeps `PmmOK`.
- `AvailabilityExact`: `pmm_alloc_page` fails exactly when `pmm_available_pages` says 0, and
  takes one page from it.
- `PagesChangeHandsOnlyWhenFree`: a page gets an owner only by leaving the free list
  or from above the cursor; an action property from the same invariant.

**`PipeProofs`** (ring)

- `RingAlwaysConsistent`: `wpos` is `count` places ahead of `rpos`, modulo the capacity.
- `RingImplementsQueue`: `PipeRing` implements `PipeFifo` under the mapping that reads
  the ring from `rpos` for `count` bytes. The arithmetic of the wrap is in four lemmas
  about `Advance` and `Ahead`; `WriteAppends` and `ReadTakes` say what a call does to the
  contents, byte by byte; `StepRefines` maps each action to one of the queue.

**`PipeTasksProofs`** (descriptors and blocking calls)

- `CountsAlwaysDescriptors`: a pipe's end counts are the descriptors open on it. Fork and exit
  go through a whole descriptor table; `RefAll` and `CloseAll` are those loops, and
  `LoopKeeps` shows that each pass keeps the counts right for the descriptors done so far.
- `WakeupsNeverLost`: no task sleeps on a pipe that is ready for it, provided that no user
  buffer faults. The proviso is needed: `MCPipeBadBuffer.cfg` refutes it without.
- `HangupsAreFinal`: until a pipe is released a closed end stays closed, and a pipe without
  writers gains no byte.
- The invariant `Good` has the counts, that a free slot has no descriptors (else fork into
  it would lose some), and what each sleeper waits for. The counts carry the wake-ups:
  that the last close of an end wakes the other side is seen only from exact counts.

**`VmLemmas`, `VmProofs`** (private memory)

- `RecordsAlwaysAgree`: page tables, page lists and frame counts agree, and a frame that two
  pages map is writable through neither.
- `TlbAlwaysCoherent`: a translation held for a task of the current epoch is the one in its
  table. This needs `TagsOK`: identifiers given out in the epoch and those in the TLB are all
  below `next_asid`, so that the next one given out has no stale translation.
- `ImplementsPrivateMemory`: `Vm` implements `PrivateMemory` under the mapping `View`. A store
  changes one task's page because a writable frame has one user, which is `PagesOK`.

**`PageCacheProofs`** (page cache)

- `MappedStaysCached`, `ContentsChangeByWritesOnly`: a mapped page is not evicted, and only a
  write changes what a read returns, whatever stores fail. The invariant `CacheOK` says of each
  page that it is listed while cached, cached while mapped or dirty, and on disk when clean
  and protected; eviction loses nothing because of the last.
- `SyncedIsDurable`: after a successful fsync the file system has what was written, of every
  page that is not clean and writable at once. `StoresEscapeOnlyAtCritical`: only a write fault
  that finds the dirty pages at the critical mark makes such a page. Neither has a proviso;
  that such pages exist is what `MCPageCacheRefuted.cfg` shows. The lists of pages to write back
  are built by `Keep` and `Touched`, about which `LoopLemmas` gives the induction, and below the
  critical mark the page just touched is the last in line and is not reached, which needs
  `MaxBudget < HighWater`.

**`ProcessProofs`** (tasks and signals)

- `ParentsLive`, `WaitersWoken`, `QueuesSound` state `ChildHasLiveParent`, `WaiterNotStuck` and
  `PendingSound`; `NoticesKept` and `FramesKept` the action properties `SigchldKept` and
  `SavedFrameKept`.
- They share the invariant `IInv`. Of the table (`TableOK`): each record is well formed, with
  queue and mask in agreement (`Local`); pids lie below `next_pid`, are unique, and no task is
  its own parent (`Named`); whoever has a parent pid has a live parent (`Family`); a waiter has
  a child to wait for and no event to collect (`Waiters`); a SIGSTOP is pending only in a
  stopped task (`Halted`). Of the processor: who may be RUNNING, and that the task chosen
  next is runnable. The parts need each other: a new event wakes the right waiter because its
  parent is found by a unique pid, and the task found is alive by `Family`; reaping a zombie
  takes no child from a waiter, because by `Waiters` it has no zombie that it waits for.
- Each function of `task.c` that changes several entries has a lemma on any table that
  satisfies `TableOK` (`StopOK`, `ContOK`, `ReapOK`, `ReparentIs`, `ForceExitOK`, `SignalOneOK`,
  `RescheduleOK`); inside stop and continue one entry is half changed (`Midway`). Each action
  has a lemma that cites them, and that also gives the two action properties: `Tame` and `Mild`
  say what a step may do to another task's SIGCHLD and saved frame.
- TLC checked `IInv` on the instance of the run `process` (1,353,599 states) before the proof.

**`LoopLemmas`** has induction over a set of numbers, from the well-foundedness of `<`, and what
it gives for loops written as recursive functions.

Only model-checked, and why:

- Liveness (`proc_fair`, the second half of `HangupSeen`, `CloseEnds`): the prover handles
  neither fairness nor `ENABLED`.
- `Journal`, `Files` and `Net`: the operations of `Jbd2Ops`, `Ext4Ops` and `TcpOps` are
  recursive in ways that follow the data (trees of blocks, packets to oneself), and the prover
  cannot be used on modules with `RECURSIVE` operators. The induction above covers loops with a
  number of passes known at the start and not these.
- `ForkMemory`: its refusals depend on sums of pages over tasks, and the proof of the
  sums was not attempted; the allocator under it is proved.

## 7. Findings

The run `fsck_repair` ends in a violation: `fs_fsck_ext4` keeps a pointer to the superblock
in a buffer that its inode scan reuses, so that repairing the free counts writes a block of
inode table over the superblock (`fs.c:3957`). `PROJECT.json` quotes what the documents say.

Four further configurations, kept beside the runs, are refuted by TLC in the same way (those
with two properties with TLC's option `-continue`):

| Configuration | Property | What the code does |
|---|---|---|
| `MCPipeBadBuffer.cfg` (`MCPipeTasks`) | `NoLostWakeup` | a read whose copy to the caller fails has taken the bytes and does not wake the blocked writer (`syscall.c:509`) |
| `MCProcRefuted.cfg` (`MCProcess`) | `KillReachesGroup` | a member that kills its own group and is reaped at once leaves later members alive (`task.c:2390`; `progress.md:777` names "caller group" among the targets) |
| the same | `SleepNotEarly` | a task stopped and continued in sleep returns 0 before its time, where `progress.md:2884-2885` has interruption forced for sleeps (`task.c:2231` clears the wait and leaves x0, so that the wrapper's retry finds no ticks left) |
| `MCPageCacheRefuted.cfg` (`MCPageCache`) | `WritableIsDirty` | at the critical mark the write fault's own write-back cleans the page it then makes writable (`task.c:3280`; `progress.md:3372`) |
| the same | `ForkInheritsShared` | a task with a clean shared writable mapping cannot fork (`task.c:1894`) |
| `MCJournalReplay.cfg` (`MCJournal`) | `ReplayIsRepeatable` | one flush covers the replayed blocks and the emptied journal, so that power lost in it can lose them (`ext4.c:1847`; `progress.md:1561`) |
| the same | `ReplayTakesCommits` | the replay refuses a log this kernel wrote: the checksum of an escaped block is taken before the escape and compared after it (`ext4.c:2131`; `progress.md:1558`), and revoke blocks are written to journals without the feature and refused there (`ext4.c:1768`; `progress.md:1700`) |
| `MCFiles.cfg` with this invariant added | `UnlinkKeepsWrites` | a write and then an unlink of another name of the file: the dirty pages are freed and the bytes lost (`fs.c:4291`, `pagecache.c:820`) |
| `MCNet.cfg` with this invariant added | `NobodyHangs` | a connection to a host that does not answer ARP: `resolve_arp` calls `net_pump` while it waits (`net.c:1858`), whose `tcp_tick` retransmits the segment under way, which waits for the address again; the nested calls find the segment still due and go on without end |
| `MCNet.cfg` with this property added | `CloseAlwaysEnds` | the exceptions of `CloseEnds`, FIN_WAIT2 first; `progress.md:177` says the last close "drives FIN/reset cleanup instead of leaking live sockets" |

More disagreements were met while modelling and proving, and the models contain them:

- A wait that matches no child discards the pending SIGCHLD of another child
  (`task.c:2049`); the other exits of `task_wait` look for such a child first. The proof of
  `NoticesKept` failed here until the property said so.
- Kernel stacks come only from the bump region and go back to the free list
  (`task.c:490`), so that forks which pass the page-count check fail after enough
  fork, exec and reap: `last = "fork_nostack"` in `ForkMemory`.
- Over the loop-back a segment is acknowledged before `snd_nxt` has moved, so that the
  acknowledgement is outside the window and the segment waits for its retransmission
  (`net.c:1388`), where `progress.md:245-249` has loop-back fixed.
- Neither side speaks after a zero window (`net.c:2924`), and `bind` on a connected socket
  moves its port (`net.c:2604`): `Net` keeps programs from the latter.
- fsck complains of sound volumes (`Misjudged` in `Files`): the number of directories in a group
  descriptor is never kept, names and blocks in groups it has not read yet are taken for free
  ones, pointer blocks and short symbolic links are refused, and the room for a name is compared
  in eight bits (`fs.c:2341`), so that a record with 3840 bytes of room has none.
- On a volume with checksums the last check (`fs.c:3963`) looks at the same reused buffer as the
  repair above: without repair it always complains, with repair it overwrites block 0.
- A file made read-only between a write and its write-back keeps its pages dirty: `ext4_write`
  asks for `writable` again, so close and unmount fail.

## 8. What is not modelled

- Storage and network drivers, console: queues shared with a device. `Journal`'s device
  answers each command once; a late answer to a command given up is not covered.
- ARP packets, several addresses to a host, longest-prefix routes, ping and the text
  interface of `/dev/net`; broadcast.
- Areas (`vm_area_t`) and their splitting; truncation, several files and the invalidations of
  a mount in the page cache of `PageCache`. `Files` has truncation, several files, unlink and
  unmount over dirty pages, without mappings, eviction and clean pages; one model of both is
  out of TLC's reach.
- What file operations do after an abort that left the inode in memory ahead of the volume.
- Volumes without a journal, device nodes, partitions, relative paths, several mounts.
- Nested traps: a page fault taken inside the kernel while it copies user data is
  part of the call's step.
- Break-before-make and other architectural ordering of page-table updates: the
  TLB of `Vm` holds old or new entries, never a mixture.
- Assembly entry and exit, MMU and interrupt-controller set-up, ELF parsing,
  formatting and the arithmetic of checksums: sequential code on fixed layouts, left to tests.
- User space beyond the retry loops of its C library: sequential programs.
- TinyCC under `third_party`: a compiler that runs on the system, not part of it.

## Running

    tlc -config MCVm.cfg MCVm        # a run: configuration and module from PROJECT.json
    tlapm PmmProofs.tla              # a proof module
