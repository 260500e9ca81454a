# A verification project for linux-memory-know-hows

The repository is a course on memory under Linux: fifteen directories of small C
programs, each a complete `main()` that shows one mechanism. It has no library and
no test suite. What can be right or wrong in it is in a few kinds of program:

* the **allocators** of `14_putting_it_together`, real data structures that callers drive;
* the programs with **two or more actors**: threads (`09`), processes and signal
  handlers (`08`), two sides of a communication channel (`10`), a fault handler (`13`);
* the **memory programs** of `00`–`07` and `11`–`13`: one thread that maps, touches,
  resizes, protects, locks and frees memory while the kernel pages, and prints what it
  sees;
* a rest that formats addresses, structure layouts or `/proc` files, or shows undefined
  behaviour on purpose.

The modules model the first three kinds: TLC checks them on small instances, and TLAPS
proves nearly all of their safety properties for all sizes. `PROJECT.json` has, for each
definition, the lines of C it stands for, for each property a plausible mistake in
the code that would break it, and the list of hazards the properties are for.

## 1. Inventory

| component | state | operations | what is hard | what makes it correct |
|---|---|---|---|---|
| futex mutex `09/05_futex_basic.c` | one word (0, 1, 2), `shared` | lock, unlock, worker, create, join | every access interleaves; wake-ups can be lost between exchange and wait | exclusion, no sleeper forgotten, all finish, no increment lost |
| free-list allocator `14/04_freelist.c` | headers and footers in the heap, a doubly linked free list | my_init, my_malloc, my_free | long histories of split and merge; tags beside memory callers write; leftovers too small for a chunk | chunks tile the heap, the list is what is free, coalescing is complete, callers reach no tag |
| bump, pool, slab `14/01`–`03` | a pointer; a list through the free slots; slabs with lists, a list of partial slabs | alloc, free, reset, destroy | lists in memory that callers overwrite; a full slab that comes back | the lists hold exactly what is free |
| buddy allocator `14/05_buddy.c` | a free list per order | buddy_alloc, buddy_free | cascades of splits and merges, xor addressing | aligned tiling, merging complete |
| signal handler `08/06_signal_handler.c` | two flags, pending signals, handler activations | sigaction, handler, pause loop | the handler runs between any two steps, and inside itself for the other signal | a signal is noticed, the one printed as the last is that or was overtaken |
| SIGCHLD reaper `08/10_sigchld.c` | children, one pending bit, `reaped` | fork loop, handler with waitpid(WNOHANG), pause loop | exits merge into one signal; fork may fail | every child reaped and counted once |
| processes `08/01`–`04`, `07`, `09` | process table: state, parent, status, session | fork, vfork, clone, exec, exit, wait, setsid | exits in any order, children killed, adoption | no child left, reports true, daemon detached |
| clone thread `08/05_clone_thread.c` | a shared counter | add, poll, return | polling in place of a join | the count is complete |
| threads, TLS, join `09/01`–`04`, `00/04`, `03/07`, `04/08` | per-thread copies, words of a shared block, key, heap blocks | create, join, increments, destructors | what outlives what; increments that are not atomic | counters private, nothing leaks or is used after it is freed |
| memory programs `01`, `02/01`, `03/02`–`04`, `04`–`07`, `11`, `12/04`–`05`, `13/01`–`02`, `13/05` | pages with contents, protection and place (nowhere, zero page, page cache, frame, swap); pointers; the break; one file; the SIGSEGV disposition | mmap, munmap, mremap, mprotect, madvise, mlock, sbrk, malloc, realloc, free, loads, stores, calls | a page may be swapped out between any two steps; any call may fail and most are not checked; mappings land where the kernel likes; handlers run on a stack that is used up | accesses are legal, what is printed is what the text says, nothing is left or clobbered, every program ends |
| pointer chase `00/01_memory_hierarchy.c` | index array, chain | shuffle, link, chase | a chain that closes early times the wrong memory | one cycle through every slot |
| IPC `10/01`–`10`, `05_mmap/03`, `08/08` | pipe, FIFO, socket pair, shared memory, eventfd, queue, memfd, signalfd | create, fork, send, receive, close, remove | inherited descriptors, blocking on both sides, failures not checked, priorities | what is sent arrives, both sides end, nothing is left |
| userfaultfd `13/03_userfaultfd.c` | pages, one message | fault, poll, copy | one thread unblocks the other | a blocked reader is being served |

Not modelled, and why, is in section 8.

The programs do not call one another: each is an executable of its own. What
interacts is inside a program, and with the kernel: `fork()`, signals, pipes, futexes
and mappings are modelled as far as the programs use them, and marked external in
the map where no line of C corresponds.

## 2. Modules

| module | models |
|---|---|
| `FutexMutex` | `09/05_futex_basic.c`; one step per atomic access, system call, and load or store of `shared` |
| `AtomicCounter` | abstract: threads that add one atomically, N times each |
| `FutexMutexProofs` | proofs about `FutexMutex` |
| `Freelist` | `14/04_freelist.c`; tags as words in memory, the free list as a sequence |
| `FreeLinks`, `FreeSequence` | the list of `Freelist` with its `prev_free`/`next_free` links, and the sequence they implement |
| `BlockAllocator` | abstract: an allocator holds disjoint blocks of a region |
| `FreelistProofs` | proofs about `Freelist` |
| `Bump`, `Pool`, `Slab`, `Buddy` | the other allocators |
| `Chains` | what a singly linked list in memory holds, for the properties of `Pool` and `Slab` |
| `SignalHandler`, `SignalFd` | the two ways to wait for SIGINT and SIGTERM |
| `SigChld`, `SigChldProofs` | the reaper, and proofs about it |
| `ProcessLife` | six programs that make processes, as one process table |
| `Threads` | seven programs that create and join threads |
| `CloneThread`, `UserFault` | two more programs with several threads |
| `EventFd`, `MsgQueue`, `SharedMemory`, `Pipes`, `Sockets`, `Memfd` | IPC programs |
| `MemoryPrograms` | `main()` of 39 single-threaded programs, each as the sequence of its steps |
| `AddressSpace` | what a step does to pages, pointers, break, file and handler, and the kernel's reclaim |
| `PointerChase` | `00/01_memory_hierarchy.c`: the shuffle, the chain, the chase |
| `MCAllocators`, `MCTasks`, `MCIpc`, `MCMemory` | several of these side by side for one TLC run |
| `MCMsgQueue` | the program's own three messages and priorities |
| `AllocatorProofs`, `TaskProofs`, `IpcProofs`, `MemoryProofs` | proofs about the programs of the MC module of that name |
| `Holdings` | what each memory program holds at each of its steps, and the invariants of the proofs |
| `Promises` | what each of them knows of its pages, files and counters, and how much it has printed |
| `ProgramProofs` | the rest of the proofs about `MCMemory`: accesses, ends, what is left and what is printed |

How state and actions correspond to code: a variable has the name of the C variable
where there is one; a program counter has a label for each point at which another
actor may come in between; an action is what happens between two such points and is
named for the function or the call. Choices that the kernel makes, and failures of
calls, are disjuncts. A call that asks for something (memory, a file, a descriptor, a
thread, a process, a protection) fails in some behaviour; a call that gives back what the
program has (`munmap()`, `munlock()`, `close()`, `unlink()`) does not. Where a program
does not check a result, the model goes on as the program does: a `malloc()` or `mmap()`
that fails leads to `segv`, an `open()` or `eventfd()` to reads and writes that fail at
once, a `fork()` to a parent that goes on alone. A `pthread_join()` of a thread that was
never made leads to `undefined`, where the model stops, because C says nothing of what
comes then; `05_futex_basic.c` and `07_eventfd.c` are among the programs that get there.
The `mmap()` of an allocator's init function is of this kind too: the bump and pool arenas
may be unmapped from the start, after which nothing is allocated; the free list and the
buddy allocator write to the arena in their init, so that a failure kills the program
before it has a state to speak of.

The four MC modules run **one** program in each behaviour. A variable (`program` or
`running`) is chosen in `Init` and never changes; the variables of the others keep
their initial values. This is not a composition, only a way of asking one question of
several programs: the state graph is the disjoint union of theirs. A property of such
a module names the program it is about and is true of the initial states of the
others, so it says about each program exactly what the program's own module says.

`MemoryPrograms` and `AddressSpace` divide the memory programs in two. The programs
differ only in which calls and accesses they make, in what order and with which
results checked; that is data, one sequence for each `main()`. What a call or an access
does is the same for all of them and is one action of `AddressSpace` each, most of them
the kernel's or the C library's side. `pc` is the position in the sequence; a `get` that
fails leaves `Nowhere` in the pointer, and whether anybody looks at it is whether a
`Check` follows. `Unchecked` in `AddressSpace` lists the programs in which nobody does.

Under "Mistakes for the mutation runs" a module has operators that are wrong on
purpose. Nothing uses them: they stand beside the definition that they would replace,
and show that a property fails for a program with that mistake.

### Abstractions

* Addresses in `Freelist` count units of 16 bytes, in `Buddy` pages, in `Bump` bytes.
  Requests are in bytes (pages in `Buddy`) and rounded as the code rounds them, modulo
  `SizeMod` where `size_t` may wrap.
* Junk that callers write over their memory is one value for `Freelist` (it reads as
  "free, of size 0", the most harmful tag) and a small set for `Pool` and `Slab`.
* In the memory programs a region is one to three pages (`Large` stands for everything
  from 4 MiB to 256 GiB), the bytes a program writes to a page together are one label,
  and a loop over pages is the sequence of its rounds. An access and the page fault it
  causes are one step. Memory granted does not run out later (no OOM kill). Advice that
  only tunes (huge pages, merging, `mallopt()`) has no step; `MADV_DONTNEED`, on which
  programs rely, has one and may be refused (`refused`). A block that is freed is no
  longer mapped in the model, so that a double free is always found, as glibc finds the
  one in `10_double_free.c`, and where glibc puts a block is any free place. Its pages
  need not be the kernel's yet: `kept` bounds how many of them glibc may still hold, and
  is 0 again after `malloc_trim()`. The RSS a program prints is the number of its own
  resident pages and up to `kept` more. The first `printf()` allocates its buffer, from
  the break or from a mapping; it has a step in the two programs that can tell.
* A message is its number or a model value; a shared-memory message is a few words
  written and read one by one. A pipe's record is atomic, as `PIPE_BUF` makes it.
* `sleep()` is a step that may come at any time. Output is kept only where a property
  is about it. The copies of `counter` that `01_fork.c` prints are left out.
* An uninitialised `sv` in `10_scm_rights.c` is taken to name no open descriptor.
* Memory orders: every shared access that the models let race is atomic with
  acquire/release or sequentially consistent order in the source, so interleaving is
  the right semantics; `shared++` in the futex program and the increments of
  `02_tls_compiler.c` and `04_cacheline_falsesharing.c` are a load and a store.

## 3. Runs that pass

| run | module, instance | what it shows |
|---|---|---|
| `futex` | `FutexMutex`, 3 threads, any of which may not have been made, 2 iterations | exclusion; `NoLostWakeup`; `Termination`; implements `AtomicCounter` |
| `freelist` | `Freelist`, 16 units, requests 0, 1, 33 and 49 bytes | `Tiling`, `ListIsFree`, `NoAdjacentFree`, `NullOnlyIfNoRoom`, `PayloadIsPrivate`; implements `BlockAllocator` |
| `allocators` | `MCAllocators`: arena of 100 bytes at address 480, 5 slots, 3 slabs of 2 objects, 3 linked chunks, 8 pages for `Buddy` with requests 0, 1, 2, 3, 8, 9 | bump and buddy implement `BlockAllocator`; the pool's list is what is free; slab accounts and the partial list; buddies tile, merge and fail only without room; the links implement the sequence |
| `sigchld` | `SigChld`, 4 children | `NoZombieForgotten`, `CountIsRight`, `EveryChildReaped` |
| `tasks` | `MCTasks`: up to 4 threads, 1 to 3 increments, 4 additions, 4 pages, up to 4 signals | counts right, no leak or early free, faults served; `LastSignal`; reports of children true, signals noticed; a serving daemon is left to init; main gets through and everybody who ends is reaped |
| `ipc` | `MCIpc`: 5 writes, 6 messages in a queue of 3, 3 words, 5 records in a pipe of 3 read by 2 | everything sent is received, once; nothing left; the eventfd `main()` returns exactly where it can; both sides exit |
| `memory` | `MCMemory`: regions of up to 3 pages among 7 addresses, 3 addresses for the break, 3 stack frames; chains of 1, 4 and 5 slots, 30 or 3 steps | accesses legal, prints as promised, nothing left, nothing clobbered, every program ends; the chase visits every slot |

Why the bounds are enough to be interesting:

* three threads are the fewest with which a woken waiter, a sleeping waiter and a new
  arrival compete; two iterations let a thread come back for the lock it gave up;
* four minimal chunks of 4 units fill the heap of 16, so that a chunk with free
  neighbours on both sides, on one side and on neither occurs; 33 and 49 bytes need 6
  and 7 units, which leaves remainders both below and above `MIN_CHUNK`; 0 is refused;
* eight pages give four orders, hence cascades of three splits and three merges; 3 is
  rounded up, 9 does not fit, and 0 is a block of one page;
* 100 is not a multiple of 16, so that the last request that is rounded up does not
  fit although it would unrounded; the arena is at address 480 of 1024, and a request of
  420 bytes comes as near to the end of the address space as the assumption allows;
* three slabs of two objects have a full, a partial and an empty one at once, in any
  order on the partial list, and `mmap()` may fail at any time;
* the queue and the pipe are shorter than what is sent, so both sides block; the
  reader's buffer is shorter than what the pipe may hold;
* seven addresses let a region of 3 pages move to a place that does not overlap it, and
  leave a free address beside it; with 3 stack frames the overflow comes after some
  calls that succeed; three addresses for the break hold the buffer of `printf()` and
  the two pages asked for, but not more;
* a chain of 1 slot is its own successor; 4 slots have all 24 orders and are chased
  round several times; 5 are more than `BigSize`, so that the chase stops after 3 steps,
  as the program's does in its 256 MiB buffer (10 million steps, 33 million slots);
* four signals let both handlers nest, in both orders, and a signal be pending twice.

`CHECK_DEADLOCK FALSE` stands where a program ends, or where it may really block for
ever (a failed `fork()` before the FIFO is opened, merged eventfd writes, a fault
thread that gave up). What must end is then said by a liveness property. The futex
model has a stuttering step at its end and is checked for deadlock, as are the
allocators.

## 4. Runs that show a disagreement

Each checks one sentence of the source, and TLC finds it violated by what the code does.

* `signal_pause`: `06_signal_handler.c:8` says the main loop notices the flag. A
  signal handled between the test of `g_stop` and `pause()` is not noticed: `main()`
  sleeps with the flag set until another signal comes. `SignalFd` is the program
  without this window, and `SignalsAreNoticed` shows it (and, for the handler, what
  remains true: a signal that finds `main()` asleep makes it exit).
* `sigchld_pause`: the same window in `while (reaped < 5) pause();`, with
  `10_sigchld.c:49` saying that the sleeping lets the signals land. All children are
  reaped, but `main()` may not get to say so.
* `mq_priority`: `09_mq.c:38` says the receiver gets high priorities first. It is
  already running while the parent sends, and may get the low one first. What does hold,
  that it gets every message once, is in `SentIsReceived`.
* `memfd_seals`: `06_memfd_create.c:41` says that size and content are locked down.
  The kernel refuses `F_SEAL_WRITE` while the writable shared mapping exists, and adds
  none of the seals asked for together.
* `brk_initial`: `02_brk_directly.c:35` prints that the break it ends with "should equal
  initial". The initial value is read before the first `printf()`, whose buffer glibc
  takes from the break; shrinking by what `sbrk()` granted goes back to the break after
  that. `NothingLeft` has what does hold: the break ends where `sbrk()` found it.

## 5. Fairness

Weak fairness of the steps of each process, thread or side: the scheduler runs
whoever can run. Nothing else is assumed: no spurious futex wake-up, no signal from
outside, no killing, no success of a call that may fail. `EveryChildReaped` and
`GetsThrough` use in addition that a child's `sleep()` ends, that signals are
delivered, and that init and the shell reap their children. In `MCMemory` the process
is scheduled and the kernel's reclaim is not assumed to happen; the process cannot be
held up by it, since an access and its fault are one step. In `FutexMutex` weak
fairness of each thread is enough although a thread may be overtaken, because every
worker has finitely many iterations. `GetsThrough` for userfaultfd is stated for a
thread that was made and whose copying succeeds, `BothSidesExit` for a child that was
forked and, in `03_fifo.c`, for ends that were both opened, `ReturnsUnlessMerged` says
separately what becomes of `main()` without a worker or a descriptor, and `Termination`
is about the threads that were made: otherwise the program blocks, and so does the model.

The end of the daemon's `sleep(30)` in `07_daemonise.c` has no fairness. That the daemon is
left to init (`DaemonDetached`) must come from its parent's end and may not be owed to
its own.

## 6. What is proved

For every value of the constants allowed by the assumptions, by TLAPS:

**`FutexMutexProofs`** (`NThreads` and `N` positive). `TypeCorrect`, `MutexCorrect`,
`WakeupCorrect`, `NoUpdateLost`, `RefinesCounter`, `PrintCorrect`. Mutual exclusion is
not inductive: an exchange that returns 0 lets a thread in whatever the others do.
With `HeldIsNonZero` (while a thread is inside, the word is not 0) it is. The wake-up
property then follows because only `unlock()` makes the word 0, and it goes to `fwake`
exactly if it read 2; only a CAS on 0 makes it 1, when an unlock has just sent its
wake-up. For the counter, `IInv` adds `Lifecycle` (who has been created and joined),
`LoopBound` (iterations left) and `RegCurrent` (what a thread loaded is current until
it stores). The refinement maps an increment to its store, so a worker that has stored
and not yet gone round its loop counts one more. `PrintCorrect`, that `main()` prints
`NThreads * N`, if it prints (all threads were made then), follows from the cardinality of the increments made. `NoLostUpdate`
and `PrintsExpected` are stated in the module and only proved, not run.

**`FreelistProofs`** (`Cap >= MIN_CHUNK`, requests that do not wrap). `TypeCorrect`,
`TilingCorrect`, `ListCorrect`, `CoalescingComplete`, `PrivateCorrect`,
`AllFreedCorrect`, `NullCorrect`, `RefinesBlocks`. None of tiling, list and coalescing
is inductive alone: `my_free()` finds its neighbours through tags, so a wrong tag
breaks the tiling, a chunk missing from the list breaks `fl_remove()`, and two free
neighbours would be merged only in part. `IInv` is `TypeOK`, an injective list,
`Good(mem, FreeChunks, LiveChunks)` (the chunks tile the heap with equal headers and
footers, their bits say which are free, no free chunk follows a free one) and
`PayloadFits` (a live chunk has room for what was asked for). `Retile` is the core: if
a run of chunks is replaced by chunks that fill the same extent, and no tag outside is
touched, the result is a tiling. Splitting (`SplitTile`), merging (`MergeTile`) and
marking (`RetagTile`) are instances; `Free` is marking, then merging right, then
merging left. `PayloadAvoidsTags` gives that callers may write what they like.
`NullCorrect` says that a request fails only if no run of units between live chunks is
long enough, which needs coalescing to be complete.

**`SigChldProofs`** (`N` a natural number). `TypeCorrect`, `ZombiesCorrect`,
`CountCorrect`. `IInv` adds to the properties that a child not forked yet is neither a
zombie nor reaped (otherwise a fork could revive a child that was counted) and that
`main()` reports only when `reaped >= N`; that all are reaped then follows from the
cardinality of the set reaped.

The other five prove about the MC modules, so that a theorem is about exactly the
formula that a run checks. `OneRuns` in each says that a step is a step of one component
and leaves the variables of the others alone; from there on every component has its own
invariant, one lemma that a step keeps it, and a theorem.

**`AllocatorProofs`** (any arena at any address and requests whose rounding and whose sum
with an address of the arena do not wrap, any number of slots, slabs, objects and chunks,
`MAX_ORDER` up to 19). `BumpCorrect`, `ListsCorrect`, `LinksCorrect`,
`SlabCorrect`, `BuddyCorrect`, `RoomCorrect`, `BuddyPagesCorrect`.

* A list in memory is what following its links finds, a recursive function. `Linked` says
  instead which sequence of nodes it is; `ChainIsLinked` shows, by induction on the
  places, that walking along the links finds that sequence. `PoolInv` and `SlabInv` then
  say that a list *exists* for the free slots; they are inductive because only words of
  objects that nobody holds are links, and callers write only to what they hold. For the
  slab cache the counts `in_use` are needed as cardinalities, since the code decides by
  them when a slab enters or leaves the list of partial slabs.
* `LinksInv` is the same for the doubly linked list; the mapping to `FreeSequence` is the
  sequence that exists, and push and remove are its `\o` and its deletion.
* `BuddyInv`: free and used blocks together tile the arena, each at a multiple of its size
  (`Tiles`); no block is free and used, none is twice on a list; no two callers hold one
  block; no block and its buddy are both free (`NoBuddies`). The tiling alone is not enough:
  `buddy_free()` takes the buddy off a list, and it must be there once. `SplitTiles` and
  `MergeTiles` replace one block by two and two by one; the loop of `buddy_free()` is a
  recursive function and is followed by induction on the order. `Buddies` has the
  arithmetic of `page ^ (1 << order)`. That a request fails only without room, and that
  the arena is one block after the last free, both come from `RoomIsFree`: an aligned run
  in which nothing is used lies inside one free block. It too is by induction on the
  order: two halves that are free blocks would be free buddies.

**`TaskProofs`** (any number of threads, rounds, increments, pages and signals).
`CountsCorrect`, `NoLeakCorrect`, `UserFaultCorrect`, `LastSignalCorrect`, `ReportsCorrect`,
`DaemonSession`.
`PlanInv` is what joins the seven thread programs: a thread that runs has its join ahead
in what `main()` still calls, so that after the last join all have ended. With it
`CounterInv` (a counter is the number of its thread's rounds, also between load and
store) and `BlockInv` (whose each block is, program by program) are inductive. `CloneInv`
relates the counter to both tasks' additions. `FaultInv` says what the fault thread holds
from `read()` to `ioctl()`. `HandlerInv` says that if `g_stop` is set, then `g_lastsig` is
or an activation on the stack is about to set it, and that of the activations that have
yet to set it the outermost decides: its signal is the last one delivered unless that one
overtook it. `LifeInv` says what is known of C at each point of P, and that C has the
status of its success exactly if it did its work. `DaemonSession` is the safety half of
`DaemonDetached`; its invariant adds that G stays C's child until C ends.

**`IpcProofs`** (any number of writes, messages, words and records, any priorities,
`mq_maxmsg`, pipe capacity and size of a read). `EventFdCorrect`, `MergedReadBlocks`,
`SentIsReceivedCorrect`, `NothingLeftCorrect`. `QueueInv` counts:
messages queued and received together are as many as were sent, and each that was sent is
among them, so that after `NMsg` receipts none was missed and none came twice; the kernel's
insertion adds just the message sent (`InsertAdds`).
`PipeInv` says who has which end open at each point, and that the records that came out
and those in the buffer together are what was written: a reader can see the end of file
only when the last writing end is closed, which is after the last record. `SocketsInv`
does the same for the two directions of a socket pair and for the references to a file
that is in flight. `SharedInv` says that the flag implies the message.
`MergedReadBlocks` has the safety parts of `ReturnsUnlessMerged`: after a `read()` that took two
writes, or without a worker, `main()` is in its loop for ever.

**`MemoryProofs`** (any finite set of sizes, any bounds on the steps). `ChaseCorrect`. The
invariant of the shuffle is that `idx` is a permutation, of the linking that the places
passed lead to the next one, of the chase that the slots visited are those of the places
from where it began to where it is.

The same module, for any `Large` of at least 2, a break area of at least 3 pages, a mapping
area of more than `Large + 2` pages and any depth of stack, has `MemoryTypeCorrect`,
`ProtectionCorrect` and `ClobberCorrect` about all 39 memory programs. `MemoryInv` is the
conjunction of

* `WhereInv`: the program is at a step of its script. This rests on `StepFacts`, what is
  known of every step of every script whatever the length of its loops: one follows
  it unless it is a return, none asks for a page to be written and run, and the steps that
  print, resize, map at an address, move the break or jump occur in seven programs only;
* `PagesInv`: every address has a page or none, and no page can be both written and run.
  One lemma per action shows it `Harmless`: it makes no library page and no such page;
* `SizeInv`: a region that `realloc()` or `mremap()` is to resize lies in the address space
  with all its pages, without which the pages that are moved would not be pages;
* `FixedInv` and `BreakInv`: at each point of `09_map_fixed_noreplace.c` and
  `02_brk_directly.c`, where the buffer of `printf()` can be against what the program has
  mapped or raised. `NothingClobbered` alone is not inductive: that `sbrk()` gives
  pages above the buffer needs that the buffer is below the break or in the mapping area,
  and that the `munmap()` of `q` drops no buffer needs that `q` was mapped by the program;
* in the other programs there is no library page, and the break is where it was.

**`ProgramProofs`** goes on from there, under the same assumptions. `AccessesCorrect` and
`NothingLeftCorrect` are about all 39 programs, and their proof goes by what the programs have
in common. The table `Holdings` says how many pages each pointer of each program has at each
step. It is data, like the scripts, and
`ScriptsFit` (in `MemoryProofs`) shows once for each script that the two go together:
a `get` makes what the table says and nothing is lost by it, an access is to a page within
what its pointer has, and at the return nothing is held. Then a single argument about the
actions serves all programs. `ProgramInv` is `MemoryInv` and

* `OwnInv`: a pointer that should have pages is `Nowhere` after a failed call or has them
  all, mapped and of its kind; no two pointers share a page; and no other page is mapped, unless a
  failed `realloc()` lost one. An access can then only fault through `Nowhere` or through a protection;
* `CarefulInv`: in the programs that look at every result, a failure is followed by the
  check of that result, so that no access comes after it;
* `ProtInv`, `GuardInv`, `HandlerInv`, `StopInv`: only `05_mprotect_guard.c` and
  `06_mprotect_jit.c` have pages not to be written, and what these are at each point; which handler is
  installed where; and which programs never reach their end;
* `FileInv`: the descriptor is closed and the file removed before the return; `EndInv`: how a program may end;
* `FixedPagesInv`, `BreakPagesInv`: what is mapped in the two programs with the buffer of `printf()`,
  at each of their points.

`PrintsCorrect` says that the k-th output of a program is one of those promised for its k-th.
What a program prints depends on what it wrote where, on the faults counted and on the pages
dropped before, so this needs what each program knows of its own data (module `Promises`).
`PromiseInv` is `ProgramInv`, the property itself and

* `SaidInv`: a program at step `pc` has printed `Said(program, pc)` things, as the table `Talks`
  says, so that an output is compared with the right promise and none is beyond the last;
* `KnowsInv`: for 19 of the 21 programs that print what they have read, what is known at which step of
  pages, file and counters. The fresh regions of `02_lazy_allocation.c` and
  `06_madvise_dontneed.c` have no page in use until they are touched, nor once they have been
  dropped (`Dry`), unless `madvise()` has refused: then they have what was written, and the
  count after it may be anything. The first loop of `03_count_page_faults.c`, the one after its
  `madvise()` and the first of `04_getrusage_demo.c` have faulted once for each page passed, because
  those to come are unused (`Unused`). What has been written is found again,
  whatever was swapped out and wherever `realloc()` or `mremap()` moved it (`Finds`). Between
  `mlock()` and `munlock()` all pages are resident. The private page of `02_file_mmap.c` has
  a copy of its own while the file keeps what was in it, and the shared one of
  `04_file_share_write.c` reaches the file. The handlers of the two programs that run out of stack
  come back at the full depth;
* `KeptInv`: where glibc may hold freed pages, and how many. `13_malloc_trim.c` prints at most two
  after its `free()`s and 0 after `malloc_trim()`; elsewhere an RSS is printed before the first block is
  freed, so that no count is loosened by it.

`KnowsStep` has one lemma for each of the 21 programs (`PagesizeTells` and so on), by cases of the
step that is taken: a step either rests or prints what `Said` and `Promised` say. The other
two, `FixedTells` and `BreakTells`, follow from `FixedPagesInv` and `BreakInv`. What a
reclaim may do, which comes between any two steps, is shown once for all (`PageTurns`): it
changes the value of no page and takes no locked one. `SilentSteps` and `StopsSilent` are
the programs and the ends that print nothing.

The lemmas on how a step changes what a program holds, and the protection of its pages, are in
`MemoryProofs` too, so that neither module takes the prover much longer than the other.

`AllocatorProofs` begins with lemmas about least and greatest members of sets of numbers and
with induction over a set in place of a predicate (`AllNumbers`), because the provers cannot
instantiate an operator parameter: an induction is an application to the set of the numbers
for which the claim holds.

## 7. What is only model-checked

* Liveness (`Termination`, `EveryChildReaped`, `SignalsAreNoticed`, `GetsThrough`,
  `BothSidesExit`, `EverythingEnds`, the `~>` of `DaemonDetached` and
  `ReturnsUnlessMerged`): the prover has no fairness.

Every invariant, every action property and every refinement that the passing runs check is a
theorem.

Exceptions that the properties of `AddressSpace` state, and the code has: `AccessesAreLegal`
lets the programs in `Unchecked` be killed once a call has failed; `NothingLeft` lets
`p = realloc(p, n)` lose a block (`01_malloc_basics.c:40`, `07_calloc_realloc.c`), a
failed `sbrk(-n)` leave the break up, and `05_mprotect_guard.c` return without its
`munmap()` when the guard was never raised. TLC reaches each of these. Those of the process
programs: `LastSignal` says exactly when `06_signal_handler.c` prints another signal than the
last (`overtook`), and `ReportsAreTrue` excepts `03_vfork.c`, which prints "child exit = 0" of a
child that was killed.

Excluded by assumptions, with the reason at the assumption: requests so near
`SIZE_MAX` that `04_freelist.c:91`, the rounding of `01_bump.c:44` or the address at
`01_bump.c:45` wrap around (nothing in the code guards against it, and a wrapped sum there
passes for one that fits); objects larger than a
slab (`objs_per_slab` = 0 reads through a NULL list at `03_slab.c:105`); page counts
above 2^30, for which the shift in `05_buddy.c:59` is undefined, and a `MAX_ORDER` above 19
(the program's is 8), for which the `int` at `05_buddy.c:68` overflows. Callers keep the
contract of `free()`: they free what they hold, once (except that `Slab` is handed
foreign pointers, which `cache_free()` rejects).

## 8. Not modelled

* `00/02`, `00/03`, `02/02`–`05`, `03/01`, `07/01`, `11/02`, `12/01`–`03`, `13/04`: they
  format layouts, addresses, limits or a `/proc` file and change nothing. `07/04` writes
  one `/proc` file.
* `03/05`, `03/06`, `04/11`, `04/12`, `11/04`, `11/05`: undefined behaviour on purpose,
  whose outcome is the compiler's and glibc's. `04/09_tcache_demo.c` shows the order in
  which glibc reuses addresses; glibc is not in the repository.
* `09/06_mutex_vs_atomic.c`: one thread and two timed loops.
* Timing, caches, NUMA, huge pages and page merging as such: out of reach of a state
  machine. Of the benchmarks, what they do to memory is modelled.

Two files do not compile as they are with a current glibc, and are modelled as they are
meant: `05_mprotect_guard.c:41` calls `mprotect()` without a length (the calls at lines
42 and 43 make the guards), and `02_recursion_depth.c:45` uses `SIGSTKSZ` as a constant.

## 9. Plan

Done, in this order: futex mutex with its abstract counter and proofs; free-list
allocator with its abstract block allocator and proofs; buddy; bump, pool, slab and the
linked list; signals and SIGCHLD with proofs; IPC; processes; threads; the memory
programs and the pointer chase.

Then the proofs: bump, pool, slab, buddy and the links; threads, processes, signals and
userfaultfd; IPC; the pointer chase; types, W^X, `NothingClobbered`, `AccessesAreLegal` and
`NothingLeft` for all memory programs at once; `PrintsAsPromised` program by program.

Nothing of the plan is left. What stays with TLC is in section 7, what is not modelled in section 8.

## 10. How to run

    tlc -workers 2 -config MCFutexMutex.cfg FutexMutex
    tlapm FutexMutexProofs.tla

and likewise for the other entries of `PROJECT.json`. The longest TLC run (`allocators`)
takes about a minute. The longest proofs are `AllocatorProofs`, about ten minutes,
`MemoryProofs`, about a quarter of an hour, and `ProgramProofs`, about twenty minutes.
