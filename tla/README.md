# FernOS in TLA+

Specifications of the kernel and of parts of the user library of FernOS, a hobby
operating system for one 32-bit x86 CPU, with the TLC configurations that check them
on small instances and TLAPS proofs of what holds for every instance. Paths below are
relative to the repository's `src/`.

## 1. The system

### What runs when

There is one CPU. A system call, the timer tick, a key or a fault enters the kernel
through an interrupt gate (`k_startup/src/idt.c`, `action.c`), so **a handler is never
interrupted**; it ends in `return_to_curr_thread`, which goes back to the head of the
schedule, or halts until the next interrupt when the schedule is empty. What interleaves
is therefore user code: any two system calls of a thread, and any two memory accesses of
threads of one process, may have arbitrary calls of others between them. A handler that
returns an error other than to its caller (a *kernel error*) makes `action.c` shut the
system down.

Two consequences shape every module: a handler is one step of the specification, and user
code that races (the mutex, the loops around a handle) is cut at every instruction that
touches shared memory and every system call.

### Components

For each: the state it keeps, its operations, what makes it hard and what makes it right.
The modules are in section 2.

**Kernel core** (`k_startup/src/state.c`, `thread.c`, `process.c`, `action.c`).
*State:* the schedule (a ring whose head runs), the sleep queue, the process table; for
each process its parent, living children, zombie children, threads, main thread, join
queue, signal queue, pending and allowed signals, handle table. *Operations:* fork, exit,
reap, exec, signal, allow, wait for and clear signals, spawn, exit and join threads,
sleep, the tick, memory requests, default handles, dispatch to handles and plugins.
*Interactions:* everything else is called from here, with the current thread implied, and
blocks that thread by putting it in some wait queue. *Hard:* an exit signals the parent,
which may be made to exit by it, so handlers recurse up the process tree with lists half
updated; wake-ups unlink threads by hand in several places; a process may be ended while
its threads are in any queue. *Right when:* each thread is in the one place its state
says; the tree and the lists agree; no signal and no join is missed; scheduled threads run
and sleepers wake; only the documented errors stop the system.

**Wait queues** (`s_data/src/wait_queue.c`). *State:* a list of waiting pointers with a
ready flag (basic), with a mask and the bit that woke them (vector), with a wake-up time
and the time last seen (timed). *Operations:* enqueue, notify, pop, remove. *Hard:* the
time wraps at 2^32 and the timed queue must stay sorted across the wrap. *Right when:*
nobody is forgotten, popped twice or left behind by a remove.

**Futex plugin** (`k_startup/src/plugin_fut.c`). *State:* per process a map from addresses
to wait queues. *Operations:* register, deregister, wait with an expected value, wake;
hooks on fork, reset and reap. *Hard:* compare and enqueue against concurrent stores;
deregistration under waiters. *Right when:* a waiter is woken by the wake that follows the
store it waits for.

**Mutex** (`u_concur/src/mutex.c`). *State:* one word and its futex. *Operations:* init,
clean up, lock, unlock. *Hard:* preemption between the compare-and-swap, the mark and the
futex call; failing waits. *Right when:* it excludes, unlock always finds it locked, no
wake-up is lost.

**Pipe plugin** (`k_startup/src/plugin_pipe.c`) **and user loops**
(`u_startup/src/syscall.c`). *State:* a cyclic buffer, the numbers of write and read
handles, two queues of waiting threads. *Operations:* open, write, read, wait for either,
copy of a handle by a fork, deletion by close, exec or reap. *Hard:* wraps, partial and
failing copies, a handle that goes while threads wait, zombies that keep handles. *Right
when:* bytes come out once and in order, nobody waits without cause, the end of the data
is announced only when it is final.

**Reaping** (`sc_proc_reap_single` in `u_startup/src/syscall.c`). *State:* where a thread is in a
loop of reap, wait for `FSIG_CHLD`, clear. *Hard:* children exit between any two of its calls, and
several with one signal. *Right when:* nobody sleeps in the loop while there is what it wants.

**Shared memory and semaphores** (`plugin_shm.c`). *State:* a table of semaphores with
passes, a wait queue and a bit per process; a search tree of ranges with references from
the kernel and a bit per process. *Operations:* create, close, take and give back a pass;
allocate, map, unmap; hooks on fork, reset and reap. *Hard:* hand-over of a pass, a
semaphore closed under its waiters, references inherited. *Right when:* passes are
conserved, a waiter gets a pass or an error, memory is mapped while and only while it is
referenced.

**File system plugin** (`plugin_fs.c`). *State:* a map from nodes to reference counts and
wait queues, a position per handle, a working directory per process. *Operations:* open,
read, write, wait, seek, resize, remove, list. *Hard:* several handles and threads on one
file, a waiter whose position has moved, removal of what others use. *Right when:* a key is
registered exactly while it is used, what is used stays, and a waiter has read all there is.

**Keyboard plugin** (`plugin_kb.c`). *State:* a cyclic buffer of scancodes, one position
per handle, one wait queue. *Operations:* key interrupt, read, wait, copy, delete. *Hard:*
a slow reader is overtaken by the writer; a closed handle under a waiter. *Right when:* what
a handle can read is the newest that was typed, in order.

**Graphics plugin and window manager** (`plugin_gfx.c`, `gfx.c`, `s_gfx/`). *State:* a grid of
windows with a focus, one of which may be shown alone; for each window its size, what it was
told, a bounded queue of events, a wait queue, a count of handles. *Operations:* create,
close, read and wait for events, keys, moves of the focus and of panes. *Hard:* the two owners
of a window (handles and root window) let go of it in either order; resizes fail half way.
*Right when:* what the windows were told is what the screen shows, a window lives as long as
one of its owners, and who waits will be told. Drawing is left out.

**Plugin and handle dispatch** (`plugin.c`, `handle.h`): tables of functions; a failing
hook is a kernel error.

**Paging** (`page.c`, `page_helpers.c`). *State:* the list of free pages, page directories and
tables, whose entries are unique or shared. *Operations:* allocate, free, copy a range or a
directory. *Hard:* a copy that fails half way. *Right when:* every page is in one place.

**Containers** (`s_data/`): id tables (two linked lists in one table that grows), search trees
(removal during a pass), the timed queue; rings, lists, maps and fixed queues, which appear as
sequences and functions in the modules that use them.

**Simple heap** (`s_mem/src/simple_heap.c`): boundary tags, two free lists, coalescing, and
memory requested from the kernel, which may give less than was asked for. *Right when:* the
blocks tile the heap, and `malloc` fails only when it must.

**Block devices and FAT32** (`s_block_device/`): a write-back cache of sectors with random
eviction; chains of clusters, a queue of free slots, directories of long-name sequences behind
a moving terminator. *Hard:* a step of several fails, and what was taken has to be given back.
*Right when:* the cache is a disk, and the volume is a tree of named nodes of which each call
changes one.

**Not modelled:** boot, descriptor tables, the ATA driver (port I/O), context switching
(assembly), processor set-up, hashing and scancode tables, formatting, fonts, terminal rendering, the applications.

## 2. The modules

| module | stands for | state | actions |
|---|---|---|---|
| `Queues` | the linked lists threads and processes are kept in | - | operators: drop, pop at and push before an iterator, least element |
| `Kernel` | the kernel core | 14 variables, one per list or field of the code | one per system call, the tick, and the four parts of the recursive handlers |
| `MCKernel` | instances of `Kernel` | | |
| `Reapers`, `MCReapers` | the reaping loop of user code over `Kernel`, and an instance | where each thread is in the loop | its calls, each a step of `Kernel` |
| `QueueLemmas`, `KernelProofs` | proofs about `Queues`, `Kernel` and `Reapers` | | |
| `Futex` | one futex of the plugin, with its word | word, registration, queue, answers | register, deregister, wait, wake, as operators of a thread |
| `Mutex` | the user mutex over `Futex` | the place of each thread in the two functions | one per instruction or futex call |
| `Lock` | what a mutex promises | who asks, who owns | ask, acquire, give up, release |
| `MCMutex` | instances of `Mutex` | | |
| `Pipe` | the pipe of the plugin | buffer, indices, counts, two queues | write, read, copy and delete of a handle, as operators |
| `PipeUsers` | processes and threads over `Pipe` | who is alive, who holds which end, where each thread is in its loop | one per system call, close, delete, fork, spawn, exit, reap, exec |
| `Channel` | what a pipe promises | bytes under way, open ends | put, get, close |
| `MCPipe`, `PipeProofs` | instances of and proofs about `PipeUsers` | | |
| `Processes` | the processes and threads a plugin sees | which exist, which wait, each main thread | the parts of spawn, fork, exit, reap and exec that concern every plugin |
| `Semaphores`, `SemaphoreProofs` | semaphores of `plugin_shm.c`, and proofs about them | passes, references, queues | a command or a hook each |
| `FutexMaps` | the futex plugin over all processes | maps, queues, addresses that were unmapped | a command or a hook each |
| `Keyboard` | the keyboard plugin | cyclic buffer, positions, queue, saved pointers | open, read, skip, wait, close, key |
| `Windows` | the graphics plugin and the grid window | grid, focus, windows, handles | a command, key or hook each |
| `FilePlugin` | the file system plugin over `FileTree` | node keys, handles, working directories, waiters | a command or a hook each |
| `Plugins`, `MCPlugins`, `PluginProofs` | one instance of each of these, its symmetry, and proofs about it | | |
| `PageTables` | `page.c`, `page_helpers.c` | - | operators from a memory to the next, with their errors |
| `SharedMemory` | processes' memory and shared ranges, over `PageTables` | memory, ranges | a command, memory call or hook each |
| `SimpleHeap` | the allocator | tags, break, free lists | malloc, free, realloc |
| `IdTable` | id tables | entries, two list heads, capacity | request, pop, push |
| `SearchTree` | the search tree | links, a pass under way | add, remove, begin and go on with a pass |
| `TimedQueue` | the sleep queue on a clock that wraps | time, two lists | enqueue, tick, remove |
| `BlockCache` | the cached block device | disk, cache, map | read, write, pieces, flush |
| `BlockDevice` | what a block device promises | sectors | read, write, flush |
| `FatTable` | the table of a volume and the calls on its chains | - | operators from a volume to the set of volumes that may come of it |
| `Fat32` | the directories of a volume, in chains | - | as in `FatTable` |
| `Fat32FileSys` | the file system over `Fat32` | a volume | touch, mkdir, remove, resize |
| `Fat32Chains` | the calls on chains of `fat32.c`, one access to the table at a time | a volume, the call that runs | new, resize, free; one per access, which may fail |
| `Fat32Transfer` | reads and writes of a file | the request, what was moved | the request, and one per access to the disk |
| `FileTree` | what a file system promises | a tree of named nodes | make, remove, resize |
| `MCStores`, `StoreProofs`, `DiskProofs` | one instance of each of these, from `PageTables` on, and proofs about most: of the kernel's containers and pages, and of the disk | | |
| `LibraryProofs` | proofs about `Mutex` and `SimpleHeap`, which every process links | | |

**Kernel.** Lists are sequences with the front first; the ring of threads is a sequence
whose head is `schedule.head`, so that to append is to attach behind the others. Threads
are pairs of a process and a thread id. A free id is any free id: which one the id table
gives is not modelled. The recursion

    ks_exit_proc_p -> ks_signal_p -> ks_exit_proc_p -> ... (up the tree)

is kept as a stack, `calls`: `ExitProc` is `ks_exit_proc_p` up to the abandoning of the
children, `BuryProc` the rest of it, `SignalProc` is `ks_signal_p`, `ResetProc` the end of
`ks_exec`. Nothing else moves while `calls` is not empty, exactly as no interrupt is taken.
Splitting the recursion lets invariants be stated, and proved, in the middle of it. Three
values of `sys` tell apart running, an orderly shutdown and one by a kernel error. A call
that only returns an error to its caller changes nothing and is left out. Results (exit
statuses, return values) are not kept, but for what decides a later step.

**Reaping.** A step of `Reapers` is one call of the loop, which is a step of `Kernel` or one that
only returns an error, and the thread's next place. Threads outside the loop make every other call,
but leave `FSIG_CHLD` to it. An exec or an exit takes a thread out of the loop.

**Mutex.** `Futex` has one futex, as entries of the map share nothing. The answers a thread
gets from its call are kept until the user code has looked at them, since that is when
other threads run. Waits may fail for want of memory. A thread unlocks only what it locked
and a mutex is initialised again only when no thread is in a call, which `mutex.h` asks for.

**Pipe.** The kernel side is in `Pipe` as operators, so that each call is one step of
`PipeUsers`; the user side is where a thread is in `sc_handle_write_full` or
`sc_handle_read_full`. A byte is its number modulo `Laps`, with `Laps > SigCap` so that no
two bytes under way look alike. Copies to and from user memory may stop after any number
of bytes (the code stops at page borders, which may be anywhere in a buffer), and the copy
of the count may fail after the data has moved. The queues are sets: all threads are woken
at once. `Exec` keeps any subset of the handles, as default handles are the user's choice,
and any existing thread as the main one. Handles deleted together are deleted one step at a
time with nothing in between (`doomed`). Failures of allocation in open and fork are not
modelled.

**Plugins.** `Processes` has the process calls reduced to what a plugin can see: any scheduled
thread may make the next call and any zombie may be reaped next, which includes every order
`Kernel` allows. Each plugin's module joins its own hook to the call, in the order of the code;
so a fork, exec or reap is one step with all it does to the plugin. Where the code follows a
pointer to what was freed, the module keeps track of that (`dangling`, `stale`, `Free`), and
takes every outcome the build can have. `misused` marks programs that close a handle while
another of their threads waits with it; the properties of `Keyboard` and `Windows` say what
holds of the others. In `FilePlugin` the constant `Sharing` says whether two threads may use one
handle at a time; a comment in the code (`plugin_fs.c:751`) knows that they must not.

**Memory.** Physical pages have no names: the free list is its length, and what holds a page is
the directory, table or entry it is used for, which is enough to count them. A call that fails
returns the memory it leaves, half done or undone as in the code.

**Stores.** `SimpleHeap` measures in tags of four bytes and keeps tags, not contents; a tag
inside a block is gone, so that a read of one is an error TLC reports. A request for memory may
be met in part. `IdTable` keeps both linked lists as links. `SearchTree` names a node by its
value. `TimedQueue` has a clock of any width; the kernel calls `twq_notify` with every tick, the
module with up to `MaxLate` ticks at once, as the queue's interface allows.

**Storage.** `BlockCache` answers each call like the code, with `Faults` for what may fail.
`FatTable` has the random choice of a sector of the table as a set of outcomes; `Fat32` takes entries
of a directory as values: a part of a long name, a short entry, unused, terminator, or junk of a
former life. The device below it does not fail. `Fat32Chains` takes the same volume and takes the
calls on chains apart: a step is one access to the table, and each may fail and change nothing.
In `Fat32Transfer` a file is its chain of clusters, and a step moves the bytes of a piece of a
sector, or of the sectors of a cluster.

## 3. The runs

| run | instance | what it shows |
|---|---|---|
| `KernelTree` | 4 processes, 1 thread each, 1 signal and one signal id out of range | the process tree (`FamilyOK`, `RootIsElder`); the only kernel errors are the three known ones (`KnownPanics`) |
| `KernelThreads` | 2 processes of 2 threads, 2 signals | each thread is in one place (`OnePlace`); an exit leaves nothing behind and the living keep their main thread (`DeadAreQuiet`); no signal is pending that is not allowed, or missed by a waiting thread (`PendingAllowed`, `NoMissedSignal`) |
| `KernelLive` | 1 process of 3 threads, sleeps, fair timer | no join is missed (`NoMissedJoin`), sleepers stay in order (`SleepersInOrder`), scheduled threads run (`EveryThreadRuns`), sleepers wake (`SleepersWake`) |
| `Mutex` | 3 threads, fair | `MutualExclusion`, `NoLostWakeup`, `WaitersAreWoken`; `Mutex` implements `Lock` |
| `Reaping` | 3 processes of 1 thread | no reaper sleeps while a child it wants is a zombie (`ReapersHear`) |
| `PipeSafe` | 2 processes of 2 threads, a pipe of 2 bytes | `WaitersHaveCause` with the counts of handles, `EndIsFinal` |
| `PipeLive` | 2 processes of 1 thread, fair, a pipe of 2 bytes, transfers of up to 3 | `CallsReturn`, `EndIsSeen`; `PipeUsers` implements `Channel` |
| `Plugins` | 2 processes of 2 threads; 2 semaphores of up to 2 passes, 2 futexes, a keyboard buffer of 4 bytes, 2 windows in 2 tiles with queues of 1 event, 2 nodes below the root | each plugin's counts and queues fit what the processes hold, and who waits has cause to: `PassesConserved`, `WaitersAreRight`, `FutexWaitersAreRight`, `KeysAreReadInOrder`, `WindowsAreRight`, `UsedNodesStay`, `WaitersAreAtTheEnd` |
| `Stores` | 2 processes in 6 pages with 10 free ones; a heap of 4 pages; ids below 5; 6 values; a clock of 4; a disk of 3 sectors in a cache of 2; a volume of 5 clusters in 2 sectors of the table, 3 entries a cluster, names of 1 and 2 parts; chains of up to 3 of 4 clusters with accesses that fail; all requests to a file of 16 bytes in 3 clusters of 2 sectors of 3 bytes | `FramesAreHeld`, `KernelKeepsRanges`, `HeapIsSound`, `IdsAreNotShared`, `TreeIsOrdered`, `SleepersAreOnTime`; the cache implements `BlockDevice` (`Transparent`) under failed writes; `VolumeIsSound`; the volume implements `FileTree` (`ImplementsTree`); whatever access fails, no cluster is in two files or queued as free while in use, and a resize is done or not (`ChainsSurviveFaults`), and the steps come to the operators of `FatTable` (`StepsAreOperators`); every byte in its place (`BytesInPlace`) |
| `KernelZombieSignal`, `CacheFault`, `SemaphoreExec` | small | three disagreements with the code's own words (section 5) |

`Plugins` and `Stores` check components side by side that do not meet: the state `part` names
the one that moves, and the others stay at their start.

**Bounds.** Ids are recycled, so behaviours are unbounded in length; only the numbers of
processes, threads and signals, the longest sleep, and the sizes of buffers, heaps and disks are
bounded. Four processes give a root, a parent, a child and a grandchild, so that a forced
exit climbs two levels while orphans are adopted, and two siblings, so that lists have
inner elements. Two threads a process put one in each of two queues while the other runs;
three allow two joiners with overlapping masks of one exiting thread. Two signals allow
overlapping masks. A mutex needs a holder, a waiter and a contender for the races between its
steps, and the theorems cover the rest. A pipe of two bytes in three cells meets every relation
of the two indices, with a transfer that wraps; transfers of three take several calls. A
plugin's two processes are one that forks and is reaped and one that goes on, and ids are used
again. A keyboard buffer of four bytes is overtaken by two keys. Six pages in tables of two have a table that is
covered by a range, one in part and one not at all, and ten free ones run out at every step of
a fork. The heap has room for blocks of every kind of neighbourhood and for lists longer than
the part that is searched. Six values make every shape in which a node with two children is
replaced. A file that ends inside of a sector of its third cluster has requests with and without a
piece at each end, in one, two and three clusters. Five clusters run out at each step of making a node in a directory that has to grow, and
suffice for one that succeeds. Three processes give a reaper two children whose exits meet in one signal.
A clock of four wraps in every behaviour; the theorem is about any clock.

**Deadlock** is checked in the kernel and mutex runs. In the pipe runs all processes may have
exited and been reaped, in `Plugins` all threads may wait for a key or each other, as programs
may, or the system may be down; the stores are only driven by their callers. In `Kernel` a system that is down stutters for ever (`LockedUp`), as
`lock_up()` does.

**Mutants.** Every property of every passing run is broken by some small change of the
model, written beside the definition it replaces (`Waits_FrontOnly`, `GiveBack_Not`, ...): a
forgotten queue, an off-by-one, a swapped order.

**Fairness.** In `Kernel`: a running handler goes on to its end (`WF(InKernel)`), and the
timer is strongly fair (`SF(Tick)`), as an interrupt that comes during a handler is latched
and taken when the handler returns. Nothing is assumed of user code. In `Mutex`: each
thread in a call or a critical section goes on (`WF(Proceed(t))`), which is what
`EveryThreadRuns` shows of the scheduler, and that critical sections end. In `PipeUsers`:
each thread goes on with its loop, strongly, since a handler of another thread that is
split into steps disables it meanwhile; nothing is assumed of closing, exiting and reaping.
No fairness between contenders is assumed, so a single contender may starve: the code has
no queue of turns, and the properties say what holds nevertheless. The plugins and stores have
safety properties only: that a waiter is woken by the step that ends its wait is an invariant
there, and whether that step comes is up to users, keys and other processes.

## 4. The proofs

| theorem | says |
|---|---|
| `KernelTypes` | `Spec => []TypeOK` |
| `FamilyInOrder` | `Spec => []FamilyOK` |
| `RootIsTheElder` | `Spec => []RootIsElder`, of finitely many processes |
| `SleepersAreInOrder` | `Spec => []SleepersInOrder` |
| `ThreadsAreInOnePlace` | `Spec => []OnePlace` |
| `TheDeadAreQuiet` | `Spec => []DeadAreQuiet` |
| `NoJoinIsMissed` | `Spec => []NoMissedJoin` |
| `NoSignalIsMissed` | `Spec => []NoMissedSignal` |
| `PendingIsAllowed` | `Spec => []PendingAllowed` |
| `OnlyKnownPanics` | `Spec => []KnownPanics` |
| `MutexExcludes` | `Spec => []MutualExclusion` |
| `UnlockAlwaysFindsLock` | `Spec => []UnlockFindsLock` |
| `WakeupsAreNotLost` | `Spec => []NoLostWakeup` |
| `MutexImplementsLock` | `Spec => ImplementsLock` |
| `SleepersWakeOnTime` | `TimedSpec => []SleepersAreOnTime` |
| `PassesAreConserved` | `Spec => [](PassesConserved /\ NoMoreThanMax)`, of `Semaphores` |
| `SemaphoreWaitersAreRight` | `Spec => [](WaitersAreRight /\ RefsKeepAlive /\ OthersUndisturbed)` |
| `CacheIsTransparent` | `CacheSpec => Transparent`, of `BlockCache` |
| `PipeWaitersHaveCause` | `Spec => []WaitersHaveCause`, of `PipeUsers` |
| `PipeEndIsFinal` | `Spec => []EndIsFinal`, of `PipeUsers` |
| `PipeImplementsChannel` | `Spec => ImplementsChannel`, of `PipeUsers` |
| `PassesStayConserved`, `WaitersStayRight` | `Spec => []PassesConserved`, `Spec => []WaitersAreRight`, of `Plugins` |
| `FutexWaitersStayRight` | `Spec => []FutexWaitersAreRight`, of `Plugins` |
| `KeysStayInOrder` | `Spec => []KeysAreReadInOrder`, of `Plugins` |
| `WindowsStayRight` | `Spec => []WindowsAreRight`, of `Plugins` |
| `UsedNodesAreKept` | `Spec => []UsedNodesStay`, of `Plugins` |
| `WaitersStayAtTheEnd` | `Spec => []WaitersAreAtTheEnd`, of `Plugins`, when no two threads use one file handle at a time |
| `ReapersAreHeard`, `SingleReapersAreHeard` | `ReapersSpec /\ []OneReaper => []ReapersHear`, and so for processes of one thread |
| `IdsStayApart` | `IdSpec => []IdsAreNotShared`, of `IdTable` |
| `FramesStayHeld` | `MemSpec => []FramesAreHeld`, of `SharedMemory` |
| `KernelRangesAreKept` | `MemSpec => KernelKeepsRanges`, of `SharedMemory`: what the kernel holds, even once, only the kernel lets go |
| `BytesGoToTheirPlaces` | `TransferSpec => []BytesInPlace`, of `Fat32Transfer` |
| `TreeStaysOrdered` | `TreeSpec => []TreeIsOrdered`, of `SearchTree` |
| `ChainsStayWhole` | `ChainsSpec => []ChainsSurviveFaults`, of `Fat32Chains` |
| `StepsComeToOperators` | `ChainsSpec => []StepsAreOperators`, of `Fat32Chains` |
| `HeapStaysSound` | `HeapSpec => []HeapIsSound`, of `SimpleHeap` |

They hold for every value of the constants that satisfies the assumptions of the modules. In
`Kernel`, `Mutex` and `Reapers`: any sets of processes, threads and signals, finite or not (only
`RootIsTheElder` counts processes, at most `FC_CORE_MAX_PROCS` in the code), with a root, a signal for the
exit of a child, and a name for nobody that is no thread. The clock has any
width of at least one, and the ids any maximum and start above zero (`new_id_table` refuses a
maximum of zero). The pipe's need `PipeConstants`, `UsersConstants` and a finite set of processes,
whose handles are counted; the plugins' need that the tables of processes and of handles are finite,
as they have fixed sizes in the code, that there is a root process, that the keyboard buffer holds
a pair of bytes, and that the grid has a tile and a queue of events a place. The cache's need that the
number of sectors is one, that writes to the device may fail and reads and `mp_put` do not (with a
failed read it is false, see section 5), and that `"none"` is no content. Those about pages need
finitely many spaces, the kernel's, the template's and the image's apart from the processes' and from each other, some
pages to share, and tables of more than one entry (1024 in the code); how many pages are free after the boot is left open. The
transfers' needs that sectors, clusters and the counter of sectors are not of size zero. The search
tree's values are any set of numbers above zero, which stands for the absent node (`TreeAssumption`). The heap's
need a page that has room for two tags and a free block; the cutoff and the search limits are any numbers.

Two theorems have a hypothesis on programs, without which they are false. `WaitersStayAtTheEnd`
needs `~Sharing`: a thread that moves the position of a handle under another that waits with it
leaves that one with something to read. `ReapersAreHeard` needs that at most one thread of a process is in
`sc_proc_reap_single` at a time (`OneReaper`); section 5 says what two do to each other.

**Kernel.** Neither the types nor the tree is inductive alone. The signal that ends an exit
goes to `parent[p]`, which is a process and not `NULL` only when the tree is in order; and
the tree is in order in the middle of a recursion only under conditions on what is still
to be called. The inductive invariant `IInv` adds to `TypeOK` and `FamilyOK`:

- `CallsOK`: whoever a pending call is about has not been freed; a process about to be
  buried has abandoned its children already and is not the root; one about to be reset is
  alive.
- `ResetAlone`: while an exec waits for the root to take a signal, nothing but the root's
  own exit can come between. Otherwise a process could be reset after it was buried.
- `HeldLive`: a thread in the schedule or in a wait queue belongs to a process that is
  alive and not about to be buried. So the caller of a system call is alive, and its
  children may be entered in its lists.
- `Sorted(sleepQ)`: the tick takes one tick from every sleeper behind the first that is not
  due; no remaining time falls below zero only if they are in order.

`RootIsElder` follows from an invariant that counts nothing, `Rooted`: a non-empty set of processes
that has the parents of its members other than the root has the root in it. A fork, an adoption
and a reap keep it, and the elders of a process are such a set (`EldersAreUp`), since they grow at
most as often as there are processes.

There is one lemma per action, a lemma `Inductive` that puts them together, and
`QueueLemmas` with what `Drop`, `PopAt` and `PushAt` do to the elements, the order and the
types of a sequence. `Drop` is a recursive function; its facts are proved by induction on
a witness, the order-preserving map from the kept elements to their old places.

**Threads.** `IInv` is strengthened by `ThreadInv`, which holds in the middle of
handlers, where `NoMissedSignal`, `PendingAllowed` and the last part of `DeadAreQuiet` do not:

- `Placed`: the five kinds of list hold each thread once, the queues of a process its own
  threads only, and a thread is in the list its state names and in no other. A wake-up moves
  the threads that a queue gives up, so it must be known that no other list has them.
- `JoinsHeard`: nobody waits for an exited thread. A thread id that is used again was reaped,
  and the joiners of an exit are gone before anybody else can join.
- `SignalsHeard`: a signal that is pending while it is not allowed, or waited for, has left a
  call of an exit in the handler, which is not done before that process is buried.
- `MainsLive`: the main thread of a living process is scheduled or waits, unless the process
  is about to be buried; so the exit of a main thread is always that of its process.

`KnownPanics` needs the tree only: a burial finds its process among the living children of its
parent unless it is a zombie (`ListsMatch`, `CallsOK`), a reap always finds its zombie, and no
handler sends a signal id out of range but the call that was given one.

**Mutex.** The invariant ties the word to the places of the threads: a held lock is never
`UNLOCKED`, a thread that has failed the fast unlock has seen `CONTENDED`, which nobody but
the holder takes away, and every thread in the queue is blocked. The refinement maps the
owner to the thread between the two compare-and-swaps.

**Timed queue.** The inductive invariant is `SleepersAreOnTime` with the types: that the distance
from the time to each wake-up time is what its thread has still to wait makes the order of the
queue, the point where a new pair goes and the number that is due statements about those waits,
where nothing wraps. Lemma `Distances` has the arithmetic modulo the width of the clock.

**Semaphores.** What a semaphore lends and what its processes refer to change together with who
waits, so the invariant `SemInv` has all of it at once: `PassesConserved` (what is left and what is
lent add up to what it was made with), `NoMoreThanMax`, `WaitersAreRight`, `RefsKeepAlive`,
`OthersUndisturbed`, and three facts that are needed for the step: threads that wait are threads of
living processes, so a fork or a spawn makes none of them anew; a queue has each thread once, so that
to wake its front is to wake one; and the types. `QueueLemmas` has what `Drop` does to a queue.

**Cached disk.** The abstract disk is what a read would find, in the entry a sector is mapped to or
else on the disk. The invariant is that the map and the entries agree: a mapped sector has an entry of
its own, in use, that names it. So the sector written by an eviction is the one that was mapped to the
entry, and nothing that can be read changes.

**Pipe.** The counts of handles move by one where a set of holders moves by one, so what is proved
first is that they are the sizes of these sets, whoever forks, dies or is reaped. The invariant
`PipeInv` adds what that needs: a handle about to be deleted is still held and is deleted once, a
free process holds none but such handles (so what a child inherits is new), only living processes
have threads, and the indices stay in the buffer. An index moves only with a byte, and then all that
waited for it have been woken, which gives `WaitersHaveCause`; an end that was announced as gone has
no holders, and a fork can only copy from a holder, which gives `EndIsFinal`.

For the refinement the abstract buffer is the content of the cyclic one, from the read index on:
its length is `Occupied`, and its i-th byte is in the cell i places on (`CellIs`, `ContentIs`). The
invariant adds that the cells hold bytes. A write then appends what it was given to the content, a
read takes its front (`WriteIs`, `ReadGets`), whether they wrap or not, and every other step leaves
content and ends as they are or closes an end: `StepMaps` takes each step to one of `Channel` or to
a stutter.

**Reaping.** `ReaperInv` says in the middle of handlers what `ReapersHear` says between them: while a
thread of a process is about to wait, or waits, either none of the children it wants is a
zombie or its process has been told, by a pending `FSIG_CHLD` or by a call of the handler that will
send it (`ZombiesTold`); and who is in a signal queue is in the loop and has
the mask of the loop (`LoopsListen`). The two are kept by whatever makes zombies only together with such a
call and takes what was told only from one that will look again (`Tells`), which is shown for each step
of `Kernel`. That the step is one of `Kernel` gives `OnePlace` and the tree for free.

**Futexes.** The invariant of the maps is `FutexWaitersAreRight` with `MapsFollowProcesses` (a process
that is not free has a map, and only such a one), that only living processes have threads,
and that a queue has a thread once. A futex that goes away wakes all that wait for it, and a process
that goes takes its queues and its threads at once.

**Keyboard.** Two invariants that do not need each other. `BufInv` is about the bytes: `Behind(i)` counts
how many bytes a position is behind the writer, and whatever a handle has not read yet is
what was typed that many keys ago (`NewestAreGood`). A key event that overtakes a handle puts it on
the oldest byte that is left, so the next read is consecutive from there (`TwoTyped`); a read, in
pieces around the end of the buffer, moves the position by what it has copied (`BytesRead`).
`KbInv` is about the waiters, of programs that do not close a handle under one: who waits is in the
queue, and its handle is at the writer.

**Files.** `Counted` says that the count of a node is the number of the processes that work in it and
of the handles on it, which is what its key lives by; `QueuesRight` that a thread is in one queue, of a file.
Closing several handles at once takes from each count as many as were on the node (`Closing`), and a
fork adds as many as were inherited. From these follow `UsedNodesStay` (what is used is in the
tree, so a removal is refused) and, with what a wait saw, `WaitersAreAtTheEnd`.

**Windows.** `AtRest` is what holds of the grid between calls: a window is in the grid exactly while it
is active, each tile shows its window as focused, hidden or sized as it was told last, and a window
that is not gone has a handle or a tile. A move of the focus, a switch to a single window and
back, or a closing passes through states in which tiles have not been told yet; lemmas on `Tells`,
`Keeps` and `ShownIn` say which tiles each part settles, and the parts add up to `AtRest` again.
`WinInv` ties the counts of windows to their open handles and every waiter to an active window with no
event, for programs that close no handle under a waiting thread. Below that is `DeskInv`, which holds for all programs.

**Composition.** `Plugins` drives one part of its state at a time; each theorem about it is the
invariant of the part under the condition that `part` names it, so that a step of another part changes nothing. For
the semaphores the theorems of `SemaphoreProofs` are taken over through `INSTANCE`.

**Id tables.** No variable holds the order of a list, only its links do. The invariant `IdInv` says that
there is a sequence for each list (`ListOf`): one of all ids that are held and one of all others, without
repetition, along which next and prev point. Cutting an entry out, putting one before a head and growing are
operations on these sequences (`ListCut`, `ListPut`, `ListGrows`), and a move leaves the other list
alone (`ListMove`). The pass over a list is a recursive function; it has the sequence as its
one solution (`VisitedIs`), and so ends after as many steps as there are ids.

**Search tree.** No variable says which values lie below a node either. `TreeInv` says that every node has two
bounds (`Shape`): the values below it are between them; its left child has its lower bound and itself for
bounds, its right child itself and its upper one; and where a link is empty nobody is in the gap. A
bound is a node further up, with wider bounds, so a new value falls into one gap only, the one `Spot` ends at
(`LeftGap`, `RightGap`). A node with nothing on its right is replaced by its left child (`BypassKeeps`), another by
the leftmost node on its right (`ReplaceKeeps`). Each walk goes to nodes that have fewer nodes
on one side, so it ends within as many steps as there are nodes (`WalkEnds`). Of a pass the invariant
says that it has still to see what is from its place on, which a removal of the node
before that place leaves alone.

**Heap.** No variable says where the blocks begin: whoever reads a tag must know that one is there. The
invariant `HeapInv` says that there are a set of positions and a subset of it, the free ones, such that the tags at both
ends of the way from each position to the next say how long it is and whether it is free (`Tiling`),
that the lists hold the free ones by size (`Listing`), that no two of these are neighbours (`Apart`), and that the others are
what the users hold (`Owned`). Setting the tags of one block takes positions away or adds one (`MergeKeeps`,
`CutKeeps`, `RaiseKeeps`); all calls are made of that and of moves between the lists, and in between a block may be in
no list (`Merging`, `Growth`). A merge leaves no free neighbours since there were none before
(`CoalescedOK`). For NULL the searches are added up: a list was searched to its end at first or at last,
and in between only the new block was added, which does not do (`AllSearched`). The walk over the tags is a recursive
function whose values are the positions (`BlocksAre`). That pages make up the heap matters once: what `request_mem` gives in
part is nothing or has room for two tags and a free block (`GrantIs`).

**Pages and shared ranges.** A memory is `Sound` when entries are in tables and tables in directories, and
its `Frames` are the free pages and those in use; `Keeps(m, n, s)` says that a call goes from m to n with as many frames, and
touches the space s only. There is a lemma for each call: what it adds to the three counts of pages in use it takes
from the free list (`CountsMove`), whichever error stops it. An allocation, a copy and the hook of a process
that goes are recursive functions of bounded length; `Rounds` gives one its results from a relation that
holds at the start and is kept by a round. The cleanup of a failed copy takes back what was copied (`CleanedUp`), as
the shared pages in it are the kernel's and stay there. `Good` says of the ranges that they are disjoint and
that the entries are what the holders say: the kernel has every page of a range, a process those of the ranges with its
bit, and neither has another above `SharedStart`. So a new range lies where nothing is, which is why its
allocation never finds a page that is there already. In the middle of a call a range may have no holder, and
`Outcome` says what is left when it was collected or not. The invariant `MemInv` adds
that each range is held between calls, that the holders exist, that exactly the processes that are not free have
a directory, and that the template has no page that could be shared: so an exec starts without any.
For `KernelRangesAreKept` each action shows, beside that, `HeldRangesStay`: processes only change bits (`AfterRef`,
`HookIs`, `InheritedIs`) or add ranges (`MoreKept`), so that a range the kernel holds even once is found again with
its count (`Kept`), through any number of ranges collected in one hook; a release changes its own range
alone, and lets it go only when nobody is left (`AfterKernel`).

**Transfers.** Between accesses, what was moved is exactly a beginning of the request, as long as `processed` and
`sectors` say (`TransferInv`), and what remains begins with a sector. `SpanIs` says that an access that
stays in a cluster moves the bytes of the file it should; that each does is arithmetic on quotients by
sizes that are no numbers (`Quotient`). A round either fills its cluster, or ends, or its count was cut to a byte: then
what is left is a multiple of 256 from there on, the counts are zero and nothing more is moved (`Stuck`), so
the call is refused in the end, but has moved nothing wrongly.

**Chains.** The table of a volume is a forest (`Forest`): besides the chains of the files there are
those the running call has to itself (`Loose`), the segment that grows, the slot that is to join it, or
the rest that is freed; each runs along the links to an end mark, and no slot is in two. So each access is one of
four changes to a forest: a free slot becomes a chain, a chain is put behind another, is cut in two, or loses its first
slot; whatever fails leaves a forest too, with loose ends that are then nobody's. The invariant `ChainInv` adds
what the call has reached (`WalkOK`, `CutOK`, `GrowOK`), that files it is not about are as they were, and that
the file that is resized is as it was until the one write that joins or cuts (`ResizeOK`). `ChainOf` is
a recursive function; what runs along the links is its value (`ChainIs`), as a chain without repetition is no longer than the
table, and that an empty queue is filled with free slots is shown in the same way.

That the steps come to the operators (`StepsComeToOperators`) needs, besides, that the call is on the way there
as long as no access fails (`OnTheWay`): in a walk the volume is as it was; while the call takes slots, the
volume and the segment are in the set that `Segments`, the loop of `fat32_new_chain`, has come to after as many rounds
as the segment has slots, up to the queue, which a step of its own may have filled (`Refilled`); and while it
frees, freeing the rest at once would lead to a result of the operator (`ComesTo`). A round of the loop is then
one to three steps, a slot that is freed leaves the result as it is (`FreesFirst`), and a loop that has
found no slot stays where it is (`StaysFull`).

**Only model-checked.** Liveness (`EveryThreadRuns`, `SleepersWake`, `WaitersAreWoken`,
`CallsReturn`, `EndIsSeen`), which the prover does not do;
the directories of a volume (`VolumeIsSound`) and that they make a tree (`ImplementsTree`). Each invariant of the
proofs was first checked by TLC.

## 5. Where the code and its documentation disagree

With a run:

- `KernelZombieSignal`: a zombie can be signalled. If it does not allow the signal it is made to
  exit again, is not found among its parent's living children and the system stops; the code
  calls this "something very wrong" (`state.c:372`).
- `CacheFault`: a miss enters the sector in the map before it reads it. When that read fails the
  entry stays, and later answers for the sector with what it held before, and writes that to the
  disk (`cached_block_device.c:260`).
- `SemaphoreExec`: an exec frees the queues of semaphores only its process uses while other
  threads of the process are in them (`plugin_shm.c:767`), and then removes these threads from
  the freed queues.

Observations without a run:

- `sc_proc_reap_single` is to block "until a single process is reaped" (`syscall.h:99`). If two
  threads of a process are in it for different children, the exit of one child may wake the thread
  that wants the other: it finds nothing and waits again, and the reaper of the first sleeps on
  (`syscall.c:40`). TLC finds that when the run `Reaping` is given `Tids = {0, 1}`. Also, a
  thread that has reaped clears the signal of a child that another is about to wait for (line 29).
- A signal id of 32 or more is to be an error for the caller (`syscall.h:133`); it is a
  kernel error and stops the system (`state.c:625`; in `KnownPanics`).
- A failing exec is to leave the caller as it was (`syscall.h:124`); an exec of the root
  while it has children stops the system (`state.c:608`; in `KnownPanics`).
- An unlock is to wake a single thread (`mutex.h:59`); it wakes them all (`mutex.c:53`), and has
  to: with a single one, `NoLostWakeup` fails.
- A new graphics window when every tile is taken reads the banks of a manager that was not
  fetched (`plugin_gfx.c:1158`); `Windows` goes down there (`NoTileLeft`).
- That a window without references has "no threads in the wait queue" (`plugin_gfx.c:377` and
  729) is not so for a program that closes a window's only handle in one thread while another waits with
  it: the handle's deletion does not look at the queue (lines 454 and 790). When such a window is then
  deregistered it is deleted with its waiters not woken. `WindowsAreRight` excludes these programs (`misused`).
- When a shared range cannot be had, `plg_shm_new_shm` does not write its result
  (`plugin_shm.c:123`), and `new_window_gfx_gm` tests, and releases, a bank that it never set
  (`plugin_gfx.c:605`). Allocations of windows do not fail in `Windows`.
- A flush whose new map cannot be allocated leaves the cache without a map, which the next call
  follows (`cached_block_device.c:373`). The allocation is not among the faults of `BlockCache`.
- The entry of a failed `mp_put` in the cache names a sector it does not hold
  (`cached_block_device.c:255`).
- What is left of a transfer is counted in a byte, so that one of 256 sectors or more goes through
  the chain without moving the rest and is refused as out of the file's range (`fat32.c:865`;
  `file_sys.h:379`). The file system plugin asks for at most four; `Fat32Transfer` shows it with
  `SectorsPerCluster = 128`, `SectorSize = 1` and a request of 256 bytes.
- The free queue is filled without the offset of the volume on its device (`fat32.c:565`).
- A new chain whose taking or linking of a slot fails is not given back (`fat32.c:660`), unlike one
  that runs out of space; the clusters stay marked as used. `ChainsSurviveFaults` says that none
  is shared.
- `ks_tick` ignores the error of `twq_notify` (`state.c:141`), which may have lost the thread it
  was moving (`wait_queue.c:433`).
- `ks_sleep_thread` returns a lack of memory as a kernel error, where `state.h:383` has it an
  error of the caller.
- A request for memory at the very end of the region is answered without the end being written
  that the heap then reads (`state.c:839`, `simple_heap.c:296`).
- `hs_close` reads `hs->proc` after the handle state was freed (harmless with this heap, whose
  list pointers do not reach that field), and `handle.h:89` says that handles are deleted before
  the other resources of a process, while `delete_process` deletes them last.

## 6. Plan

1. *FAT32 directories* and the synchronisation of the table's copies, with a device that fails.
2. *Allocation failures* inside the kernel calls of `Kernel`.
3. *Proofs:* the volume (`VolumeIsSound`, `ImplementsTree`).

Not to be modelled: what section 1 lists at its end, failures that only return an error without
having changed anything, drawing, and the contents of results.
