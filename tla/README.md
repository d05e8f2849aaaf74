# Specifications of the operating-systems projects

The repository holds four independent programs: a web server (HW1), a user-level
thread package (HW2), a memory manager (HW3) and an inode file system (HW4).
These modules model the parts of them that have a behaviour worth checking, the
configurations check small instances with TLC, and the `*Proofs` modules prove
every safety property and refinement for every value of the constants with TLAPS.

Everything is written from the code. Where a comment promises something else,
the module follows the code, and a run may show the difference.

## Inventory

### HW1: the web server

| Part | State | Operations |
|---|---|---|
| accept loop, `server_fork.c` | `done` | `server_fork()`, the SIGTERM handler |
| thread pool, `thread_pool.c` | `queue_lock`, `queue_not_empty`, `queue_size`, `finish` | `start_threads()`, `put_request()`, `consumer()`, `finish_threads()` |
| request list, `ll_double.c` | `head`, `tail`, `prev`, `next` | `ll_insert_head()`, `ll_remove_tail()` |
| client service, `clients_common.c` | `struct client` | `read_request()`, `switch_state()`, `write_reply()`, `flush_buffer()`, `finish_client()` |
| event-driven server, `clients_statemachine.c`, `server_statemachine.c` | list of clients, each with its state | `insert_client()`, `remove_client()`, `handle_client()`, the `select()` loop |

The main thread accepts a connection, makes a client and puts a request for it
into the list under `queue_lock`. Sixteen consumers wait on `queue_not_empty`,
take the oldest request, serve it without the lock and free it. SIGTERM sets
`done`; then `finish_threads()` sets `finish`, wakes everybody and joins. The
Makefile builds this program; the event-driven server shares the client code and
is the other half of the assignment, with `server_statemachine.c` left out of the
Makefile.

Hard: every interleaving of pthread calls, spurious wakeups, a signal at any
point, reads and writes cut anywhere, peers that leave, and a list that serves
several threads. Correct means: critical sections exclude each other, counter
and list agree, each request is served once and eventually, in order; a client
counted as served received the whole reply, as far as its file could be read; and
a client that failed has its socket closed.

### HW2: user-level threads

| Part | State | Operations |
|---|---|---|
| threads, `threads.c` | `thread_context[]`, `current_thread_context`, the timer | `thread_init/create/yield/exit/join`, SIGUSR1 and SIGALRM handlers |
| synchronization, `synchronization.c` | spin locks, list of waiters | `thread_mutex_lock/unlock`, `thread_cond_wait/signal/broadcast` |
| list of waiters, `ll_double.c` | `head`, `tail`, `prev`, `next` | `ll_insert_tail()`, `ll_remove_head()` |
| programs, `producer-consumer*.c` | `queue_size` | threads that lock, wait, signal, yield |

One processor, switched by `setjmp()` and `longjmp()`. SIGALRM preempts anywhere,
inside the library as well, which has no protection of its own. Correct means:
each thread goes on with its own context, locks exclude and their holders run on,
the list of waiters survives an interruption between any two stores, a join waits,
a signal wakes a waiter.

### HW3: memory

| Part | State | Operations |
|---|---|---|
| frame allocator, `frame.c` | `bitmap`, two counters | `frame_init()`, `allocate_frame()`, `deallocate_frame()` |
| page tables, `translation.c` | `table_root` | `vm_map()`, `vm_unmap()`, `vm_find()`, ... |
| kernel allocator, `kmalloc.c` | list of blocks | `kmalloc()`, `kfree()`, `krealloc()` |

Page tables take frames one at a time; the page allocator takes runs. Correct
means: no frame is held twice, and the counters agree with the bitmap.

### HW4: the file system

| Part | State | Operations |
|---|---|---|
| block device, `storage.c` | the blocks | `storage_read_block()`, `storage_write_block()` |
| bitmap, `bitmap.c` | the block after the inodes | `bitmap_allocate_block()`, `bitmap_deallocate_block()` |
| files, `files.c` | inode table, pointer blocks | `format()`, `ifile_create()`, `ifile_write()`, `ifile_grow()`, `ifile_read()` |

Sequential, in memory. Hard: block boundaries, full disks, operations that fail
in the middle. Correct means: no block has two owners, what is in use is set in
the bitmap, file bytes stay off the metadata, and reads return what was written.

## Modules

`MC*` modules hold the model values and symmetry sets of TLC's instances, and
nothing of the program. Definitions marked *Variant* are plausible mistakes in
the definition after them; a configuration does not use them, they serve to see
each property fail.

### ThreadPool

One action per pthread call or access to shared memory. `pc[c]` is the line
consumer `c` executes next (`consumer()`, lines 42-73), `pc[Main]` the one of the
main thread in `server_fork()`, `put_request()` and `finish_threads()`. Requests
are numbered in the order of arrival, and a list node carries its request's
number. `broken` is a history variable: `consumer()` returns to line 47 after it
released the mutex at line 55, so that `pthread_cond_wait()` may be called
without it. That call is undefined; the model lets it release the mutex
under whoever holds it, or leave it alone. The `pthread_join()` of null
identifiers in `finish_threads()` is undefined as well: it crashes or returns.

The constants `Paced` and `SpuriousWakeups` describe the environment. `Paced`
lets one thing happen at a time: a connection arrives when every thread is at rest
and a consumer waits, and a reply ends when every thread is at rest (`Settled`).
Replies still overlap.

### RequestQueue and PoolQueue

`RequestQueue` is the abstract queue: requests are put, taken in the order of
arrival by a thread that serves nothing else, and finished. `PoolQueue` maps the
pool to it: `Waiting` follows the `prev` pointers from the tail, `serving` is the
consumers' local variable `request`, and a request has arrived once it is linked.
`ServedInOrder` says that the pool's steps are the queue's, as long as the mutex
is respected and no more than two requests ever waited.

### ClientService

One client from `make_client()` to `free()`. The reply is a stream of numbered
bytes, header first; `base` is the place of the buffer's first byte in it, and
`received` is what the peer got. Each `read()` and `write()` takes any length, or
fails, and a peer may leave at any time. An `fread()` of the file returns what is
left, up to a buffer (`ReadFile`), or fails after fewer bytes (`ReadFileFails`: EIO,
or EISDIR for the name of a directory, which `access()` and `fopen()` let pass); the
code takes that for the end of the file and counts the client as served. `readable`
is a history variable: how many bytes of the file can be read, all of them until a
read fails.

### Reply

What both servers owe a client: a page or a notice (403, 404), delivered bit by bit
and called sent when whole, or a failure, and nothing after the end. A read of the
file that fails cuts the page where it fails (`Cut`), once, and the rest of the page
is what is owed from then on. ClientService
implements it with `status` and `pc`; EventClients does so once for every client
(`ReplyOf(c)`), with the fields of `struct client`. An invalid header, which the
event-driven server finishes and then answers into a closed socket, is a failure.

The pool and the service are composed through these: `Serve` of ThreadPool is the
end of a reply, one step, because `client_reply` shows that serving is a Reply
and that it ends.

### EventClients

The same client as a state machine, many at a time: the list and handlers of
`clients_statemachine.c` in the loop of `server_statemachine.c`. A round tests
`done`, accepts at most one connection, goes over the list handling any of the
clients, and removes the finished ones one by one. SIGTERM comes at any point,
also between the test and `select()`. What `select()` reports is free. Reads of the
file fail as in ClientService, with `readable` for each client.

### Threads

`running` is the thread whose stack the processor is on, `current` is
`current_thread_context`: they differ in the middle of `thread_join()` and
`thread_exit()`. `buffer` holds the contexts saved by `setjmp()`. `Preempt`,
the SIGALRM handler, is a yield between any two steps once the timer runs. Only
the main thread creates and joins, as in the two programs. `thread_context[i].number`
is never assigned, so `NumberOf(i)` is 0 for all. The model stops in "mixed",
"undefined" or "exit": after the first two the C program has no behaviour
to model.

Every thread may take a turn of any of the four loops of the programs, and there
are producers that broadcast, which no program does. `queue_size++` and
`queue_size--` are a load (`Load`, into `loaded`) and a store, since the build does
not optimise. `stock` is a history variable: what was produced and not consumed.
A `thread_cond_wait()` whose yield finds no active worker returns at once, and
the waiter stays in the list; `WaitTest` is what keeps `queue_size` from going below
zero.

The list of waiters is that of `LinkedList`, with its pointers; a node's datum is a
pointer to the number of a thread. SIGALRM comes between any two of its stores.
`ll_insert_tail()` is `WaitQueue` (the new node, in a thread's hands), `WaitLink`,
`WaitTail` and `WaitHead`; `ll_remove_head()` is `SignalRemove` or `BroadcastRemove`,
`RemoveHead` and `RemoveCut`; making the thread active is `SignalActive` or
`BroadcastActive`. `node` is the local variable that holds the node. A node that was
removed is never freed nor read again, so the model forgets its fields and may hand
it out as a new one. `HalfLinked` names the points between the first store and the
last. The thread that is there holds the list's own mutex, so no other thread walks
the half-linked list; `WaitersInOrder` says that a walk from the head finds the
waiters in order even then, and that the list is well linked otherwise.

`HolderRuns` says where the holder of a mutex can lose the processor for good:
between lines 52 and 54 of `thread_cond_wait()`, blocked and with the mutex locked.
Everywhere else the scan, which starts at the lowest worker every time, comes back to
the thread that was preempted, as long as no worker exits.

### LinkedList

`ll_init()`, `ll_insert_tail()` and `ll_remove_head()` of `ll_double.c` on a record of
the two ends and the fields of each node, one operator for each store that another
thread can see (`NewTail`, `LinkTail`, `SetTail`, `SetHead`; `MoveHead`, `CutHead`).
The fields of a node that is not linked yet are set at once. `Contents` and `WellLinked`
say what a list holds and when its pointers agree.

### Frames

`frame.c`, one action per function. `live` and `singles` are history variables:
which runs callers hold, and whether every call so far asked for one frame.
Counters are computed modulo `Word`. Callers give back runs they hold, whole.

### FileSystem and FileStore

One action per function of `files.c`, with everything it calls. A block is seen
through its role: `inode`, `bitmap`, `pointers` or `data`. `state` leaves
"running" when the program indexes past a pointer block, follows a pointer block
that is not on the disk, or writes file bytes over metadata. `Allocations(n)` is
what `n` successive calls of `bitmap_allocate_block()` return. `ifile_write()`
puts back the inode block that `bitmap_deallocate_block()` overwrites, so an
undone growth changes neither. `BytesRead` is what a read returns: a block that is
not on the disk leaves the local block as the last one read has left it, or
uninitialized. `CarefulCallers` fill neither the disk
nor a file.

`FileStore` is the abstract specification: numbered files that keep the bytes
written to them. `FileView` in FileSystem is the refinement mapping.

## Runs

| Run | Bounds | Shows |
|---|---|---|
| `pool_safety` | 3 consumers, 4 requests | exclusion, `OnlyUnownedWait`, counter, list, each request served once, none taken after `finish`, refinement of RequestQueue while two wait, until `broken` |
| `pool_paced` | 3 consumers, 4 requests, fair | paced connections, with replies that overlap, reach no undefined state and are all served |
| `pool_served` | 2 consumers, 2 requests, fair | *violated*: otherwise a consumer may lock `queue_lock` twice, and everybody waits |
| `client_reply` | buffer 3, header 2, request to 5, file to 7, fair | order, completeness as far as the file can be read, termination, refinement of Reply, a failed client's socket and an answered one's file closed |
| `event_rounds` | 3 clients, buffer 2, header 1 | list whole, removal before the next round, counters in step with the peer, right count, a Reply for each client |
| `threads_switch` | 4 threads, 3 waiters, 2 in the queue | exclusion, `queue_size` exact and never negative, waiters first in, first out, broadcasts complete, also where the list is half linked; until a worker exits own contexts, and holders of a mutex that run on but for one place |
| `threads_join` | the same | *violated*: `thread_join()` returns with no thread finished |
| `frames_runs` | 6 frames, runs to 3, words of 16 | first frames apart, counters balanced, single frames exact |
| `frames_overlap` | the same | *violated*: frames of one run are given to another |
| `files_full` | 6 blocks, 7 bits, 3 files | no sharing, in use is set, metadata safe, also past a full disk |
| `files_careful` | 7 blocks, 2 files of up to 3 blocks, 2 values | refinement of FileStore, nothing undefined, blocks lost only by creating an inode again |
| `files_metadata` | 6 blocks, 8 bits, 3 files | *violated*: after a failed growth file bytes go over the inodes |

Why the bounds are enough:

- *Pool.* Two consumers and the main thread suffice for each race between a
  waiter, a signaller and a thread that steals the request; the third consumer
  makes a waiter that is neither. Three requests make a list with a middle, the
  shortest that `ll_remove_tail()` damages; the fourth lets a list of two fill
  again after it was emptied. Consumers are symmetric, and the
  symmetry is used in the safety run only.
- *Clients.* A header of two bytes in a buffer of three gives partial writes of
  a header and of a file part; files from 0 to 7 bytes are empty, shorter than
  the buffer, an exact multiple, and more than two buffers, and a read may fail before
  any byte of them. Requests of up to 5 bytes
  fit, fill the buffer, or do not fit.
- *Event clients.* Three clients make first, middle and last of a list. Requests
  fit or do not; the file has exactly one buffer, so that its end is found by
  a read of nothing.
- *Threads.* Thread 0, the lowest worker, which the scan always finds first, and
  two others behind it. The list of waiters is bounded at three (`MaxWaits`), which makes
  nodes in the middle, and insertions and removals of a first, a last and an only one;
  a full list only keeps a further waiter from going on. A
  queue of up to two (`MaxQueue`) is empty, has one, or has more than one.
- *Frames.* Six frames hold two runs of three; with words of 16 the counters wrap.
- *Files.* Two bytes per block and three entries: first, middle and last block
  of a file, and operations of up to 4 bytes that touch all three. Five blocks for
  two files leave room to create one of them again. One bit more than blocks is a block past the disk.

`CHECK_DEADLOCK FALSE` stands where the system may stop: a server that ended or
blocked, a freed client, an ended program, or a file system whose `state` is not
"running".

`pool_safety` has the constraint `MutexRespected`: states after `broken` are
checked, those after them are not, as the safety properties say nothing of them.
The type invariant is proved for all.

### Fairness

`pool_*`: weak fairness of the main thread and of each consumer: the kernel runs
every thread that can run. A blocked thread has no enabled step, and nothing is
assumed of signals, spurious wakeups or new connections beyond the main thread's
`accept()`. Serving a request is one step that ends, which `client_reply` shows. In the paced
run a reply ends when the threads are at rest, which is an assumption on
when peers act, as is the arrival of connections.
`client_reply`: weak fairness of the whole: a `read()` or `write()` returns, since
peers send, receive or leave. No timeout in the code enforces that, so a silent
peer keeps its consumer; no property covers it. The other runs have safety
properties only. HW2 promises no progress, and its scan starves high workers.

## What the runs found

Each violated property quotes a comment of the code.

- *`EveryRequestServed`*, `thread_pool.c:45`: a consumer that finds
  `queue_size > 0` at line 47 skips the loop, goes round, and locks the mutex it holds.
- *`MetadataIntact`*, `files.c:112`: `ifile_grow()` returns 0 after a failure, the
  size is set all the same, and the file's entries of 0 name the inode table.
- *`JoinWaits`*, `threads.c:114`: numbers are never assigned, so thread 0 joins itself.
- *`NoOverlap`*, `frame.c:49`: the loop over `j` sets bit `i` each time.

Also read in the code, and in the models as they are, without a run of their own:
`ll_remove_tail()` loses newer requests when three wait (`ListIntact` and
`ServedInOrder` are for two); a consumer between line 44 and its wait misses the
broadcast of `finish_threads()` and waits for ever, which the end of the process hides;
`start_threads()` keeps the identifiers that `finish_threads()` would join in a
local variable; `read_request()` may fill the buffer to its last byte
(`clients_common.c:67`); `finish_client()` is unreachable after an answer, although
the comment of `clients_common.c:150-151` says to close the file and call it: the
socket of an answered client stays open (`CloseFile` and `NoFile` leave it, and
`Released` claims nothing of it), and so does the file of one that failed while it was
sent; a failed `fread()` is taken for the end of the file (`clients_common.c:164`,
`clients_statemachine.c:173`), and the cut reply is counted as served; a thread
preempted after `synchronization.c:52` keeps both mutexes for ever; the allocator hands out blocks past the disk
(`bitmap.c:38`); `ifile_create()` compares an inode number with a number of blocks
(`files.c:63`); a file of the largest size overruns its pointer block
(`files.c:110`); a signal makes thread 0 active instead of the waiter
(`synchronization.c:65`); `deallocate_frame()` always returns -1 (`frame.c:72`), and
`frames_available` wraps when frames are given away twice.

## Proofs

Every invariant, action property and refinement that a passing run checks is a
theorem, for every value of the constants that its module's assumption admits:
the constants are of their kinds, `None` and `Main` are nobody else, sizes are
positive, a header fits the buffer with a byte to spare, the bitmap covers the disk,
the counters' word is larger than the memory. What a run bounds is a
constant here, of any value.

`ThreadPoolProofs`, for any number of consumers and requests:

- `TypeCorrect`: `TypeOK` is inductive as it stands. It holds after `broken` too,
  since it relates the wait set to `pc`, and `req` to the points between fetching
  and freeing, and no step depends on the lock for these.
- `MutualExclusion`: `TypeOK /\ Exclusion` is inductive. A step into a section
  takes a free lock; a step that leaves gives up its own; the only other way to
  lose the lock sets `broken`.
- `BrokenByWait`: an action property from the same invariant. A thread that
  releases inside its section holds the lock, so `broken` needs a wait without it.
- `PacedPool`: the program is safe in the environment it was tried in, one
  connection at a time. `PacedSafe` is far from inductive: it says nothing of the
  points between the tests of `queue_size`. `PacedInv` names the one activity there
  is at a time, until SIGTERM: consumers go to sleep (`Starting`), the main thread
  puts a request (`Placing`), the consumer it woke takes it (`Taking`), or one
  whose reply ended goes to sleep without the mutex (`Leaving`). Each phase is left
  for one other, with one lemma for each.

`PoolQueueProofs`, from the same assumption, while the mutex is respected:

- `PoolWork`, the inductive invariant: a request has arrived or not (`LifeInv`);
  what the `prev` pointers lead to from the tail was not given away, although
  `ll_remove_tail()` may cut the list short (`ChainInv`); what a consumer holds was
  given to it alone (`GivenInv`); `queue_size` counts the waiting requests and the
  one that is unlinked and not counted off (`CountInv`); the list is whole while
  no third request waited (`ShortInv`). The parts need one another: a node is taken
  once because the chain holds only what waits, and a list of two is whole because
  the count bounds it. `GivenOnce`, `SizeAgrees` and `ListWholeUntilThree` follow.
- `NoneTaken`: inductive with `Exclusion`, since `finish` is set under the lock.
- `QueueImplemented`: each step of the pool is a step of RequestQueue or none. The
  refinement mapping follows pointers recursively; `StraightWalk` shows that on a
  list of consecutive requests the walk yields them in order, by the least place at
  which it would not, so that induction is done with well-foundedness.
- `PacedQueue`: in the paced environment the refinement needs no condition until
  SIGTERM, since `PacedInv` keeps the mutex whole and at most one request waiting.

`ClientServiceProofs`, for any sizes of the buffer, header, request and file:

- `Invariant`: at the loop of `write_reply()`, the peer has what the buffer's
  counters say, and what is loaded ends where the reply does once a read was short,
  be it the end of the file or a failure (`Answering`). `InOrder` alone is not inductive: that the next bytes are the
  right ones rests on `base`, `nwritten` and `ntowrite`. `TypeCorrect`,
  `BytesInOrder`, `RepliesWhole` and `ReleasedAtTheEnd` follow.
- `ReplyImplemented`: the steps of the safety part of Reply; a failed read is `Cut`.

`EventClientsProofs`, for any number of clients, sizes and reports of `select()`:

- `Invariant`: an account of every client like the one above (`Accounts`); a place
  not in use is blank (`Unused`); `operations_completed` is the number of clients
  served (`Counted`); the pointers are those of a sequence of the clients not
  freed (`Chained`). Each handler is a turn of one client (`HandlerTurns`), which
  says what it does to fields, counter and peer at once. `ListInsert` and
  `ListUnlink` say what inserting and removing at any place does to the sequence.
- `TypeCorrect`, `ListAlwaysWhole`, `NoneHandledAgain`, `BytesInStep`,
  `CountsWholeReplies`; `RepliesImplemented`, for every client, from the same turns.

`LinkedListProofs`, about the list of HW2: a list is a chain of a sequence (`Chain`);
the stores of an insertion, made one after the other, append to it (`ChainInsert`),
those of a removal take its first (`ChainRemove`), and `Contents` and `WellLinked`,
which walk the pointers recursively, are those of the chain (`ChainWalk`,
`ChainHolds`). `LinkTailGoes`, `SetTailGoes`, `SetHeadGoes`, `MoveHeadGoes` and
`CutHeadGoes` say of each store alone what a walk finds after it, on a list that the
stores to come will make a chain.

`ThreadsProofs`, for any number of threads and waiters, and SIGALRM anywhere:

- `Invariant`: exclusion speaks of where every thread is, also one that lies
  switched off in the middle of a call, so the invariant is about `Whereabouts`. A
  yield, wherever it happens, only changes who runs (`YieldingMoves`); every other
  step moves the running thread from one place to the next (`StepEffect`). Each
  thread that loaded the counter holds it unchanged (`Loaded`), for which
  `MutexExclusion` is needed; every active worker has a context of its own until
  one exits (`Settled`), for which the order of creation is (`Created`). The
  list is whole unless a thread is between two stores, and that thread's place says
  what the stores that follow will make of it (`Linkage`, `Fits`; `ListSteps` takes
  them one by one). No active worker comes before the one that runs, so that the scan
  finds a preempted one again (`Placed`).
- `TypeCorrect`, `MutexesExclude`, `NoUpdateLost`, `ContextsOwn`, `HoldersRun`,
  `FirstInFirstOut` and `NobodyLeftWaiting` follow.

`FramesProofs`, for any memory and any length of runs:

- `TypeCorrect`: `TypeOK` is inductive, since a run given back is one held.
- `RunsApart`: `FirstsApart` with the type of `live` is inductive. A new run
  begins at a clear bit (`FirstFit`: the scan ends at a run that fits, as the
  naturals are well founded), so its first frame is that of no run held.
- `CountersAccount`: from `TypeOK` and `ModBalance`: what one counter loses
  modulo the word, the other gains.
- `SinglesApart`: while all runs are of one frame, the bitmap is what is held, and
  `frames_allocated` is its cardinality, so neither counter wraps.

`FileSystemProofs`, for every disk, block size, number of files and set of values:

- `Invariant`: `IInv`, which adds to `NoSharing`, `NamedIsSet` and `MetadataSafe`
  what they need to be inductive: entries and heads are allocatable blocks, 0 or
  a failed allocation, and an inode in use has a head. The three need one another:
  a fresh block has a clear bit, hence by `NamedIsSet` no name, hence is not shared.
  `AllocationsFresh` says what the allocator returns, `NamesStep` is the common
  part of creating and writing. `FilesApart`, `NamedStaySet` and `MetadataApart`
  follow; `TypeCorrect` adds the bytes.
- `CarefulInvariant`, under `CarefulCallers`: every entry up to the end of a file
  has a block on the disk and none after it has one (`Usable`), and what was never
  written is unspecified, in free blocks (`BlankFree`) and after the ends of files
  (`BlankEnd`). The last two carry the refinement: a file that grows must not show
  bytes of another. `NothingUndefined` and `LeaksByRecreation` follow.
- `FilesImplemented`: under `CarefulCallers`, each operation is one of FileStore. The
  loop of `ifile_write()` puts each byte at a place of its own, which rests on
  facts about `\div` and `%` (`DivFacts`, `DivMono`).

Only model-checked: liveness, which is out of the prover's reach, as `ENABLED` is.
That is `EveryRequestServed` in `pool_paced`, and that a client's service ends, in
`client_reply`. Induction over data has no rule here; where a definition is
recursive, a sequence that is its value is given and compared with it by a least
counterexample.

## Not modelled

- `libWildcatNetworking`, a binary: its calls are as `clients_common.c` needs them.
- The arguments of `select()` in `server_statemachine.c`. The file is in no target of
  the Makefile and does not compile: `FD_SET()` is given a pointer, and
  `setupSignalHandler()` is not declared there. `maximum_descriptor` would ignore the
  accept socket, so that `select()` reported no connection at all. EventClients
  takes the rounds, whose order is clear, and leaves the reports free.
- HW3's page tables, allocator and their two testers. `translation.c` calls
  `new_node()`, which no file defines; `vm_find()` and `vm_locate()` follow a null
  `table_root`; `table_root + a` steps in bytes on a `void *` where entries
  are meant; `kfree()` walks past the block it is given. The repository
  holds objects of `tester1.c` and `frame.c`, and none of `translation.c` and
  `kmalloc.c`. A model would be of another program.
- The operations of `ll_double.c` in HW2 and HW3 that have no caller in a
  program that builds: `ll_insert_head()`, `ll_remove()`, `ll_remove_tail()`, the searches.
- The testers, printing, set-up of sockets and arguments.
- Crashes in HW4: the disk is `malloc()`ed and dies with the program.

## Plan

Done: ThreadPool, ClientService, FileSystem with FileStore, Frames, Threads with
LinkedList, EventClients; the abstract RequestQueue and Reply and what implements
them; the proofs of every safety property and of every refinement.

What is left is to ask less of the callers: `NothingUndefined` and
`FilesImplemented` for all of them, up to the first growth that fails, in place of
`CarefulCallers`.
