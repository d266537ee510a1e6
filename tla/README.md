# A formal model of cpp_rt_2

The repository is a course on real-time C++ on Linux: small programs built on
POSIX threads, mutexes, condition variables, signals and sockets, and a few
classes that the programs share.  This directory holds TLA+ models of the parts
with logic of their own, TLC configurations that check them on small instances,
and TLAPS proofs for every instance.

## Inventory

| Part | Source | State | Operations | Hard because | Correct when |
|---|---|---|---|---|---|
| thread_safe_queue | `day3/socknet/thread/thread_safe_queue.h`, `lock_guard.h`; the same text in `day2/ex_ThreadPool` | `q`, recursive `mtx`, `cond` | `push`, `pop`, `try_pop`, `is_empty` | nested locking, signal after unlock, spurious and stolen wakeups | linearizable FIFO, balanced guards, no lost wakeup |
| threadpool | `day3/socknet/thread/threadpool.cpp`; the same in `day2/ex_ThreadPool` | `threads`, `queue_` | constructor, `add_task`, destructor, `worker` | shutdown by empty tasks while tasks are queued, threads that fail to start | every task called exactly once before the destructor returns |
| launch_thread | `launch_thread.cpp` (six copies) | the heap copy of the functor, the id | launch, launch detached, `thread_routine` | error results, ownership across threads | functor freed exactly once, failure reported |
| ActiveObject | `day2/x_active_object` | queue `mq`, `ao_worker` | constructor, `Send`, destructor, `worker` | own queue variant, `try_pop` | per-sender order, everything sent is executed |
| future | `day2/x_pthreads_future` | task result, thread id | `async`, `get`, destructor | joins in `get` and in the destructor | one join, result read after the thread ended |
| TSQ exercise | `day1/ex_TSQ` | queue, unused mutex | `producer`, `consumer` | unsynchronised access, sentinels | one consumer per item |
| producer/consumer | `day1/08_prod_cons` | `message_queue`, `mtx`, `cv` | `producer`, `consumer` | wait with a predicate | items consumed in order |
| mutex counters | `day1/05_mutex`, `day2/08_spin` | counter, lock | increment loops | lost updates | the sum is exact |
| mutex kinds | `day1/06_mutex_type`, `day2/06_mutex_type` | mutex type | double lock and unlock | type-dependent result codes | recursive balances, errorcheck reports |
| fork/join sums | `day1/ex_accumulate`, `day1/ex_histogram`, `day2/ex_pi` | partial results, the partition | partition, worker, reduce | partition bounds, shared generator | blocks cover the input once |
| image files | `day1/ex_histogram/appm.cpp` | image buffers | read and write of PBM, PGM, PPM | header parsing, bit packing | what is written reads back |
| rwlock tree | `day2/07a_rwlock_tree` | tree, read-write lock | insert, find, size, destroy | readers with a writer, reuse after destroy | search-tree order, readers see whole updates |
| barrier | `day2/12_barrier` | barrier count | wait, destroy | serial thread, destroy after use | nobody passes early |
| cancellation | `day2/13_cancel` | cancel state and type, mutex | cancel, cleanup handlers | asynchronous cancellation, locks held at cancel | locks released, handlers run once |
| thread-specific data | `day2/14_tss` | key, per-thread values | set, get, destructor | destruction order | one destructor per value |
| scheduling, signals | `day2/04_attribs`, `day2/04a_signals`, `day1/04_boost_thread_priority` | flag, signal mask | interrupt, sigwait | signal between mask and wait | the signal is taken by the waiting thread |
| socket classes | `day3/socknet/net` | descriptors, peer state, paths | connect, bind, listen, accept, send, receive, disconnect, destructor | errors by exception, path reuse, partial sends | descriptors closed once, files removed by their owner |
| socket programs | `day3/socknet/*.cpp`, `day3/16_sock_inet`, `day3/unix_stream_server`, `day3/15_abstract_unix_socket` | sessions | accept loops, sessions | one thread per session, failures in the middle | no descriptor leaks, one session's failure stays its own |
| thread basics | `day1/01..03`, `day1/x_abstract_launcher`, `day1/x_c11_launcher`, `day2/00_clone-test`, `day2/x_check_nptl_lt` | - | create, join, exit | process exit before a thread ends | - |

How the parts meet: the pool and ActiveObject each own a queue and start their
workers with launch_thread; the socket servers start one detached thread per
connection with launch_thread, or hand sessions to a pool.  Everything else is
a program of its own.

## Modules

| Module | Models | Checked by | Proved in |
|---|---|---|---|
| `LinearizableQueue` | what `thread_safe_queue` promises | - | - |
| `ThreadSafeQueue` | `thread_safe_queue.h`, `lock_guard.h` of `day3/socknet/thread` | `MCThreadSafeQueue` | `ThreadPoolProofs` |
| `ThreadPool` | `threadpool.cpp` on `ThreadSafeQueue` | `MCThreadPool` | `ThreadPoolProofs` |
| `ActiveObjectQueue` | `thread_safe_queue.h` of `day2/x_active_object` | `MCActiveObjectQueue`, `MCActiveObject` | `ActiveObjectProofs`, as ActiveObject uses it |
| `ActiveObject` | `active_object.h` on `ActiveObjectQueue` | `MCActiveObject` | `ActiveObjectProofs` |
| `LaunchThread` | `launch_thread.cpp` with the heap functor and the detach | `MCThreadedServer` | `ThreadedServerProofs` |
| `ThreadedServer` | `tcp_server_threaded.cpp` on `LaunchThread` | `MCThreadedServer` | `ThreadedServerProofs` |
| `LinearizableSet` | what `btree` promises | - | - |
| `RwlockTree` | `btree` of `day2/07a_rwlock_tree` | `MCRwlockTree` | `RwlockTreeProofs` |
| `UnixSocket` | `unix_socket.cpp`, `unix_datagram_socket.cpp` of `day3/socknet/net` | `MCUnixDatagram` | `UnixDatagramProofs` |
| `UnixDatagram` | `unix_server.cpp` and `unix_client.cpp` on `UnixSocket` | `MCUnixDatagram` | `UnixDatagramProofs` |
| `ForkJoin` | `multithread_sum.cpp`, `modify_image.cpp`, `ex_pi/pthreads/pi.cpp` | `MCForkJoin` | `ForkJoinProofs` |
| `Pthreads` | one process with threads, joins, a mutex and shared memory; the library's calls as the small programs use them | by the programs on it | `PthreadProofs`, as the programs use it |
| `CounterPrograms` | `day2/08_spin`, `day1/05_mutex`, `06_mutex_type`, `day2/12_barrier` on `Pthreads` | `PthreadPrograms` | `PthreadProofs` |
| `QueuePrograms` | `day1/08_prod_cons`, `day1/ex_TSQ` on `Pthreads` | `PthreadPrograms` | `PthreadProofs` |
| `LifetimePrograms` | `day2/x_pthreads_future`, `day2/13_cancel`, `day2/14_tss`, `day2/04a_signals` on `Pthreads` | `PthreadPrograms` | `PthreadProofs` |
| `PthreadPrograms` | the choice among those programs, and what they promise | `MCPthreadPrograms.cfg` | `PthreadProofs` |
| `StreamSockets` | stream sockets, and `day3/16_sock_inet/inet_sockets.cpp` on them | `MCStreamPrograms` | `StreamProofs` |
| `StreamPrograms` | `16_sock_inet/main.cpp`, `tcp_server.cpp`, `tcp_client.cpp`, `tcp_socket::sendAll`, `unix_stream_server/main.cpp` | `MCStreamPrograms` | `StreamProofs` |
| `PixelMaps` | `day1/ex_histogram/appm.cpp` | `MCPixelMaps` | `ForkJoinProofs` |

A module that composes others EXTENDS them and drives them through their
actions.  The operators under "Mistakes that would be easy to make" are not part
of any specification: each is the wrong form of one action, with which a property
of the module fails.

### thread_safe_queue and the pool

`ThreadSafeQueue` has one step for each lock operation, access to `q`, signal and
return from a wait, because that is where threads can meet.  `owner` and `depth` are
the recursive mutex; `pc` is where a thread is in a member function; `op`, `item`
and `empty` are the function, its item and the result of the nested `is_empty()`.
The blocked threads are those at "waiting".  `pthread_cond_wait` gives up one level
of the mutex, which is what the library does, so a nested guard that stayed open
would be a deadlock in the model as it is in the program.  A signal wakes any one
blocked thread; a spurious wakeup is an action of its own.

`ThreadPool` adds the owner (`main`, its loop counter `i`) and the workers.
`pthread_create` may fail for any worker; the code does not notice, so the
constructor goes on, and the destructor's `pthread_join` of the id that was never
written either returns an error or is the end of the program ("undefined").  A task
is an opaque value that is called and returns.  Only the owner adds tasks, as in
`day2/ex_ThreadPool/main.cpp` and `day3/16_sock_inet/main.cpp`.

### ActiveObject

`ActiveObjectQueue` has one step for each critical section: `q` is reached with the
plain mutex held and nothing else happens in between, so the other threads cannot
tell the difference.  `owner` is nobody between the steps, except after `try_pop` of
an empty queue, which returns without the unlock.  `ActiveObject` adds the senders
(what each has given to `Send`, in order), the worker, and the owner's constructor
and destructor.  It never calls `try_pop`; the queue's own run does.

### launch_thread and the threaded server

`LaunchThread` follows one heap copy of a functor for each call: the creator has it
until `pthread_create` succeeds, the new thread from then on, until its `unique_ptr`
deletes it.  `CreateFailed` is the comparison of line 17 as it is written.
`ThreadedServer` adds the accept loop, the sessions and the kernel's table of
descriptors, which gives the lowest free number to the next connection.  `main`
handles one connection at a time; the sessions run beside it.  A client that has
gone, a failing system call in a session (its exception leaves the thread's function
uncaught, and SIGPIPE is not ignored: the process ends) and a failing accept (the
exception ends `main`, and with it every session) are choices of the environment.
`accept` never returns 0 here, since the server's own socket has a lower number.

### btree

`RwlockTree` walks the tree node by node.  A search may be anywhere in the tree while
others search; an insert stores the pointer to the new node and fills the node's
fields afterwards, in two steps, as the code does.  The lock lets readers pass a
waiting writer, as the default lock of the library does.  The destructor runs when no
call is in progress: `main_example_02` joins its threads first.  The code of the
callers is only "any calls": `tree_writer` and `tree_reader` make 20 inserts of
ascending keys and 200 searches each, the model any sequence.

### The datagram programs

`UnixSocket` keeps the sockets, the names they are bound to, the directory entries and
the datagrams that wait.  `bind()` is two steps, unlink and bind, because another process
can come between them; so is the destructor, unlink and close.  An entry is removed by its
path, whoever it belongs to.  `extractPath` is the subtraction in `size_t` that it is: the
length the kernel reports for a socket without a name makes it wrap around, and the string
constructor throws.  In a destructor, which is `noexcept`, that ends the process: a server
or client whose `bind` fails, for whatever reason, does not get to report it.
Any call that the programs make may be refused by the system although they did nothing to
deserve it (permissions, a sticky directory, a full or read-only file system, memory): `bind`,
`sendto` and `recvfrom` throw then, and the two `unlink`s, whose result nobody looks at, leave
the entry where it is.  `refused` is a history variable with the calls that this happened to,
so that each property excepts the refusal that breaks it and no other; `Next` refuses
whenever it likes, and only the model checker's bound counts.  `getsockname` of an open
socket and `close` do not fail.
`UnixDatagram` has one process for each socket.  A process may be killed at any point, and
its socket is closed then while its entry stays; the first entries are those of earlier
processes.  `overlapped` is a history variable: has a server been started while another one
ran.  The name of a client contains its process id, so the names of live clients differ.
A datagram has no content but its sender; `disconnect()` is left out, which forgets a peer that a
datagram socket of these programs never has.

### The fork/join programs

The three programs have one machine, and `program` says which one runs: a loop that cuts
the input into blocks (two of them; the darts are counted out while the threads are
started), a loop that starts the threads, the threads, and a loop that joins each and adds
what it found (the darts after the last join).  What a thread found is how often it counted
each item, from which sum, histogram and hits follow; the wrap-around of the sums does not
depend on the order.  `modify_image.cpp` writes `parameters[i].to_y` one past the last
element and adds up 257 buckets of 256: in both places the program may be lost
("undefined") or go on, and the rows beyond the last whole block stay uncounted; its threads
run past the end of a function that should return a pointer, with the same choice.  A thread
that could not be created is not noticed in any of the three; its block is missing from
the result, or the join of an id that was never written is the end.

### The small pthread programs

`Pthreads` is what they share: a thread is "none" before it is created, at a point of its
program, "ended", or "joined" when its id is gone.  `owner` and `depth` are the program's
one mutex or spin lock, `count` a thread's loop counter, `mem` a record of the program's
data.  An increment is a read and a write; a critical section that touches a queue is the
test, the access and the unlock.  Calls whose result a program tests may fail, and it exits;
calls whose result it does not test may fail as well, and it goes on with an id or a value
nobody wrote, which makes `process` "undefined".  A cancellation request is taken wherever
the thread's state and type allow it: at the library calls that are cancellation points, or
anywhere for an asynchronous thread.  Where that thread is inside `printf`, which is not
async-cancel-safe, `CancelledInPrintf` is the other outcome: "undefined".  `cancel_bare` is the same
program started without an argument.  `day2/13_cancel/pthread_cancel.c` does not compile as
it is (`thread_03` pushes a handler without the pop that closes its block); no thread comes that far, since
it pauses until it is cancelled.  Signals of another process may come at any time; a blocked one stays
pending until `sigwait`.

### The stream programs

`StreamSockets` has one service address, the sockets bound to it, the one that listens, the
clients that wait for `accept`, and a connection per client, which is cut when either end
closes.  The list of `getaddrinfo` may have any length up to `Addresses`, and `socket`,
`setsockopt`, `bind`, `listen` and `connect` may fail at each entry.  With `SO_REUSEADDR`
two servers may both be bound; `listen` then fails for the second.  `StreamPrograms` runs two
servers and the clients of one program.  The inet server's pool is a queue of tasks and
`PoolSize` threads (`ThreadPool` is the detailed form); its `accept` loop does not test
for -1, so that at the descriptor limit it makes tasks that fail at their first call.  Any
process may be killed once it has a socket; sending to a peer that has gone either fails or
ends the process by SIGPIPE.  The `tcp` server answers one client and aborts the connection
with `disconnect()`, and what the client has not read by then may be lost; the `unix`
program never removes its socket file, so no second server can be bound.  No program of the
repository calls `sendAll`; the model has a server that does, with any part of `Buffer` from
its beginning (`len`), and a client that reads to the end.  `sendAll` counts in a `size_t`, which
holds every length, and returns that count as an `int` (`ToInt`, with `IntMax` for `INT_MAX`); one
`send` takes less than an `int` holds, since Linux cuts every transfer below 2^31.

### Image files

`PixelMaps` is sequential: a picture is written in some mode, the file is perhaps replaced by
one with another header, and read back.  `WritePPM` refuses, fails to open the file, or writes the
header; then `WritePixel` is one turn of the inner loop, and `WriteEnd` what follows the loops.
`row` counts the rows that are written, `At` is the pixel the code's `y` and `x` lead to, from the last row
up for a negative height.  `Pack` is a turn in the raw black-and-white format, with `bw` and with
`counter`, the code's `i`, which begins with whatever was in memory (`UnsetI`, negative numbers too:
`Rem8` is C's remainder).  `ReadPPM` is one step, with `Pixel` what it makes of the bytes or
numbers of a pixel: reading has no state but the place in the file.  ASCII bodies are
sequences of numbers, raw ones of bytes; where lines break, which the code also counts with `i`, is
left out.  Files are whole: see below for a file that ends early.

## Runs

| Run | Question | Bounds |
|---|---|---|
| `queue` | are the guards balanced, is `q` never popped empty, is no wakeup lost, is the class a linearizable queue, does each call return? | 3 threads, 2 items, 5 calls, 1 spurious wakeup |
| `pool` | is each task called once before the destructor returns, is nothing used after it, does it return, is a task called while the pool lives? | pool of 3, 2 tasks, 1 spurious wakeup |
| `ao_queue_leak` | is the mutex of ActiveObject's queue free when a thread has left it? No | 3 threads, 2 items, 6 calls, 2 spurious wakeups |
| `active_object` | is each sender's order kept, is everything executed before the destructor returns, and does it return? | 2 senders, 4 tasks, 1 spurious wakeup |
| `server` | does a descriptor stay with its session, a functor with its thread, and does each session end? | 3 connections, 2 descriptors |
| `launch_report` | does `launch_thread` tell when there is no thread? No | 4 connections, 3 descriptors |
| `rwlock_tree` | is the tree a linearizable set, does a search meet half-made nodes, does each call return, does the destructor reach every node? | 3 threads, 2 keys, 3 nodes, 4 calls |
| `unix_datagram` | can a server be reached, does it outlive its clients, does a program leave a path behind, does a client return? | 2 servers, 2 clients, room for 1 datagram, 1 refused call |
| `fork_join` | is each item counted once, does the result have what the blocks cover? | up to 7 items; 4, 2 and 2 threads |
| `pthread_programs` | do the small programs race, compute what they print, leave a mutex locked or a handler or destructor uncalled, do something undefined, come to an end? | 3 threads, 3 rounds, 4 items |
| `stream_programs` | do the helpers leave a descriptor or a list behind, does `sendAll` send each byte once, does each client come to its end? | 2 servers, 2 clients, 2 addresses, 2 descriptors, up to 5 bytes, of which an `int` counts 3 |
| `image_files` | does `ReadPPM` read what `WritePPM` wrote? | all pictures of up to 2 by 2 in 4 colours, rows of 7, 8 and 9 pixels with few of one colour, one picture without columns |

Why these bounds are enough to be of use: three threads are one that holds the lock,
one that waits and one that steals what the second was woken for; two items tell
first from second; five calls fill the queue, drain it, and leave one that has to wait.  A pool of three has
a worker that failed to start beside two that run.  Two senders with two tasks each
are the least for which order within a sender and between senders differ.  With more
connections than descriptors numbers are used again and accept can find none left.
Three nodes make a node with two children, a chain to each side and equal keys; three
threads are a writer with two readers.  Two servers are one that replaces another that was
killed, or that still runs; with room for one datagram (the kernel has eleven) two clients
wait for room; one refused call is each call's refusal alone, followed by everything the programs
do about it.  Seven items leave every remainder of 4 and of 2.  `SizeBits` (16) is the
width of `size_t` and `MaxSize` the string's `max_size()`, the lower half of its range: lengths
are below 20, and -1 wraps to the top, beyond `MaxSize`, at any width.  For the counters three
threads and three rounds leave an update to lose in every position.  A service with two addresses
has one that fails before one that works; with two descriptors the server is at its limit
when it has one client; three bytes and room for two make `send` wait and come back with a part,
and with `IntMax` at 3 the lengths 4 and 5 are the ones that an `int` does not hold.
The colours have a byte, or a mean, at 127, 128 and at a white-space character, and the rows
a byte that is one pixel short, full, and one pixel over.  `MaxTasks` bounds the queue of the
inet server, `MaxItems` what the producers make.  `MaxCalls` and
`MaxSpurious` bound only what clients and the library may do at will; the code's own
loops run to their end.  The queue run may end anywhere and does not check for
deadlock: clients stop calling, and a pop of an empty queue waits for good
(`CallsComplete` says that nothing else does).  The
small programs, the servers and the image run may end or wait for a call from outside, and do
not check for it either; `ProgramEnds` and `ClientsEnd` say what must end.  The other
passing runs check for deadlock, with one extra step that stands for the end of the program.

### Fairness

Liveness assumes weak fairness for each thread's own steps: a thread that can run
does, in the end.  For a lock this says that a thread gets a mutex that stays free;
the runs are finite in calls, so a mutex is not taken over and over for ever.  The
same holds of the read-write lock, where it matters: with readers that never stop, a
writer could wait for ever under the library's default, and nothing in the code
prevents it.  Nothing is assumed of clients (no call, task or connection has to
come, no object has to be destroyed) and no spurious wakeup has to happen.  Tasks
and the greeting's `send` are assumed to return: the greeting fits a socket's buffer.
A datagram client that waits for room gets it, since clients are finite in number and each
asks once; a client whose server ends before it answers waits for ever, because
`receive()` has no timeout, and `ClientsReturn` excepts it.  The datagram processes' steps are fair
without the refusals: no call has to be refused.  In `PthreadPrograms` and
`StreamPrograms` every thread that can run does, in the end, and no more: kills, signals from
outside and spurious wakeups need not happen.  A spin lock or a mutex that
is free again and again is taken in the end, since the loops of its users are finite.

## Proofs

Proved for every value of the constants, from the named assumptions on them: finite
sets of threads, distinct model values, error numbers that are positive, a node that is not
the null pointer, at least one datagram server, paths that differ between live
clients and fit a string (`PathLength <= MaxSize < 2^SizeBits`), a positive `IntMax`, and for the small programs at
least one thread, round and consumer, and room for the three threads of the future; of a picture, that its
colours are bytes and as many as its width times its height, and of a mode that it has one digit.

- `ThreadPoolProofs`, the queue: the invariant `QInv` is the type invariant (mutex depth at
  most 2), `GuardDiscipline` (who has the mutex at which point, how deep), `OpAtPoint`
  (which points belong to which function) and `EmptyAccurate` (the result of the nested
  `is_empty()` still holds when it is used, which is why the guard of `pop` must stay
  closed around it).  Types, `GuardDiscipline` and `NonEmptyAtTake` follow.
  `NoLostWakeup` is an invariant beside it: each step changes the number of items and
  the number of threads on their way to them together.
  `ThreadSafeQueue` implements `LinearizableQueue` (`QLinearizable`).  The
  effect of `push` is at `q.push`, that of a `pop` or a successful `try_pop` at `q.pop`,
  that of a failed `try_pop` and of `is_empty` where the queue is read; every other
  step is a stutter.
  These theorems stand in the module that has the pool's, but no proof of them cites what
  the pool assumes of its threads and items.
- `ThreadPoolProofs`, the pool: a step of the pool is a step of its queue or leaves the queue
  alone, so the queue's theorems hold in the pool (`PoolUsesQueue`).  The invariant
  adds where the owner and the workers can be (`OwnerInv`, `WorkerInv`), that pills are
  behind every task and taken when no task is left (`PillInv`), and that a task is in
  one place once (`OnceInv`, `OnePlace`).  `DrainedBeforeReturn` needs all of them: a
  joined worker has had a pill, so the queue holds pills only, so each task was taken,
  and every worker that took one has ended, so it has been called.
- `ActiveObjectProofs`: `PerSenderOrder` and `ExecutedBeforeReturn` are about the line a task
  passes along: what has been executed, what the worker has in hand, the queue.  Popping
  and executing leave the line as it is and `Push` adds one at its end.  The invariant says that what was sent is in
  the line, but for a sender's last task, which it may still be pushing (`Arrived`), that
  nothing is in it twice (`InLine`), in which order each sender's tasks are (`InOrder`), and that the
  empty task is the last (`PillLast`): a worker that has exited has executed what was before it.
- `RwlockTreeProofs`: the lock's exclusion (`LockInv`) gives `NoRawRead`, since only the
  writer can meet the node it is about to fill (`NodesInv`).  `EveryNodeDeleted` and
  the refinement need the tree: the invariant says that there is a relation between nodes, "is
  above or is", with the properties of such an order, without the recursion that would define it
  (`Order`), that smaller keys are to the left (`Sorted`), and that all nodes hang at the root, or at
  the nodes the destructor has left (`Hanging`).  Storing a new node extends the relation by
  those above the place, deleting one restricts it.  A search has what it
  looks for below it, if it is anywhere (`Seek`), so what it returns is true of the set: the
  tree implements `LinearizableSet` (`TreeLinearizable`).
- `UnixDatagramProofs`: `NothingLeftBehind`, `Reachable` and `PathsExtract` follow from what the point a process
  has reached says of its socket and name (`Stages`), and from whose the entries of the directory are
  (`Entries`, `ClientPaths`); the calls in `refused` are in the invariant where they are in the
  properties.  `ServerOutlivesClients` needs more: each client has at most one question under way, which
  is in one inbox or with one server, and waits for the answer with its own inbox empty, unless this
  client was killed or its `receive` refused (`Outstanding`).  So a server's reply finds the client's
  socket there and with room, and a server that does not has the one client to show for it.  `OneServer` says that the path leads to one server until two
  run at once, the case the property excepts.
- `ThreadedServerProofs`: `OwnConnection`, `FunctorOwned` and `DescriptorsAccounted` hold
  each other up through `Stages`, which ties the stage of a session to its thread and
  its launch.  `NeverNoticed` is the fact behind the finding about line 17.
- `ForkJoinProofs`, the sums: `Blocks` is the arithmetic: for every length and number of threads the
  blocks lie in order, do not overlap and cover what lies below `Covered`.  The invariant
  `FInv` says what is left of each block (`Ranges`), that a thread has counted what its range
  has left behind (`Counted`), that a joined thread has ended (`Threading`), and that the
  total has what the joined threads found (`Totalled`).  `CountedOnce` and `ResultComplete`
  follow.
- `ForkJoinProofs`, the image files: `PixelsRoundTrip` is `RoundTrip` for pictures of every size, colour and
  orientation.  The invariant `PixelInv` is that of the loops: the body has the numbers
  of exactly the pixels the loops have passed (`WrittenPixels`), and in a raw PBM the bytes that
  are full, while `bw` is what the byte of the row is when it is shifted right by the bits that
  are missing, and `counter` agrees with the column modulo eight (`WrittenBytes`, `Collected`).
  That is where a `counter` that does not begin with a multiple of eight would break it.
  `EightBits` is the arithmetic of one byte: shifting the bits in, padding with zeros and
  testing a bit again; `PixelAt` and `PlaceOf` that of rows and columns.  What a turn prints
  leaves what was printed before (`PrintedStays`), and of a complete body `ReadPPM` makes what the
  format keeps of each pixel (`ReadBit`, `ReadNumbers`), if the first byte is none that `fscanf` skips
  (`NothingSkipped`).
  What the threads of the sums do is no part of it: the two are in one module because they
  are parts of one program, and neither's proofs cite the other's assumptions.
- `StreamProofs`: `NothingLeftOpen` for any number of servers and clients and address lists
  of any length.  `Held` says of every point of a program which list and which sockets the
  process has there; it adds to the property that a process that has not begun has nothing, and
  that the walk along the list has not come to its end where a socket is bound or listens, for
  only then does the next address find the process without a socket.  `Served` says that the
  server that hangs up has a client, so that what it closes is not the socket it listens with.
  A step of one process leaves the others alone (`OneProcess`).  The assumption is that
  servers and clients are different processes.  `SendAllExact` is proved for every buffer and every part of it: a
  client's connection is with one server (`Places`, `Counts`), so all it receives comes from one
  `sendAll`, whose bytes sent are always the first of the buffer, the received ones followed by those
  on their way; and the conversion of the count is exact up to `IntMax` (`ToIntExact`).
- `PthreadProofs`: a behaviour of `PthreadPrograms` is one program's, and `StepOfProgram` says
  which steps are whose, so the invariant has a part for each program that this program's steps keep.
  What the parts share is `Forked`, how far main is with creating and joining its threads, with
  one lemma for each call (`CreateStep`, `JoinStep`).  The counter is the sum of
  what the threads have added, and main, joining one after the other, knows the sum of those it has joined
  (`Summed`); this is how `NumThreads * Iterations` comes about without induction.  The items of a queue
  are numbered by how many the producer has pushed, taken ones first (`QueueData`).  At the barrier the
  waiting threads are counted: as long as one of `NumThreads` has not come they are fewer.  The
  handler is pushed before cancellation can meet the thread (`CancelInv`), the key is deleted after the
  joins (`TssInv`), and the signal is blocked before there is a thread that sends it (`SignalInv`).
  `NoDataRace`, `ResultExact`, `MutexesAtEnd`, `CleanedUp` and `WellDefined` follow, for any number
  of threads, rounds and items.

The type invariants are proved (`QTypeCorrect`, `PoolTypeCorrect`, `ServerTypeCorrect`,
`ObjectTypeCorrect`, `TreeTypeCorrect`, `DatagramTypeCorrect`, `ForkTypeCorrect`,
`StreamTypeCorrect`, `PthreadTypeCorrect`; for the image files the types are part of
`PixelInvariance`) and are no properties of the runs; so is `PillsAfterTasks`, a step
towards `DrainedBeforeReturn`.

Only model-checked: everything temporal under fairness (`CallsComplete`,
`DestructorReturns`, `TaskCalled`, `SentIsExecuted`, `SessionsEnd`, `CallsReturn`,
`ClientsReturn`, `ProgramEnds`, `ItemsConsumed`, `ClientsEnd`).  Liveness is beyond this prover.
Every other property of a passing run is proved for all values of the constants.

## Findings

- `day2/x_active_object/thread_safe_queue.h:36`: `try_pop` of an empty queue returns with the
  mutex locked (`ao_queue_leak`).  The class is meant to be a queue that several threads
  can use (`day1/ex_TSQ/main.cpp:44`).  ActiveObject itself calls only `push` and `pop`.
- `day3/socknet/thread/launch_thread.cpp:17` and its copies: a failed `pthread_create` is
  never noticed (`launch_report`), while `day2/x_check_nptl_lt/checkpid.c:19` asks for the
  test.  The pool and ActiveObject then join an id that was never written, the server
  detaches one and loses the functor and the client's descriptor.

Beside these, the models have what the code does where it is plainly mistaken, and the
properties except exactly that, or speak of something else:

- `pthread_create` that fails is not noticed in `08_prod_cons`, `pthread_cancel_cpp.cpp` and
  `futures.cpp`, and an id nobody wrote is joined or cancelled (`WellDefined`).
- `futures.h:47`: the destructor of a future joins the thread that `get` has joined
  (`WellDefined`).
- `pthread_cancel_cpp.cpp:16`: the cancelled wait takes the mutex, the handler that catches
  the unwinding does not unlock it, and `m` stays locked for good (`MutexesAtEnd`); `tf` also lacks
  a return (`WellDefined`).
- `pthread_cancel.c:28`: the asynchronous thread calls `printf`, where a cancellation is undefined
  (`WellDefined`; `thread_01` has set the type at line 25).
- `pthread_cancel.c:112`: `argc < 1` is never true, so without an argument line 116 is
  `atoi(NULL)` (`WellDefined`).
- `day1/ex_TSQ`: calls that meet are undefined, as the exercise means it (`WellDefined` excepts
  the program as a whole: every access to its queue may be part of the race).
- `ex_pi/pthreads/pi.cpp:30`: the threads draw from one generator without a lock; the model has every
  dart hit or miss, and nothing more is said of that race.
- `modify_image.cpp:116`: `make_histogram_threaded` lacks a return, as lines 159 and 169 write and read
  past the end of a vector (`ResultComplete` speaks of runs that come to the end of `main`).
- `tcp_socket.cpp:40`: an `accept` that fails, at the descriptor limit for one, throws, `main`
  returns, and all sessions in progress end with it; what the server's properties say, they
  say of a process that runs.
- `tcp_socket.cpp:18` and `:28`: `sendAll` returns a `size_t` count as an `int`, so that beyond `INT_MAX` bytes
  the result is another number, negative for many lengths and -1 for 2^32-1 of them, although everything was
  sent (`SendAllExact`).
- `inet_sockets.cpp:89`: a failed `listen` leaves the socket open (`NothingLeftOpen`).
- `unix_socket.cpp:17` and `:74`: the destructor of a socket whose `bind` failed asks for the path it does
  not have; `extractPath` wraps around, and the exception leaves a destructor, so the program
  terminates before `bind`'s own exception is caught (`PathsExtract`).
- `unix_socket.cpp:18` and `:34`: both ignore what `unlink` returns, so a path may stay behind, or be in
  the way of the `bind` that follows (`NothingLeftBehind`, `Reachable`, `PathsExtract`).
- The same two lines unlink a path whoever it belongs to: of two servers at once the younger
  takes the path of the older, and the older, when it ends, that of the younger (`Reachable` and
  `PathsExtract` speak of servers that do not overlap).
- `appm.cpp:98`: the space after `%d` skips white space, so a raw body whose first byte is
  one of 9 to 13 or 32 loses it, and the rest moves up by a byte (`RoundTrip`; `appm.h:41` has the
  first byte as the red of the upper left pixel).
- `appm.cpp:171`: `i` is not set before `appm.cpp:239` counts with it; unless it happens to be a
  multiple of eight, and not negative, the rows of a raw PBM are cut in the wrong places
  (`RoundTrip`).
- `appm.cpp:140`: an ASCII PBM comes back as its negative, unlike a raw one (`RoundTrip`).

## Not modelled

- A task that itself calls `add_task` while the pool is destroyed (`threadpool.cpp:29`), and calls
  of the tree after a call of `destroy_tree` (`pthread_rwlock.cpp:157`), which leaves `root`
  pointing at deleted nodes: no program of the repository does either.
- The endless loops of `main_example_01` of the tree: they exercise the lock, and what they read is
  not used.
- An image file that ends in the middle of its header: `ReadPPM` then looks at its last comment line
  for ever, or goes on with a width and a height nobody wrote.  `draw_histogram`, which writes
  one row and one column past its image.
- UDP sockets with their options, the getters of the socket classes, `shutdown()` and name
  resolution: no program of the repository calls them.  `sock_bind`, which is `sock_listen` without
  the `listen`.
- Scheduling attributes and priorities (`04_attribs`, `04_boost_thread_priority`): settings of the
  kernel that are written, read and printed.  The thread basics: one create, one join, no state.
- `day3/15_abstract_unix_socket`: one sequence of system calls with exit on error, which does not
  compile as it is.  `day3/16_sock_inet/main.cpp` does not either (its lambda uses a variable it does
  not capture, and `threadpool` is not declared); it is modelled as it reads, with the pool of
  `day3/socknet`.
- Output, formatting and timing everywhere; the Boost version of pi.

## Plan

Done, in this order: the queue and its abstract specification, the pool on the queue, the proofs
about both, ActiveObject and its queue, launch_thread and the threaded server with proofs, the
read-write tree with its abstract set, the datagram programs, the fork/join programs with
proofs, the small pthread programs, the stream programs with a proof, the image files; then the proofs
about ActiveObject, the tree with its refinement, the datagram programs, `sendAll`, the small
pthread programs and the loops of the image files.  What is left of the plan is what the section
above lists as not modelled.
