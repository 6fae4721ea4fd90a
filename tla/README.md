# coronet in TLA+

coronet is a C++20 coroutine library for asynchronous I/O: an event loop per thread
(`io_context`) over epoll, io_uring or IOCP, and coroutine primitives (mutex, semaphore,
condition variable, channel, `when_all`) that work across event loops. This directory
holds models of its core in TLA+, what TLC checks about them and what TLAPS proves.

Every definition is translated from the source, read with its tests and its documents;
`PROJECT.json` ("map") gives the lines behind each one. Paths below are relative to the
repository. All three backends are modelled: epoll, with the event loop around it step by
step (`EventLoop`, `EpollIo`), io_uring and IOCP with as much of the loop as their
completions need (`Uring`, `Iocp`).

## The system

| part | state | operations | talks to |
|---|---|---|---|
| `co/mutex` | `awaiting_` (one atomic word: free, held, or the head of a list of waiters), `to_resume_` | `lock`, `try_lock`, `unlock` | `io_context::spawn_handle` of the waiter's context |
| `co/semaphore` | `counter_`, `awaiting_`, `to_resume_`, a spinlock | `acquire`, `try_acquire`, `release` | the same |
| `co/condition_variable` | `awaiting_`, `to_resume_head_/tail_` | `wait`, `notify_one`, `notify_all` | the mutex it re-acquires |
| `co/channel` | a buffer, a mutex, two condition variables | `acquire`, `release` | mutex and condition variables |
| `co/when_all` | a countdown, the children's results | `all`, `any`, `some` | spawns children on its context |
| `detail/worker_meta` | the ring `reap_queue_`, `cross_queue`, `deferred_tasks`, the current batch | `co_spawn_auto`, `forward_task`, `schedule`, `work_once`, drains | its reactor |
| `io_context` | `will_stop_`, `started_`, `id_`, its thread | constructor, `start`, `run`, `can_stop`, `join`, destructor | worker_meta, reactor, the barrier |
| `detail/io_context_meta` | `create_count`, `ready_count` | `wait_all_ready` | constructors, `start`, destructors |
| `platform/epoll` | the eventfd, the fetched events, one context per descriptor | `wait_completion`, `wakeup`, `register_fd`, awaiters | the kernel; `handle_completion` |
| epoll awaiters, chains, `file_io_pool` | frames' `io_info_`, timerfds and eventfds, `requests_to_reap`, the pool's queue | `co_await` of each operation, `operator&&`, `perform` | `register_fd`, `handle_completion` |
| `task`, `trivial_task` | a frame each: state, parent, result; a pool of frames per thread | call, move, drop, `co_await`, `detach`, `co_spawn` | each other by symmetric transfer, `co_spawn` |
| `shared_task` | `waiters_` (one atomic word), `ref_count_`, the result | `co_await`, copy, drop | the waiters' contexts |
| `generator` | a frame each: root, parent, top; the value yielded | `begin`, `++`, `co_yield`, `elements_of` | nested generators |
| `platform/io_uring` | the two queues of the ring, `requests_to_submit_`, the eventfd and its read | awaiters, links, `poll_submission`, `wait_completion`, `wakeup` | the kernel; `handle_completion` |
| `platform/iocp` | operation objects, `outstanding_work_`, the completion port, the timer thread's heap | awaiters, chains, `wait_completion`, `wakeup` | the kernel, the I/O pool, the timer thread |
| `net`: sockets, acceptors | `sockfd_` | construct, move, `close`, `accept`, destroy | the backend's awaiters |
| `net/tls` | `ssl_`, two memory BIOs, `raw_buf_`, `closed_` | handshake, `recv`, `send`, `shutdown_write`, `close`, `close_graceful` | OpenSSL; a TCP socket |
| TLS context, addresses, log, configuration | | | |

One thread runs one `io_context`. Its coroutines interleave only where one suspends.
Threads meet in few places: the primitives' atomic words, `cross_queue` under its lock,
the eventfd, `will_stop_`, and the two counters of the start barrier. Those are where
ordering is hard, and the models step through them one shared access at a time.

What makes each part correct:

- *mutex*: it excludes; no waiter is lost, resumed twice or read after its frame is gone;
  nobody sleeps on a free mutex; waiters are served in their order and in the end.
- *semaphore*: units are conserved: never more grants than units; a free unit and a waiter
  do not coexist for ever; a waiter is resumed once.
- *condition variable, channel*: a notification wakes somebody who waited before it; items
  come out once, in order.
- *event loop*: a handle, once queued, is in exactly one queue until it is resumed, and is
  resumed; a post from another thread ends the loop's sleep; `can_stop` ends the loop;
  shutdown resumes what was queued.
- *I/O awaiters*: an operation is performed once, after it was awaited and before its
  coroutine goes on; no event or pool thread touches a frame that has moved on; a descriptor
  made for an operation is closed once.
- *start barrier*: no loop starts before all contexts are started; the counters survive
  every order of construction and destruction; an open barrier is passed.
- *when_all, shared_task*: the parent continues exactly once, after the children it needs; the
  shared frame outlives whoever reads it.
- *task, generator*: a frame is freed once and not while it is needed; a result or an
  exception reaches the coroutine that awaits; nested sequences come out in order.
- *completion backends*: operations and completions match one to one; a chain keeps its
  order; the loop does not sleep through a post.
- *sockets*: a descriptor has one owner, although its number is another's as soon as it is
  closed.
- *TLS*: records go through the shared buffer whole and in order; nobody waits for bytes
  that sit in the peer's BIO; the end of the stream comes after all of the data.

`PROJECT.json` ("hazards") lists what is hard to test in this code, at its lines, with the
property that covers each.

## Modules

| module | models | proofs |
|---|---|---|
| `FifoLock` | the abstract lock: one owner, a queue, direct handoff | |
| `Mutex` | `mutex.cpp`; implements `FifoLock` | `MutexAndGeneratorProofs` |
| `EventLoop` | `worker_meta`, `io_context::run`, the epoll reactor's completion side | `IoContextProofs` |
| `AsyncIo` | the abstract awaitable: operations performed once, in order, then the coroutine resumed | |
| `EpollIo` | the I/O awaitables, chains, `register_fd`, `file_io_pool`; implements `AsyncIo` | `EpollIoProofs` |
| `StartBarrier` | life of `io_context`s and `io_context_meta` | `IoContextProofs` |
| `Semaphore` | `semaphore.cpp`, up to the first undefined behaviour | `SemaphoreProofs` |
| `CondVar` | `condition_variable.cpp` over `FifoLock`, up to the first undefined behaviour | `ChannelProofs` |
| `BoundedQueue` | the abstract channel: a queue of bounded length | |
| `Channel` | `channel<T, N>`, N at least 1, over `CondVar`; implements `BoundedQueue` | `ChannelProofs` |
| `Rendezvous` | `channel<T, 0>` over `CondVar` | |
| `Threads` | what coroutine types see of the threads: nested `resume()` and queues of posted handles | |
| `Task` | `task.hpp`, `trivial_task.hpp` over `Threads` | `TypesProofs` |
| `Generator` | `generator.hpp` | `MutexAndGeneratorProofs` |
| `Sockets` | the socket types as owners of descriptors and sessions | `TypesProofs` |
| `SpscRing` | the ring's cursors, which wrap around; implements `BoundedQueue` | `TypesProofs` |
| `DataTypes` | the sum of these four: a behaviour is of one of them | |
| `SharedTask` | `shared_task.hpp` over `Threads` | `TypesProofs` |
| `Gather` | `when_all.hpp` over `SharedTask` | `TypesProofs` |
| `ProactorLoop` | the loop around a backend that completes operations | |
| `Uring` | the io_uring backend over `ProactorLoop` | |
| `Iocp` | the IOCP backend over `ProactorLoop` | |
| `Backends` | the sum of the two, with the properties both must have | `BackendsProofs` |
| `Tls` | `tls_socket.hpp`, both ends of a connection | `TlsProofs` |

The `MC` modules give the constants their values for TLC. In
each module the definitions marked `FAULT of X` are plausible bugs in `X`; no specification
uses them. They are there to show that each property can fail: with the fault in the place
of `X`, the same run finds the property violated.

### Mutex

A coroutine is in a place of the code (`pc`) and in a state of the scheduler (`sched`: in
its context's queues, running, suspended). `Resume` runs it if no other coroutine of its
context runs. The steps of `lock` are the load, and the two compare-and-swaps with their
failure (`Lock`, `RegisterAcquire`, `RegisterEnqueue`, `RegisterRetry`); those of `unlock`
are the test of `to_resume_`, the compare-and-swap to `not_locked`, the exchange with the
reversal, the store of the rest, and `spawn_handle` (`Unlock`, `UnlockRelease`,
`UnlockExchange`, `UnlockPop`, `UnlockSpawn`).

- The linked list of awaiters is a sequence, the newest first; the word that
  `awaiting_` holds is derived from `locked` and that sequence. The code compares heads
  only. A head that left and came back (the same awaiter address) makes its
  compare-and-swap succeed on a different list; the model allows exactly that, because it
  compares heads as well, and pushes on the list as it is.
- A weak compare-and-swap may fail for no reason and try again: a stutter, left out.
- The scheduler's queues are abstracted to `sched` = "ready"; `EventLoop` models them.
- A coroutine uses the mutex any number of times, may hold it across a suspension (once per
  critical section in the model), and calls `try_lock` between.

### EventLoop

One `io_context`, its coroutines, other threads. `at` is the place in `run()`: `check` (the
test of `will_stop_`), `drain cross` (taking `cross_queue`), `forward` (its batch), `drain
deferred`, `work` (`do_worker_part`), `poll` (`wait_completion`), `arm` (the eventfd),
`again` (between two passes of the drain), `exited`. `pass` counts the passes of
`drain_residual_coroutines`. Handles are in `ring` (`reap_swap`), `cross`, `batch`,
`deferred`, or with the coroutine's `state`: running, waiting for a descriptor (`io`, then
`ready`, then `fetched`), held by somebody else who will post it (`held`), `done`.

- `Forward` is `forward_task` with its overflow path to `cross_queue`. `overflowed` records
  that this path was taken (the code logs it there); some properties are claimed only
  while it was not.
- The eventfd is `readable` (its counter is not zero) and `edge` (the kernel still has an
  event to report): an edge-triggered descriptor reports a write once, and re-arming it
  with `EPOLL_CTL_MOD` reports again if it is readable.
- A poster first pushes under the lock and remembers whether the queue was empty (`Post`);
  the write to the eventfd is a step of its own (`Wakeup`).
- A resumed coroutine returns, awaits a descriptor, is handed to somebody who will post it,
  yields, awaits an operation without an event, spawns, or stops the context, in any order.
- `Interrupted` is EINTR: it returns without events. The kernel interrupts only a wait that
  has nothing to report, so it is enabled only then.
- `epoll_wait` returns what is ready, and `MaxEvents` (`max_events_`, 4096 in the code) events
  at most: with more it returns that many of them and leaves the others at the head of the
  kernel's ready list (`late`), which the next one returns first. Among events that
  wait equally long any may come first.
- Left out: what `EpollIo` models (`requests_to_reap`, the chain path of
  `handle_completion`, `register_fd`), and the modular arithmetic of the ring's cursors,
  which are an index into a ring of bounded length.

### EpollIo

The other half of the same loop: what an event points to. Cross-thread posts, deferral and
overflow are `EventLoop`'s; here the ring is unbounded and the loop's place `at` is `work`
(`do_worker_part`), `poll`, or `complete`, so that a poll that finds no event is a stutter.
An awaiter is a pair, its coroutine and its place in a chain; `awaiter` holds what a
coroutine has constructed, `stage` which of it is awaited, `done` whether its result has
been written.

- `Construct` is the constructor (counting itself in `requests_to_reap`; a timer makes its
  timerfd there), `Await` the `await_suspend` of one operation or of a chain, `Issue` the
  `do_issue_io` they share with the completion of a chain's first operation.
- `register_fd` is one-shot: `EpollWait` takes every ready registration away and keeps its
  pointer in `fetched`, to be served one per turn by `Perform` in any order. There is no
  `max_events_` here: two coroutines never have 4096 registrations, and what happens
  beyond is in `EventLoop`. `Complete` is `handle_completion`.
- Descriptors are numbers that the kernel gives out again, the lowest first. Readiness is
  kept for registered directions only: `EPOLL_CTL_ADD` and `MOD` look at the descriptor, so
  it makes no difference when it became ready.
- A thread of the pool takes a task, does the I/O and writes the result into the awaiter
  (`FileIo`), and writes to the eventfd (`Signal`), each a step of its own.
- `Kind` are the operations of the program: recv and recvfrom are a case of accept (which may
  make no descriptor), sendto and connect of send, shutdown and nop of close. The destructor
  of a socket closes its descriptor as `AwaitClose` does, without a suspension.
- `Duplex` = FALSE: a coroutine awaits only sockets no other coroutine has an awaiter for.
  That is a condition on programs, under which the properties are claimed.
- A close as the second operation of a chain makes `handle_completion` call a null pointer
  (`IssueNull`); the loop's part of the model ends there.

### StartBarrier

Owners construct, start, stop and destroy `io_context`s; every access to `create_count` and
`ready_count` and every notification is a step. `wait(cur)` blocks when the value is `cur`
and looks again only when notified, which is the rule of `std::atomic::wait`. The event loop
after the barrier is one state, left when `will_stop_` is set. `Destroyed` says which
contexts the program destroys (running ones, never started ones).

### Semaphore

The same view of coroutines and contexts as in `Mutex`, with the running coroutine of each
context in `current`. `acquire` is the compare-and-swap of `await_ready` (`AcquireReady`,
`AcquireSuspend`), the insertion, the second look at the counter, the store of `consumed_`
and the coroutine's own `spawn_handle` (`Insert`, `Recheck`, `Consume`, `PostSelf`).
`release` adds its units (`Release`), then for each: `Fetch` (the cached list, or all of
`awaiting_`), `Relink` (one awaiter of the reversal), `Pick` (the second look at
`consumed_`), `Subtract`, `Post`. A compare-and-swap loop is one step: its failed rounds
change nothing. `notifier_mtx_` is taken in `Fetch` and left in `Pick`, the accesses next to
its `lock` and `unlock`.

Awaiters live in coroutine frames. `undefined` records a read of an awaiter whose coroutine
has moved on, a new awaiter in the place of one that is still pointed to, and a handle that
is queued for a coroutine that does not wait; the model stops there, since the program has no
defined behaviour after it. So the properties of this module are about executions up to that
point. TLC reaches all of these: whenever a waiter serves itself, its awaiter stays on a
list, and only a release that comes before the coroutine resumes filters it out.

`gaveUp` is a history variable: a release left `try_release` by the path that does not ask
`awaiting_` (`semaphore.cpp:113`, see below); `UnitsMeetWaiters` makes an exception of it.

### CondVar

`CondVar` uses the mutex as `FifoLock` describes it, which is what `Mutex` is shown to
implement: `lock`, `unlock` and `register_awaiting` are its `Take`, `Join`, `Free` and
`HandOff`, one step each, together with the `spawn_handle` of whoever gets the mutex. A
waiter may be queued on the mutex while it still holds it (it is on the list before it
unlocks), so `Join` does not ask that the client be another than the owner.

`awaiting` and `cache` are the two linked lists as sequences; `tail` is `to_resume_tail_`,
kept because what happens at line 108 depends on which node it points to. `at` is the place
in an operation: `NotifyOne` (the first critical section), `Exchange` with the reversal,
`Store` (the second one), `RegisterOne`; for `notify_all`, `RegisterNext` and `Advance` (the
read of `next_` afterwards) for each waiter, `TakeCache` between the two lists. `hands` is
the list a notifier holds. When a coroutine resumes while a `notify_all` is about to read
its `next_`, its awaiter is gone: `undefined`, and the model stops.

`Notifier` says which coroutines notify each condition variable. Most properties are claimed
when these share one io_context (`OneNotifyingThread`); two producers on two threads, and the
cache's tail, show why (below).

### Channel and Rendezvous

They extend `CondVar`. `doing` is the operation a coroutine is in and `item` what it carries;
a coroutine that is not in the mutex or a condition variable (`at` = "out") goes on with its
operation. The ring's accesses, all made with the mutex held, form one step with the
`unlock` after them; the notification is a step of its own. `channel<T, 1>` is the ring with
one slot. The predicate of `wait` is tested again by `AwaitItem` and `AwaitRoom`, which
are enabled whenever the coroutine has the mutex again and there is nothing to take.

In `Rendezvous` nothing asks who holds the mutex: the code does not. An `unlock` of a mutex
that is free sets `undefined`.

### Task, Generator, Sockets, SpscRing, DataTypes

- `Task`: a frame is in the heap, in a thread's pool, or in use, and then running or
  suspended for a reason (`initial`, `await`, `parked`, `woken`, `final`). A running coroutine
  makes tasks, hands them on, awaits or drops them, gives one to `co_spawn`, detaches
  one, suspends on something else, returns or throws, in any order; `owner` is the object
  that holds the task. `operator new` takes the first slot of the pool that fits, and fills
  the gap with the last.
- `Generator`: `gen` holds each frame's promise (`root`, `parent`, `top`) and the awaitable of
  `elements_of`; `calls` are the `resume()` calls nested in one another. Every value read is
  compared with the sequence the bodies yielded, flattened. The arithmetic of
  `_Promise_allocator` is there because `operator delete` must find by the size alone what
  `operator new` has allocated.
- `Sockets`: which object holds which number. `closing` are the closes whose coroutine has
  given the descriptor up and that the backend has not performed; `others` are descriptors
  of the rest of the process, which takes any free number at once.
- `SpscRing`: the cursors count modulo 2^`Bits`, the slots modulo `SwapCapacity`; `offered` is
  the handle `forward_task` holds and the one `schedule` has taken. `EventLoop`
  may use a sequence because `Contents` is one.
- `DataTypes` lets a behaviour be of one of these, as they share no state; one run checks
  them all.

### SharedTask and Gather

`SharedTask` steps through `try_await` and `final_awaiter` one access of `waiters_` at a time:
the load of `await_ready`, the start, the compare-and-swap; the exchange, the posting of
each waiter, and the read of its `next` after that. `Gather` puts children of several
parents over it: `SpawnAll`, the countdown or the mutex-guarded results, the `resume()` of
the parent on the stack of its last child, and `await_resume`. A child awaits the shared task or something
of its own, and returns or throws.

### ProactorLoop, Uring, Iocp, Backends

A coroutine's step from one `co_await` to the next is one action, since nobody else sees it;
what interleaves is the kernel, the helper threads, the thread that posts and stops, and
the loop's phases.

- `Uring`: an awaiter fills its entry when it is constructed (`sq`); the entry moves to the kernel
  (`kern`) when `submit` succeeds and comes back in `cq`. The eventfd's read is an entry like
  any other, with the name `Wake`.
- `Iocp`: the operation object belongs to the awaiter, the kernel, the pool or the timer thread,
  or is in the port. `ready_` says who resumes the coroutine, the issuer or the packet.
  `left` is the time until a timeout's deadline; the timer thread takes in what was
  submitted, sleeps, and posts what has expired, in separate steps.
- `Backends`: `backend` is chosen at the start, and the properties are stated once for both.

### Tls

Each end has a coroutine, an OpenSSL session and two BIOs. The session is external: from
how `tls_socket` calls it, it takes whole records from `rbio`, leaves parts of records in `wbio`
and answers done, want-read, end or error. `FlushSend` and `Flushed` are the loop of
`flush_wbio` through `raw_buf_`. The connection holds `Buffer` parts of each direction:
`tcp_.send` is suspended while there is no room, so until the peer receives, and then takes
a part of the bytes or all of them (`FlushSend`); `TcpRecv` brings any portion of what has been
sent that `raw_buf_` has room for. Parts are numbered along an end's stream, so one
that is lost, repeated or moved shows in `RecordsIntact`. The connection breaks by itself (`Break`)
or since bytes came for a closed socket (`Refuse`).

## Runs

| run | shows | instance |
|---|---|---|
| `mutex` | `ListSound` (every waiter on one list, alive), `HolderSound` (exclusion, assertions), `WaiterServed`, refinement of `FifoLock`, no deadlock | 4 coroutines on 2 contexts |
| `event_loop` | `HandlesConserved`, `NoWakeLost` (posts and `can_stop` end the sleep), `ResidueResumed`, `FifoKept`, `LoopServes` (liveness of posts, I/O and stop) | 3 coroutines, 1 other thread, ring of 2 |
| `start_barrier` | `CountersSound`, `BarrierHolds`, `BarrierOpens` | 3 contexts, 2 owners |
| `semaphore` | `WaitersListed`, `UnitsMeetWaiters` (bounded over-grant, no lost wakeup), `ServedInOrder` | 3 coroutines on 3 contexts, releases of 1 or 2 |
| `condvar` | `WaitersSound`, `NotifyFindsWaiter`, `ServedInOrder` | 5 coroutines on 2 contexts, 2 notifiers on one |
| `channel` | `NobodyForgotten`, refinement of `BoundedQueue`, no deadlock | 2 producers, 2 consumers, capacity 2, 2 items |
| `epoll_io` | `FramesSafe` (no event into a dead frame, no descriptor leaked), `NoneForgotten`, refinement of `AsyncIo`, `Served` | 2 coroutines, 1 pool thread, 2 descriptors, chains of 2 |
| `data_types` | `TasksSound`, `GeneratorsSound`, `OwnedOnce`, `RingIsQueue` | 3 frames on 2 threads; 3 generators; 3 sockets, 2 descriptors; cursors of 3 bits |
| `gather` | `SharedSound`, `ResultsRight`, `GatherReturns` | 2 parents, 3 children, 2 threads |
| `backends` | `CompletionsMatched`, `ChainInOrder`, `WakeKept`, `TimersInOrder`, `IoServed` | 2 coroutines, each backend |
| `tls` | `RecordsIntact`, `NothingWithheld`, `FullyReceived`, `CallsEnd` | both ends, records of 3 parts, a `raw_buf_` and a connection that hold 2 |
| `rendezvous` | violation: a free mutex is unlocked | 1 sender, 1 receiver |

The first invariant of a run includes the module's type invariant, where it has one.

**Bounds.**

- *mutex*: with four coroutines one holds, one is being handed the lock, and two can be on
  different lists at once, which is where order could break; two contexts give parallelism
  and, with two coroutines each, the case that a waiter's thread is busy.
- *event_loop*: a ring of two overflows with three handles; `MaxEvents` of three is one
  less than the events of three coroutines and the eventfd, so an `epoll_wait` may leave
  one behind; the other thread posts and stops. `MaxPosts` bounds what a coroutine posts
  in one pass of `do_worker_part` (a pass ends: a program whose coroutines post without
  end never leaves it, in the code too).
- *start_barrier*: three contexts allow one to be destroyed, one to block and one to start at
  once.
- *semaphore*: two coroutines can be at any two places of `acquire` while the third releases,
  each on a thread of its own; `MaxCount` leaves out releases that would raise the counter
  above two, which is the most one release gives and so enough for one unit to be disputed
  and one left.
- *condvar*: with five coroutines two are cached while others wait anew, so the seam between
  the lists is crossed, and waiters are on the notifier's thread and on another.
- *channel*: two of each kind can overtake each other, a ring of two wraps around, and two
  different items show an order.
- *epoll_io*: two coroutines are the least with which one's event waits in `fetched` while the
  other closes, opens and registers descriptors; with two descriptors their numbers are used
  again at once and run out. `MaxSync` bounds the closes in one pass of `do_worker_part`;
  `MaxReap` bounds the drift of `requests_to_reap`: a second operation is joined only while
  it is at most four, which lets two chains be under way at once.
- *data_types*: three frames make a chain of two awaits, or two in different pools; two
  threads let a task be made on one and end on the other; two poolable frames fill `PoolSlots`
  of two, and a frame that finds the pool full is left to the theorem `TasksKept`.
  Three generators nest twice, and `Yields` of two lets one go on after a nested one.
  Three objects hold two descriptors while two closes (`MaxClosing`) are under way. `Bits` of
  three with a capacity of four wraps the cursors every second turn. Frames, threads,
  descriptors, sessions and handles are symmetric; the run has no liveness.
- *gather*: with three children under two parents, `some` asks for fewer, as many and
  (`MaxNeed` = 3) more than there are, and the shared task has readers on both threads.
- *backends*: two coroutines make two timeouts, or the halves of two chains, be in flight
  together; a submission queue of two `Entries` overflows; `MaxFail` lets a submission fail
  once. `Durations` of one and two order and reorder deadlines, and the timer thread may be
  late by `MaxLate`. The expressions have each class of operation (of the peer, prompt, timed,
  of the pool, performed at once) alone, first or second of a chain.
- *tls*: records of three parts and a `raw_buf_` of two, so that a record never fits and every
  record is cut and joined; one record of data (`MaxData`) each way besides handshake,
  alerts and close_notify; one failure of the network (`MaxResets`). A connection of two
  parts (`Buffer`) holds less than a record, so nobody gets a record out whose peer does not
  read.

Deadlock is checked in `mutex` and `channel`, whose coroutines always have something to do;
the other systems rightly stop: a loop that was stopped, contexts that are all destroyed, a
coroutine that waits for a peer, a model that has reached undefined behaviour.

**Fairness.** A thread that can take a step takes it (weak fairness of each thread's
steps). In `Mutex`, resuming a queued coroutine has strong fairness: its context's thread
is busy again and again, but its queues are first in first out, which `EventLoop` checks
(`LoopServes`, `FifoKept`). In `EventLoop` nothing forces the kernel to find a descriptor
ready or anybody to post or stop. In `EpollIo` the loop, each thread of the pool and each
timer are fair, sockets are not: `Served` speaks of sockets that are ready. A resumed
coroutine leaves the thread in the end. In `Backends` the threads run, time passes, and
the kernel finishes what depends on nobody; what waits for a peer may wait for ever. In
`Tls` each end's coroutine is run when its operation has completed, what is sent arrives,
and bytes for a closed socket are answered by a reset; nobody is forced to call anything,
so nobody to read, and `CallsEnd` lets a `send` or a `close` wait for a peer that never
does. In `Gather` steps are taken while there are any.

### What the violation shows

`release` of `channel<T, 0>` unlocks, notifies, and waits on `acquired_cv_`, which unlocks
again. One sender alone fails the assertion of `mutex::unlock`. The test of this channel
(`test/code_review_fixes.cpp:186`) is skipped over a crash.

### What the models also reach

These are behaviours the models contain and the properties leave room for, without a run of
their own.

- `EventLoop`: `do_completion_part` always calls `epoll_wait(-1)`. `doc/BugFixed.md`
  requires a non-blocking wait when coroutines are deferred and no I/O is in flight. A
  coroutine that yields alone sleeps until some other event (`DeferredNeverBlocks` fails).
- `Semaphore`: `try_release` finds its cached waiters consumed at its second look and
  returns, though `awaiting_` has a waiter and the counter a unit (`NoneForgotten` fails,
  `semaphore.cpp:113`). `UnitsMeetWaiters` makes an exception of such a release only.
- `Channel`: two producers on two threads pass `condition_variable.cpp:79` with the cache
  empty. The first takes all waiters at line 82, the second finds none and returns. One item
  then has no notification, and a consumer that waited all along sleeps beside it. So
  `NobodyForgotten` is checked with the producers on one io_context; `WokenWhenAvailable`
  fails with the contexts of `Mixed` in `MCChannel`.
- `Semaphore`: a release increments `counter_`, another thread's acquire takes the
  unit, and the release gives it to a waiter all the same; the counter is then negative, against
  `semaphore.hpp:25`. `UnitsMeetWaiters` says how far this goes: at most `MaxUpdate` units per
  other context, and not at all with one context. And `undefined` = "resumed twice": a release
  picks a waiter between its taking a unit and its being marked.
- `EventLoop`: the overflow path of `forward_task` leaves a non-empty `cross_queue` without a
  wakeup, so that later posters do not wake the loop either (`NoWakeLost` is claimed only
  without an overflow).
- `CondVar` with notifiers on two contexts (`ListedOnce` as an invariant, `Notifier` with a
  coroutine of each): a notifier that finds a cache at line 99, where there was none at line
  71, links one node to its tail. The reversal has not linked that node to the others, since
  only `succ` heads them: they are on no list and are never notified, against the comment at
  `condition_variable.cpp:107`.
- `EpollIo` with `Duplex` = TRUE: of two coroutines on one socket, one reading and one
  writing, the second registration replaces the first, whose coroutine is never resumed
  (`NoneForgotten` fails after 8 steps). `examples/netcat.cpp:43-44` starts such a pair.
- `EpollIo` with `Kind` containing "past": a timeout of zero, or `timeout_at` of a time gone
  by, arms the timer with zero, which disarms it, and the coroutine is never resumed
  (`epoll_lazy_io.hpp:705`; `async_io.hpp:114` says it is resumed when the time is over).
- `EpollIo`: with no descriptor free, an operation that needs one is not registered and
  never resumed; a close at the head of a chain is neither performed nor followed by
  anything, and as a chain's second operation it is a call of a null pointer; and
  `requests_to_reap` gains two with every chain, so it is a bound and not a count.
- `Uring`: with the submission queue full, an awaiter is built on a null pointer
  (`io_uring_lazy_io.hpp:76`), and `arm_eventfd` returns without arming, so that no wakeup
  is heard any more (`Deaf`, `io_uring_proactor.cpp:64`); `poll_submission` forgets the count
  of entries whose submission failed, which go with the next call that submits.
- `Iocp`: an operation that cannot be issued posts its packet with `ready_` clear;
  `wait_completion` returns 0 for it (`iocp_proactor.cpp:239`), and the coroutine is never
  resumed (`dropped`), against the comment at `iocp_win_io.hpp:82`. A chain runs its second
  operation although the first failed, where io_uring cancels it.
- `Gather`: a child that ends with an exception does not count (`when_all.hpp:110`), so
  its parent may never go on; `GatherReturns` is for parents with `Enough` children.
- `SharedTask`: the final awaiter reads `next` of a waiter it has posted already
  (`shared_task.hpp:42`); `SharedSound` shows that the waiter can be gone only if it belongs to
  another io_context (`late`).
- `Task`: `co_spawn` from a thread that has no io_context frees the frame and runs
  nothing (`io_context.cpp:264`).
- `Tls`: `send` returns its count although the flush failed (`tls_socket.hpp:450`), a
  refused handshake never sends its alert (495), and `close_graceful` gives up when
  application data of the peer comes first (306). `flush_wbio` awaits `tcp_.send` (448),
  which waits for room in the connection: two ends that both send, or of which one closes,
  with both directions full, wait for each other for ever, since neither reads (`CallsEnd`
  without `Blocked` fails, in a few seconds). So `close` does not wait for the peer's
  answer (285), but it does wait for the peer to read. A `recv` that fails returns without
  a flush (236-239), and the alert that the session says to bytes that are no record would
  stay in the write BIO; no peer here sends such bytes. Two coroutines in `recv` and
  `send` of one socket would share `raw_buf_`, and `close` during a suspended `recv` frees
  the session under it (299): the model has one coroutine per end.
- `Sockets`: `accept` makes a socket of a negative errno (`tcp_acceptor.hpp:67`); `close` takes
  the descriptor out before it is awaited (`socket_base.hpp:242`), so an awaitable that is
  dropped leaks it (the model always awaits).
- `StartBarrier`: ids come from a counter that destructors decrement, so two living contexts
  can have the same; and the destructor of a context that was never started opens the barrier
  and notifies, but `ready_count` has not changed, so that `wait(cur)` keeps waiting.

Nor is it claimed that shutdown runs everything: the rounds of `drain_residual_coroutines` are guarded by
`has_task_ready()`, which looks at the ring only; a coroutine that yields during the drain
stays in `deferred_tasks`, against the comment at `io_context.cpp:199`. `ResidueResumed`
claims only what was queued when the drain began.

`BarrierOpens` is stated for programs that have torn down nothing, because of that destructor
and of a second way to the same end: a thread reads `ready_count`, a destructor and a
`start()` take it down and up again, and the thread then blocks in `wait(cur)` on its old
value at an open barrier.

## Proofs

For every value of the constants (any coroutines, contexts, threads, capacity):

| module | theorem | property |
|---|---|---|
| `MutexAndGeneratorProofs` | `TypeCorrect`, `Exclusion`, `NoWaiterLost`, `SleepersWaitForHolder`, `AssertsHold`, `NoDanglingAwaiter` | the parts of the two invariants |
| | `ListsKept`, `HolderKept` | `ListSound`, `HolderSound` |
| | `Refinement` | `ImplementsFifoLock` |
| | `GeneratorsKept` (`Generator`) | `GeneratorsSound` |
| `IoContextProofs` | `TypeCorrect`, `NoPostSleptOver`, `NoStopSleptOver` | `TypeOK`, `PostsWake`, `StopWakes` |
| | `NoneSleptOver` | `NoWakeLost` |
| | `Conserved` | `HandlesConserved` |
| | `OrderPreserved` | `FifoKept` |
| | `Drained` | `ResidueResumed` |
| | `BarrierTypes`, `CountersExact` | `BarrierTypeOK`, `CountsExact` |
| | `CountersKept`, `BarrierHeld` | `CountersSound`, `BarrierHolds` |
| `SemaphoreProofs` | `NobodyMislaid` | `WaitersListed` |
| | `UnitsMet` | `UnitsMeetWaiters` |
| | `InTheirOrder` | `ServedInOrder` |
| `ChannelProofs` | `WaitersKept` (`CondVar`) | `WaitersSound` |
| | `EmptyHanded` | `NotifyFindsWaiter` |
| | `LongestFirst` | `ServedInOrder` |
| | `Refinement` (`Channel`) | `ImplementsBoundedQueue` |
| | `Woken` | `NobodyForgotten` |
| `EpollIoProofs` | `FramesKept` | `FramesSafe` |
| | `NobodyDropped` | `NoneForgotten` |
| | `Refinement` | `ImplementsAsyncIo` |
| `BackendsProofs` | `Accounted` | `CompletionsMatched` |
| | `Chained`, `Woke` | `ChainInOrder`, `WakeKept` |
| | `InOrderOfDeadlines` | `TimersInOrder` |
| `TypesProofs` | `SharedKeeps` (`SharedTask`) | `SharedSound` |
| | `TakenInOrder` (`Gather`) | `ResultsRight` |
| | `Owned` (`Sockets`) | `OwnedOnce` |
| | `TasksKept` (`Task`) | `TasksSound` |
| | `RingServes` (`SpscRing`) | `RingIsQueue` |
| `TlsProofs` | `RecordsKept` | `RecordsIntact` |
| | `AllFlushed` | `NothingWithheld` |
| | `EndReached` | `FullyReceived` |

Assumptions: the named ASSUMEs of the modules. They are what the code has: contexts are a
finite set in `StartBarrier`, coroutines in `EpollIo`, both in `Semaphore`, where there is at least one context; `NotLocked`, `LockedNoAwaiting` and
`NoCoro` are no coroutines; a capacity is a positive number; an expression that is awaited is
one operation or a chain of two, of the kinds its backend has; the waiters and the parents of
`Gather` are finitely many and no coroutine is both, nor the body of the shared task, and a child
runs on the io_context of its parent, which spawned it there; the frames of `Task` are finitely
many blocks. `LayoutAssumption` says what a compiler and an operator new guarantee of the frames of
generators: memory comes aligned to 16 bytes, an alignment is 1, 2, 4, 8 or a multiple of 16,
and a state's size is a multiple of its alignment. The static_assert of `spsc_cursor` says that a capacity is a power of two below the
range of the cursors; as the provers know nothing of powers, `RingAssumption` also says what
follows: both are positive numbers, the range is larger than the capacity, and is divided
by it. TLC evaluates the two parts on the same instance. The theorems of
`EpollIoProofs` have the hypothesis `~Duplex`: no two coroutines use one descriptor at once.
With `Duplex` what they say is false (see "What the models also reach").

`MutexAndGeneratorProofs` holds the proofs of two modules that share nothing, one after the other.

- *Mutex.* None of the invariants is inductive alone. `IInv` joins them: to keep waiters
  listed one must know that only one coroutine is in `unlock` (exclusion), and exclusion
  needs that the coroutine being served is asleep and not the holder (listed, alive). One
  lemma per action; the refinement follows from `IInv` in the state before each step.
- *EventLoop.* `IInv = TypeOK /\ PassesInOrder /\ PostsSeen /\ StopSeen`. `PostsWake`
  speaks of a sleeping loop only; the strengthening says, for every place of the loop, why
  a non-empty `cross_queue` will be seen: the loop has yet to drain it, or will not sleep
  this time (it has fetched the eventfd, is about to re-arm it, or a write is coming).
  `Conserved` counts places: each of the loop's moves takes a handle from one queue and puts
  it into one other, of which a coroutine that is queued is in exactly one. `OrderPreserved`
  looks at the queue from the ring to `cross_queue` as one sequence, which a step shortens in
  front, extends at the end, or leaves. `Drained` needs both: what the loop found when it saw
  `will_stop_` can only be where the drain still goes.
- *StartBarrier.* `BarrierInv = BarrierTypeOK /\ StartedFollows /\ CountsExact /\ ReadIsLow`. The last
  says that a `ready_count` read earlier is not more than the present one while nothing is
  torn down: that is why reading the two counters one after the other is safe.
- *Semaphore.* `IInv` has the types, where each coroutine is (`PlaceInv`), how far the counter
  falls, and, while the program has defined behaviour, three parts. `OnceInv`: nobody is twice in
  the queue, or both there and in the hands of a release, or linked again while a list
  points to it. `KeptInv`: who waits is in the queue or chosen. `UnitsInv`: while somebody sleeps
  in the queue, the units that are there are in flight, even without those of a
  release that had found nobody before the sleeper came. The last is why `release` may
  leave its units in the counter: whoever comes later looks at the counter again. It is claimed until
  `gaveUp`, which marks the release that does not ask `awaiting_` again. The queue is one
  sequence (`WaitQueue`); a step of `try_release` leaves it, or drops consumed waiters from it
  (`Thins`), and so keeps its order. What is left of `to_resume_` when all of it is consumed
  (`Left`) has to be followed too: the queue gets it back when the release finds nobody.
- *Channel.* `IInv = RingInv /\ ItemInv`: `last_` is `size_` slots after `first_`, wrapped, and
  these slots hold items. Two lemmas about the ring (`Pushed`, `Popped`) say what `push_one`
  and `pop_one` do to the queue it stands for; the rest is one lemma per operation. Nothing
  about the condition variables is needed: the predicate is tested again with the mutex held.
- *Condition variable.* `CondVarInv` is the types and four parts. `OpInv`: only a coroutine that
  runs is inside `notify`, and it holds waiters only while it passes them on. `MutexInv`: who is
  queued to return from `wait` or `lock` owns the mutex, and nobody is behind a free one.
  `ListInv`: whoever is on a list waits, on one list, once, and for that condition variable.
  `KeptInv`, the converse, needs one notifying thread: whoever waits is on a list, and the cache
  is empty between the two critical sections of `notify_one`, so that storing the reversed
  rest there overwrites nobody. The lists are taken as one function (`Lists`), and each operation
  is one of seven things done to it (`Deed`): one list's head moves to another's end, a list is
  reversed into another's place, one more joins, and so on. `LongestFirst` follows who is
  in front in `Line`, the cache or what the notifier holds and then `awaiting_` reversed.
- *The channel's wakeups.* `WakeInv` adds to `CondVarInv` and `IInv` how each part of a channel
  operation goes with the mutex (`UseInv`), that finitely many coroutines use the channel, and
  `ServedInv`: while somebody waits unnotified on a condition variable, there are at least as
  many coroutines on the way (about to look, about to notify, or inside `notify_one`) as there
  are items or free slots. A step that takes a coroutine off the way takes an item, passes its turn on to the
  waiter it wakes, or has found nobody: by `EmptyHanded` then nobody waits unnotified.
  When nothing runs nobody is on the way, so there is nothing for those who sleep.

- *EpollIo.* `IInv` has five parts: types; `TurnInv`, that a coroutine is running, queued or
  suspended, and has awaiters only if it runs or is suspended; `ReapInv`, that
  `requests_to_reap` covers the suspended; `OwnInv`, one awaiter for each
  eventfd and timerfd; `PointInv`, for each pointer (in epoll, among the fetched events, in
  the pool) which suspended operation it means, and that whoever waits is pointed to. `PointInv` is why a
  pointer into a frame is safe: the coroutine that owns the frame waits for the very
  event that carries it, and nobody else can resume it. `FramesKept` and `NobodyDropped` are
  the two directions of this correspondence. The refinement maps what is left of an expression
  to what the abstract await has yet to perform, and needs `IInv` for the steps that complete.
- *Backends.* `UringOK` and `IocpOK` say where each operation is: in the submission
  queue, the kernel, the completion queue, or with the code that completes it, and nowhere
  twice. From these the count of requests and the order in a chain follow. `Woke` needs
  its own invariant, with the place of the loop and of the eventfd (or of the posted
  packet). `InOrderOfDeadlines` holds because what has been taken is in order, has expired, and is
  due no later than anything that has not been taken.
- *Sockets.* `SockInv` joins types, the phases of an object's life, and an ownership of
  descriptors and one of sessions in both directions: what an object or a close holds is open
  and is nobody else's, and what is open is held. The second direction is needed for the
  first: a number that the system hands out again is nobody's because it was closed.
- *Gather.* `GatherInv` is the types and seven parts, each of which needs others. `PhaseInv`: what
  `waiters_` says of the body (not started, started, finished). `StackInv`: what
  a thread has on its stack; the body and a parent run on top until they sleep, so that nobody
  takes their thread before. `QueueInv`: who is queued is so once and for a
  reason. `ListInv`: who waits for the body is in exactly one of the list, the final awaiter's hands
  and its own thread's queue, or about to be linked. `FrameInv`: `refs` counts the
  users of the frame; and a waiter whose `next` is read after it was posted is either still there or
  of another io_context, as on the body's own thread nobody else goes on while the final
  awaiter does. `ChildInv`: a parent's children exist once it has spawned them. `ResultInv`: `order` lists
  who has completed, once each, `remaining` is what it lacks, and a parent that is not resumed has
  had fewer completions than it needs. `SharedKeeps` allows the late read across
  io_contexts because `FrameAlive` does (see "What the models also reach").
- *Task.* `TaskInv` is six parts. `PromiseInv`: what a promise holds in each state of its
  coroutine. `OwnerInv`: a task lives no longer than the coroutine that holds it, and that
  one awaits it while it is under way, so that nothing under way is ever destroyed. `ChainInv`: a
  coroutine awaits one task at most. `TurnInv`: symmetric transfer keeps one coroutine on a thread's
  stack. `WaitInv`: exactly the coroutines a loop has to resume are queued, once each. `PoolInv`:
  a pool's slots are distinct blocks, and no block is in two pools or in a pool and in use. What
  is destroyed together is a least closed set (`Tree`); no induction over it is needed, because
  the coroutines that are suspended at their start or end, with the one destroyed,
  are a closed set already (`GoneTogether`), and a least one is inside every closed one.
- *Generator.* `GeneratorInv` is five parts. `Frames` is the shape of what is alive: a frame is
  destroyed with or before the one that made it; one spliced in by `elements_of` belongs to
  the one that waits for it and to nobody else; a chain of splices ends at the one frame that the
  iterator's `_Top` names; and the `resume()` calls nest, each made from the body that
  runs in the next. It also has that frames can be numbered so that each has a larger number
  than its owner (`Ranked`), which is what keeps splices from going in a circle. `LogShape` says which
  frame an entry of a log speaks of, and that a splice still under way is the last one.
  `FlatShape` says that there is a function that solves the equation of `Flat` and gives what the
  iterators have read; each step builds the next such function from the last, so that no induction
  over the nesting is needed, and as a splice names a larger number there is only one
  (`FlatUnique`), which is then `Upto`. `RaisedShape` and `ErrorsFound` follow an
  exception: only the topmost call may hold one, and a body that threw is caught, held or has
  made its owner throw.
- *SpscRing.* `RingInv` bounds cursors and size. A position that has not gone around
  twice has the slot of its number without the wrap, because the capacity divides the range
  (`RoundsForgotten`); less than a capacity apart, two positions have different slots
  (`SlotsDiffer`). So `push` writes over nothing that is inside (`PushStep`), and `pop` shifts
  every position by one (`PopStep`).
- *TLS.* The records of one direction, taken as numbered parts, lie in the peer's session, its
  read BIO, the network, `raw_buf_` and the write BIO, and each of these is a run of
  consecutive numbers that begins where the one before ends (`FlowOK`). To keep this one needs
  that the session accepts each record it meets, which the order of the handshake
  gives (`HandshakeOK`), that a dead session has sent its `close_notify` or alert (`DeadOK`),
  and that a socket that goes takes no bytes with it (`FlushedOK`). `EndReached` needs that
  no data is made after `close_notify` (`MadeOK`) and that what `recv` has counted is the data among
  the records it has taken (`EndOK`).

TLC alone checks liveness and whatever rests on fairness, `Rendezvous` among it, whose property
is of that kind: the provers do not reason about ENABLED. Every other property of a
passing run is a theorem, some under the hypotheses named above (`~Duplex`; one notifying thread).

## Not modelled

- *TLS context*: settings of an OpenSSL context, made once and then read.
- *Addresses, the transport concept*: conversions without state, and what the compiler checks.
- *Log, configuration, thread-local pointers*: output, constants and type selection. The sizes
  are CONSTANTS of the models; `this_thread` is the thread or context that takes a step.
- *Examples, benchmarks, stress tools*: programs that use the library, read for how they
  combine its operations.
- Of the backends: what has no caller in the library (`modify_fd`, `unregister_fd`,
  `poll_completions`, `cancel`, `detach`, `acquire_operation`); what liburingcxx does below whole
  entries; the loading of the Windows extension functions; a `wakeup` that races with
  `deinit`, whose outcome depends on who has the closed descriptor's number by then.
- Of the sockets and TLS: option values, host names, ALPN, and two coroutines in one
  `tls_socket`.
