# A TLA+ model of indecorous

indecorous (`src/src`) is a C++ library for cooperative concurrency: coroutines on a
fixed set of threads, messages between the threads, and the usual objects to wait on.
This directory holds TLA+ modules that model its parts, TLC configurations that check
them on small instances, and proofs checked by TLAPS. Line numbers below are those of
`src/src` unless a path says otherwise. `PROJECT.json` maps every definition to the
lines it models.

## 1. Inventory

| part | state it keeps | operations | what must be right |
|---|---|---|---|
| MPSC queue (`containers/intrusive.hpp`) | `m_front`, atomic `m_back`, a next pointer per node | `push` by any thread, `pop`, `size` by one | FIFO, nothing lost behind a stalled producer, no node touched after it was handed out |
| local stream (`rpc/stream.cc`) | queue, eventfd | `write` by any thread, `read`/`wait` by the owner | no lost wakeup, every message read |
| io stream (`rpc/stream.cc`) | queue, semaphore eventfd, spinlock | `write` by any thread, `read` by all io threads | one consumer at a time, a token for each message |
| thread barrier (`coro/barrier.cc`) | side, two counters, mutex, condition variable | `wait` | nobody passes before everybody came, everybody passes |
| shutdown (`coro/shutdown.cc`) | one atomic count of all work, the targets | `reset`, `begin_shutdown`, `update` | the run ends only, and always, when no work is left |
| scheduler (`coro/sched.cc`) | threads, streams, barrier, policy | constructor, `run`, destructor | each run is complete and leaves nothing behind |
| threads (`coro/thread.cc`) | hub, dispatcher, events, stop flag | main loops of coroutine and io threads | all inboxes are emptied while a run goes on |
| dispatcher, coroutines (`coro/coro.cc`) | run queue, cache, delta of live coroutines | spawn, swap, notify, release | a coroutine is in one place; every delta is reported; a child does not outlive the frame it refers to |
| coroutine pool, coroutine map (`sync/coro_pool.hpp`, `coro_map.hpp`) | semaphore, drainer | the loops, destruction of the pool | bounded concurrency, all finished at return |
| message hub, targets (`rpc/hub.cc`, `rpc/target.hpp`) | promises of replies, ids | call, broadcast, reply, spawn a handler | each promise gets the answer to its own request, once |
| serialization, messages (`rpc/serialize*.hpp`, `rpc/message.cc`) | a buffer of a computed size | size, push, pull of each type | the size is exact, the receiver reads what was written |
| event loop, file waits (`coro/events.cc`, `sync/file_wait.cc`) | fd map, pending changes, callbacks | add/remove, apply, sleep, walk | the kernel knows of every wait; a waiter is called once, and not after it left |
| timers (`sync/timer.cc`) | times in two parts, period, waiters, ordered list | start, stop, wait, ring | never early, in order, the thread sleeps until the next and no longer |
| tcp connections (`io/tcp.cc`) | read buffer, two mutexes | read, read_until, peek, write | the bytes come once and in order, whatever calls are mixed |
| files (`io/file.cc`) | descriptor, requests at io threads | open, read, write, truncate | all is transferred, or an error says so |
| event, `wait_any`/`wait_all`, interruptors (`sync/event.cc`, `multiple_wait.*`, `interruptor.cc`) | waiters of each, the pending wait of a coroutine, a chain of interruptors | set, reset, wait, interrupt | one wakeup per wait, no dangling callback |
| semaphore (`sync/semaphore.*`) | capacity, available, two lists, counts of each acquisition | acquire, release, combine, extend, remove, resize, move | conservation, order, nobody waits for what is there |
| mutex (`sync/mutex.*`) | list of locks, waiters of each | acquire, release, move, destroy | exclusion, hand-over to the next |
| drainer (`sync/drainer.*`) | locks, two lists of waiters, `m_draining` | lock, copy, move, drain | `drain()` returns after the last lock, and does return |
| promises and futures (`sync/promise.*`) | a shared datum: state, futures, chained callbacks | fulfil, abandon, then, release, reassign, wait | lifetime of the datum, every chained callback runs or is abandoned |
| cross-thread mutex (`cross_thread/ct_mutex.cc`, `spinlock.cc`) | spinlock, list of acquisitions, a message to the next | acquire, release | exclusion across threads, no notice lost or taken for another |
| flip buffer (`cross_thread/flip_buffer.hpp`) | two copies, which of them each thread reads, a drainer | `apply_write`, readers | a write is one step to everybody, and returns |
| shared registry, handler registration, random, uuid, logging, helpers | | | see section 7 |

**How they interact.** A thread runs a dispatcher until nothing is runnable, then its
event loop. A message to another thread is counted (`target_t::note_send`), pushed on
the receiver's stream and signalled through an eventfd; the receiver's hub spawns a
coroutine for it. Coroutines of one thread call the waitable objects directly; an
object wakes a coroutine by a callback (`wait_done`) that puts it on the run queue, so
that there is always a gap between the wakeup and the turn of the coroutine in which
other coroutines run. Threads report coroutines started and finished to one atomic
counter in a batch; the thread that brings it to zero ends the run of all. A flip buffer
uses the cross-thread mutex, a broadcast of the hub and a drainer; the pool a semaphore,
a drainer and the dispatcher; files the hub, and a promise for the reply.

**What is hard to test.** The gap inside `push()`; a wakeup that races with the
clearing of an eventfd; a barrier that is reused before all have woken; a counter that
is changed in batches by several threads while work moves between them; results that
arrive between a wakeup and the turn of the coroutine; objects that are moved or
destroyed while others wait on them; callbacks that run other callbacks (promises), or
take themselves out of the list that is being walked (event loop); changes of the epoll
set that are recorded now and applied later, when the descriptor may be another one; a
notice of the mutex that arrives when its acquisition is gone; a broadcast of which some
threads have seen a part; replies in another order than the requests, to callers that
have given up. `PROJECT.json` lists the places under "hazards", with the properties that
watch them.

## 2. Modules

| module | models | composes / abstracts |
|---|---|---|
| `FifoQueue` | what a queue with overlapping pushes and pops promises | abstract specification of `MpscQueue` |
| `MpscQueue` | `mpsc_queue_t`, one action per access to shared memory | refines `FifoQueue` |
| `LocalStream` | `local_stream_t` and the loop of its owner | extends `MpscQueue` |
| `IoStream` | `io_stream_t`, `eintr_wrap`, the spinlock | extends `MpscQueue` |
| `Rendezvous` | what a barrier promises | abstract specification of `Barrier` |
| `Barrier` | `thread_barrier_t` | refines `Rendezvous` |
| `CrossThread`, `CrossThreadProofs` | one object of those above per behaviour; theorems about the queue and all of them | `MpscQueue`, `LocalStream`, `IoStream`, `Barrier` |
| `Shutdown` (`MCShutdown`), `ShutdownProofs` | `scheduler_t::run`, `shutdown_t`, accounting of dispatcher, hub and targets; their theorems | streams as FIFO sequences, the barrier as one step |
| `Semaphore` | `semaphore_t`, `semaphore_acq_t` | |
| `Mutex` | `mutex_t`, `mutex_acq_t` | |
| `Drainer` | `drainer_t`, `drainer_lock_t` | |
| `LockObjects`, `LockProofs` | one of the three objects above per behaviour; theorems about all three | `Semaphore` by `INSTANCE`, `Mutex`, `Drainer` |
| `Waiting` (`MCWaiting`) | `event_t`, `multiple_waiter_t`, `interruptor_t`, the wait of a coroutine | |
| `Promise` (`MCPromise`) | `promise_t`, `future_t`, `promise_data_t`, chains and the calls they make | |
| `WaitingProofs` | theorems about the waits and about promises | `Waiting`, `Promise` |
| `Dispatcher` | `dispatcher_t`, `coro_t`, `coro_cache_t`, `coro_result_t` | |
| `CoroPool`, `DispatcherProofs` | `coro_pool_t::run`, the loops of `coro_map.hpp`; theorems about them and the dispatcher | extends `Dispatcher`; the steps of a loop are steps of its coroutine |
| `Timers` | `absolute_time_t`; `single_timer_t`, `periodic_timer_t`, the list of timers | |
| `EventLoop` | `events_t`, `file_wait_t`, the coroutines that use them | extends `Timers`; the kernel by what epoll says |
| `Tcp` | `tcp_conn_t` | its two mutexes as FIFO lists |
| `FileIo` | `file_t` and its handlers on io threads | requests and replies in order |
| `Io` (`MCIo`), `IoProofs` | one of descriptors, timers, a connection, files per behaviour; theorems about all of them | `EventLoop`, `Tcp`, `FileIo` |
| `CtMutex` | `cross_thread_mutex_t` and its acquisitions | |
| `FlipBuffer` | `flip_buffer_t` on several threads | extends `CtMutex` |
| `Hub` | `message_hub_t`, the calls of `target_t` | streams as FIFO sequences (`FifoQueue`) |
| `IntegerCodec` | the serializer of the integral types | |
| `Wire` | the other serializers and `write_message_t`, `read_message_t` | `IntegerCodec`; uses RECURSIVE operators, so no theorems |
| `Messages` (`MCMessages`) | a flip buffer, a hub or one message per behaviour | `FlipBuffer`, `Hub`, `Wire` |
| `MessagesProofs` | theorems about the mutex, the flip buffer, the hub and integers in a message | `FlipBuffer`, `Hub`, `IntegerCodec` |
| `FiniteSums` | no part of the system: induction and recursion over numbers, induction over finite sets, and sums, for the proofs | |

The `MC` modules add a symmetry set, or the values a run takes. `LockObjects`,
`CrossThread`, `Io` and `Messages` put components that share no state behind one
specification: no property relates two of them, and a behaviour uses one, which `object`
or `part` names. An operator with an underscore in its name (`Release_NotReady`) is a
mutant: the definition that follows it with one plausible mistake, used to see that a
property can fail.

**Correspondence.** Variables carry the names of the members without `m_`; each
module's comments give the member where the name differs. A cross-thread object has one
action per access to memory or to an eventfd that another thread may interleave with;
for the barrier this is the code between two releases of its mutex. For objects of one
thread, coroutines are switched only where they wait, so a call that does not wait is
one action, with everything it does to other objects (in `Promise`, whose calls nest to
any depth, as many steps as calls): `Destroy` of a semaphore
acquisition includes `release()`, `pump_waiters()` and the `wait_done` of those that
are granted. `wait_done` makes a coroutine runnable; it runs in a later action (`Resume`,
`Removed`). Asserts are not evaluated, as in the default build (`-DNDEBUG`); a
`GUARANTEE` is evaluated in every build and is modelled as `aborted`, `died` or `dead`
where it can fail. Memory ordering is sequentially consistent: the code uses the default
order on its atomics, and the plain next pointer of a node is modelled the same way.

*MpscQueue.* `Exchange` and `Link` are the two halves of `push`; `CheckStub` to
`Reread` are the reads of `pop` in program order, with `SelfExchange` and `SelfLink` for
`push_self`. A popped node is free at once and may be pushed again. *LocalStream* adds
`Signal` (the write to the eventfd) and the owner's `Wake` and `Clear`. *IoStream* adds
`TakeToken`, `Eagain` (the failed read that `eintr_wrap` repeats), `Lock`, and a pop that
ends in the `GUARANTEE`. *Barrier* has `Arrive`/`Complete`/`Leave` for each side and
spurious wakeups; `rounds` and `passed` are history variables.

*Shutdown.* `main` is the thread in `scheduler_t::run`; `tpc[t]` is where thread `t` is:
polling its inbox, inside the dispatcher's run, between `note_send` and the write, or in
the three steps of `update()` when the counter was brought to zero (`AddTargets`,
`StoreFinish`, `TellFinish`). `delta` and `live` are the dispatcher's unreported change
and its coroutines. `Enqueue` is a request made while the scheduler is not running. The io
threads share one inbox: `pulling` are those in `io_stream_t::read`, and `Enter` tells each of
them (`woken`) that the eventfd is readable. One takes the message (`AcceptIo`); the others
find it gone (`LoseMessage`) and repeat the read inside `eintr_wrap`: `tpc` is `spin`, and the
thread does nothing else until another message comes. The streams are FIFO queues here,
and the io stream never aborts: the `GUARANTEE` that `io_stream_guarantee` finds violated is
in `IoStream` only.

*Semaphore, Mutex, Drainer.* `home` (`address`) is the address of the object, which
changes when it is moved; back pointers that were not updated show up as a parent that is
not `home`. *Waiting.* One record per nested interruptor of a coroutine; `notices` counts
the calls of `coro_t::notify`. *Promise.* A datum has its `state`, an `owner` of its promise
(the program, or the datum in whose chain it is) and two chains of `links`. `notify_all()`, the
loops over chains, callbacks and destructors call each other to any depth: `calls` is the stack
of those under way, each step makes the innermost (`MakeCall`), and the program goes on
(`UserStep`) when none is left. `taken` is a history variable.

*Dispatcher.* An action is what a coroutine does from one call of the dispatcher to the
next; `Swap` is `swap(nullptr)`, in which the slot that has finished is released and the
run may end. `owner` and `dropping` are the `coro_result_t` a coroutine holds and the one
it destroys, whose drainer makes it wait for the child. `total` is a history variable: the
sum of the deltas told to `shutdown_t`. *CoroPool.* `line` and `holders` are the
semaphore's queue and places; `Acquire` to `DropResult` are the body of a loop, in which
the result of each coroutine is destroyed at once, `closing` is the pool's drainer.

*EventLoop.* `phase` is where the thread is: running coroutines, applying `changes`, asleep,
or walking the callbacks. `kernel` is the epoll set, which loses a descriptor that is
closed; `known` is `m_file_map`; `wake` the time the sleep ends. Clock ticks are nanoseconds
with small units (`MsPerSec`, `NsPerMs`). The timeout of `epoll_wait` is an `int`: `Narrow`
takes the 64-bit difference modulo `2 * IntBound` (2^32 in the build). *Tcp.* `buffer`,
`offset` are the members, bytes are numbered in the order the peer sends them, 0 is what
`resize()` puts in. *FileIo.* `request` is what the handler on the io thread still has to
transfer, `asking` who waits for it.

*CtMutex, FlipBuffer.* A section under the spinlock is one action; the message to the
next acquisition is `notices`, delivered later, to whoever then lives at that address.
`busy` is the coroutine that has a thread; `fate` records a data race on the drainer, or
the read of a dead acquisition, after either of which anything can follow: the properties
of the run say nothing of what comes then, `WritersDoNotRace` and `NextStillThere`
(section 4) that it does not happen. *Hub.*
`replies[t]` is `m_replies`, `asked` a history variable that says what each promise was
for; `tasks` are the coroutines of handlers. *Wire.* `Size`, `Write` and `Read` of a
type are what its three functions compute.

## 3. Runs

Each run names a property for each thing a test would hardly reach; the properties are
stated and explained where they are defined.

| run | bounds | shows |
|---|---|---|
| `cross_thread` | 2 producers, 2 readers, 3 items; 3 threads, 3 rounds | `MemoryIsSound` (types, shape and contents of the queue), `IsFifo` (refinement), `NoLostWakeup`, `OneReaderPerToken`, `NobodyAhead`, `IsRendezvous` (refinement), `EveryoneArrives` |
| `shutdown` | 1 coroutine thread, 2 io threads, 2 pieces of work, 2 runs | `CountIsExact`, `NoWorkLeftWhenEnding`, `EndsCleanly` |
| `shutdown_live` | 1 coroutine thread, 1 io thread, 2 pieces of work, 2 runs | `RunTerminates` |
| `locks` | 4 mutex acquisitions; 3 semaphore acquisitions, counts 1 and 2, capacity at most 3; 3 locks, 2 callers; two addresses each | `WokenHasMutex`, `BlockedIsRegistered`, `NothingIsLost`, `ListsAgree`, `DrainedWhenReturned`, `ServedInOrder`, `WaitsEnd` |
| `waiting` | 2 coroutines, 3 events, 2 nested interruptors | `WaitsAreOver`, `BlockedCanWake`, `InterruptionSpreads` |
| `promise` | 4 data, 3 futures | `DataIsOwned` (with `TakenOnce`), `EveryoneAnswered`, `CallsEnd` |
| `dispatcher` | 5 slots, 3 swaps in a run, cache of 1; 2 loops of 2 items on a pool with 1 place, and its destroyer | `SlotsAgree`, `DeltaIsExact`, `ChildrenComeFirst`, `PoolIsBounded`, `TurnsCome`, `LoopsReturn` |
| `io` | 2 descriptors, 2 coroutines; 2 timers with delays 1 and 5, clock up to 12, ints from -2 to 1; 2 users, 5 bytes, a buffer of 3; 2 files, transfers up to 3 | `KernelKnowsEveryWait`, `WaitsAreRegistered`, `TimersAreOnTime`, `StreamIntact`, `SuccessIsWhole` |
| `messages` | 2 writers on any of 2 threads, 2 writes each; 2 coroutine threads and an io thread, 2 calls of a thread; values of every type | `FlipIsAtomic`, `MutexIsHandedOn`, `RepliesMatch`, `MessagesAreWhole`, `CallsAndWritesReturn` |

Three more runs expect a violation (section 4).

**Why the bounds are enough.** Two producers give every overlap of two pushes, and with
three items one of them overtakes a stalled one and comes back with a node that was popped
meanwhile. Three threads at the barrier have one that is fast, one that is slow and one that
is last; three rounds use each side twice or are in between. A coroutine thread and two io
threads have work moving between the two inboxes while a third thread reports, or spins
because another one took its message; a second run shows what the first left.
`shutdown_live` has the one io thread that the first constructor of `scheduler_t` makes.
Three acquisitions of a semaphore are a holder, the front of the queue and one behind it, or
a holder, a waiter and a newcomer; capacity 3 lets a request of 2 wait while 1 is available.
Three locks of a drainer allow a copy and a move of it beside the first. Two interruptors
are one inside the other; three events are enough for an event of the wait, one of each
interruptor. Four data give a chain of three with a callback that returns a future of a
fourth.

Of the five slots two run the loops, one destroys the pool, and two are consumers, which
are used again for the later items, through the cache; three swaps end a run in the middle of
either loop. A program of any kind has three slots: a parent, its child and a grandchild,
which is where a drained coroutine drains another. Two descriptors are one that is
closed while the other is waited for, two coroutines may wait for the same one in either
direction. Clock and units are such that times carry over a second and a millisecond, and
two timers are in either order, at the same time, or rearmed while the other is due. A delay
of 5 is 3 milliseconds, which an int of two bits takes for -1, and a timer that is overdue
for long wraps to a positive timeout. Five
bytes through a buffer of three move it on with a part left over. Two writers, on one
thread or on two, are one inside and one behind it or coming back; two writes use both
copies. A hub with two calls of a thread has two answers that overtake each other, one of
them through a handler that calls further.

Constants that bound otherwise unbounded behaviour: `MaxRounds`, `MaxRuns`, `Work`,
`MaxCapacity`, `MaxDepth`, `Items`, `AnySlots`, `MaxClock`, `MaxBytes`, `MaxSize`,
`MaxWrites`, `MaxCalls`, and the sets of objects. `IntBound` stands for 2^31. `Base` stands
for the 256 values of a byte. Deadlock is not checked where a model comes to rest by design:
when its rounds, runs, data or messages are used up, or the process has aborted. That nobody
is stuck before that is what the liveness properties and `BlockedCanWake`, `NothingIsLost`,
`BlockedIsRegistered`, `KernelKnowsEveryWait` say.

**Fairness.** A thread that can run does, as the kernel schedules it: weak fairness on the
rest of a call to `push`, `write` or `wait` that has begun, and on a reader's loop. Nobody
has to begin a write. Threads that share a barrier all come to it (`thread.cc` calls it in
fixed places). In `Shutdown` threads are weakly fair, and what a dispatcher run does is
strongly fair: a run may end early, after 100 swaps, but comes back to the same run queue,
which is served in order; a thread that spins takes a message that comes. Coroutines end. In
`LockObjects` a coroutine that is runnable runs, and whoever has the mutex, or a lock of a
drainer that drains, lets it go: that is the contract of a lock. The holder of a semaphore
lets go in the end (strong fairness, as the acquisition that stands for it may be moved
between objects meanwhile).

In `CoroPool` the thread goes on (weak fairness of `Next`), and a consumer does not yield
for ever (strong fairness of `EndConsumer`: it may be behind others each time); that the
order of the run queue suffices for everybody's turn is `QueuedRuns`, not assumed. In
`Messages` a thread handles its stream, its tasks and its callers (weak fairness), and
the steps of a writer are strongly fair: a reader may have the thread each time the
writer could go on, but readers do not give way, so one ends before the next begins
(`ReadDone`), and the run queue is served in order.

## 4. Disagreements between the code and what it says

Three runs expect a violation, each of one property that quotes the code:

- `io_stream_guarantee`: one producer has pushed and signalled a message completely, and its
  token is taken. Then the producer begins its next `push`: the new node is at `m_back` and not
  yet linked (`intrusive.hpp:243-244`), so `pop()` does not give out the first, and the
  `GUARANTEE` of `stream.cc:101` aborts.
- `promise_stranded`: when a `promise_t<T>` is abandoned its chain is left alone; a coroutine
  that waits for a chained result is never told (`promise.tcc:355`, compare
  `promise.cc:77-79`).
- `pool_dies`: the loops destroy the result of a consumer as soon as it is spawned, so its
  first wait is interrupted, nothing catches that, and the process ends
  (`ConsumersSurvive`; `test/coro_pool.cc:18-22` waits for a timer in its consumers).

Further configurations state other promises of comments, asserts and tests that the
code does not keep. They are not part of the list of runs; each property is violated when
it is the one that `tlc -config <name>.cfg <module>` checks (with several in a file, keep
one, or use `-continue`; `NeededPositive` and `ReleasedIsLost` are put in the place of
what `waiting.cfg` and `promise_stranded.cfg` check):

| configuration | module, property | what is said |
|---|---|---|
| `shutdown_spin` | `Shutdown`, `RunTerminates` | `sched.hpp:19`: `run()` returns as soon as all coroutines complete. With two io threads (`sched.cc:29`) it may not: one that lost a message spins on the eventfd and never hears of the end |
| `lock_claims` | `LockObjects`, `WaitSurvivesMove` | `wait_object.hpp:22` declares `object_moved`; the move of an acquisition empties the list of waiters it has just taken over (`mutex.cc:73`) |
| | `NoLockWhileDraining` | `drainer.cc:134` `assert(!m_draining)`, and `accept_loop` copies a lock at any time |
| | `WaitIsFifo` | `semaphore.hpp:17` "Waiting on a semaphore is FIFO to avoid starvation" |
| | `ListedAcqsLive` | `intrusive.hpp:31` `assert(!in_a_list())` after `remove()` or `resize()` |
| | `QueuedAcqsLive` | `semaphore.hpp:31` combines with an acquisition that may be pending |
| | `PendingFitsCapacity` | `semaphore.cc:145` asks for a check that is missing |
| | `AllReturned` | `semaphore.hpp:13` "safe move semantics": a move revives a combined acquisition |
| `waiting` | `MCWaiting`, `NeededPositive` | `multiple_wait.cc:49` `assert(m_needed > 0)` |
| `shutdown_claims` | `Shutdown`, `RepliesNeedNoCount` | `target.cc:32` replies need not be counted |
| | `EventMeansShutdown` | `sched.hpp:20`: the shutdown event of the second run is set from the start |
| `promise_stranded` | `Promise`, `ReleasedIsLost` | `src/test/promise.cc:69` expects an exception where `cref()` aborts |
| `promise_void` | `MCPromise`, `AbandonedRunsNothing` | `promise.tcc:249`: callbacks of an abandoned `promise_t<void>` do run |
| `epoll_reuse` | `EventLoop`, `ChangesAreAccepted` | `events.cc:122` `GUARANTEE_ERR`: a descriptor that is closed and used again is modified in an epoll set that has lost it |
| `flip_race` | `FlipBuffer`, `WritersDoNotRace` | `flip_buffer.hpp:39` "can be safely written or read from any thread": its drainer is not protected |

The other properties of `promise_void` (`BlockedCanBeFulfilled` and those of lifetime)
hold. Some properties are stated beside these and have no configuration of their own:
`WalkSurvives` (`EventLoop`: a coroutine that waits for both directions of a descriptor is
taken out of the list that is walked), `UntilStaysInside` and `StreamIntact` with
`SharedPeek` or `Interrupts` (`Tcp`), `WholeIsSuccess`, `NoFileLeaks` and
`HandlerIsWaitedFor` (`FileIo`), `FlipIsAtomic` with `"flip"` in `Interruptible`, `NextStillThere`
(`FlipBuffer`: `ct_mutex.cc:87` reads the next acquisition without the spinlock, when it may be
gone), `FarTimersSleep` (`EventLoop`: `events.cc:72-77` takes a timer 2^31 ms away or more for one
that is due, or due earlier): the configurations of the runs find each violated when it is
added. `LoserWaitsAgain` (`IoStream`: `stream.cc:92` expects EAGAIN after a lost race, which
`eintr_wrap` never returns) is violated under `FairSpec` with two readers, and `RunReturnsOrSpins`
holds where `shutdown_spin` finds `RunTerminates` violated: nothing but that spinning keeps
a run from its end.

The passing runs leave out exactly the calls these need: `CopyLate`, `MoveWaited`,
`Chaining`, `SharedPeek`, `Interrupts` are FALSE, `Interruptible` is without `"flip"`,
consumers of the pool do not wait (`Spec` instead of `WaitingSpec`), and `Ops` of the
semaphore is without `combinePending` and `moveCombined`.

## 5. Proofs

The proofs hold for every value of the constants that the named assumptions admit.

`CrossThreadProofs` proves about `MpscQueue`, for any producers and any finite set of items:

- `QueueTheorem`: `MemoryIsSound` in two parts, and `IsFifo`. While pushes are half done the next
  pointers do not connect the queue, so the invariant (`QueueInv`) says that there is a
  sequence of distinct nodes from `m_front` to `m_back` in which each node points to the
  next one, or a push (or the consumer's `push_self`) is about to make it so. Each action
  extends that sequence, shortens it at the front or leaves it alone. The contents of the
  refinement are defined by a walk; that the walk finds the sequence is an induction on its
  length, done through the least number at which it would fail (`Least` of `FiniteSums`,
  from `NatLessThanWellFounded`), since a rule of induction with an operator parameter
  cannot be used.

It lifts this to the streams and adds them and the barrier:

- `QueueMemoryIsSound`, `QueueIsFifo`: every step of a stream is a step of the queue or leaves
  it alone.
- `StreamNoLostWakeup`: if the inbox of a thread that sleeps is not empty, its eventfd is
  readable, or a writer is between `push` and its write (`LocalInv`).
- `StreamOneReaderPerToken`: messages are as many as tokens, readers with a token and writers that
  owe one (`IoInv`), by cardinalities; the queue must be finite, hence `IsFiniteSet(Items)`.
- `BarrierInvariant`: `TypeOK` and `SidesInv`. `NobodyAhead` is not inductive: it says nothing
  of the counters. `SidesInv` does: the counter of the current side is the number of
  threads waiting there and below the total; whoever is left on the other side was
  released in the last round, is not asleep, and finds the other counter still at the
  total, because it is reset only when the current side completes, when the other side is
  empty. Each action is one lemma; those that change a counter need the cardinality of
  the set of waiters with one thread more or less.
- `BarrierSafety`: `NobodyAhead`, from the invariant.
- `BarrierIsRendezvous`: every step maps to a step of `Rendezvous` or a stutter, with the
  set of gathered threads read off `at` and `side`.

`LockProofs` proves, for any set of acquisitions and under `MoveWaited = FALSE`:

- `MutexInvariant`: types; the list is exactly the attached acquisitions, once each, with the
  present address as parent; a coroutine is blocked exactly while registered, and never
  on the front; a coroutine that succeeded has the front (unless the mutex is gone); what
  is waited on exists. None of these is inductive alone: that the next front
  is woken needs the registration, and that it is the only one needs the list without
  duplicates. `RemoveNodeProps` is the lemma about lists.
- `MutexListExact`, `MutexExclusion`, `MutexNobodyForgotten`, from the invariant.

and, for any locks and callers, and for either value of `CopyLate`:

- `DrainerListsAgree` and `DrainerIsDrained`. The two are inductive together
  (`DrainerInvariant`): that the last lock wakes every caller needs the lists, and that a
  drainer that has returned gets no lock back needs that a lock is only copied from one that
  is held.

and, for any acquisitions, counts and capacities, if `Ops` has neither `combinePending` nor
`moveCombined` (with either, `lock_claims` shows what is lost):

- `SemaphoreInvariant`: the types; where each acquisition is by its state (`InPlace`): attached and
  granted in `m_acqs`, attached and pending in the queue, waited for only in the queue, one
  that lost its parent still linked; a queue without repetition; and the capacity as a sum
  over the attached acquisitions (`Conserved`). `NothingIsLost` is not inductive: it does not say
  that what was combined or removed stays in `m_acqs`, so that its node is never
  constructed anew while it is linked, nor that `remove()` ends only after it was granted.
  Three actions end in `pump_waiters()`: `PumpGrants` says what it does, from
  `GrantsProps` (it grants as many from the front as fit) and `GrownSum` (an induction on that
  number), and `PumpKeeps` that it establishes the invariant.
- `SemaphoreLosesNothing`, `SemaphoreServesInOrder`: the two properties of the run, the second
  with the fact that neither `pump_waiters()` nor a removal reorders (`PumpInOrder`, `WithoutOrder`).

`WaitingProofs` proves, for any coroutines, events and depth of interruptors:

- `WaitingIsOver`, `WaitingCanWake`, `WaitingSpreads`: the three properties of the run. They are
  inductive together and with one more fact, that a wait that is decided has let go of all
  its items (`WaitingInvariant`): a wait is decided once because only blocked coroutines have items
  in a list, and the last item decides it because `m_needed` counts those that are left.

and, for any data, futures and chains of callbacks, of `promise_t<T>` and of `promise_t<void>`:

- `PromiseInvariant`: what the properties say between the calls of the program is not inductive, as
  a chain that is half run or a datum that was abandoned but not deleted keeps none of it. The
  invariant (`PromiseInv`) says it of every step, but for what a call on the stack will do: a
  promise in a chain is that of one link unless its `~promise_t` is due (`LinksOwned`, `LinksOnce`,
  `Owners`), a datum lives as long as a promise, a future or the call that deletes it refers to it
  (`Lives`), no destructor is due twice (`CallsOnce`), and a coroutine that waits for nothing, or a
  chain of a datum that has its value, has a call that will tell or run it (`Answers`,
  `ChainsRun`). `CallMade`, `CallAdded` and `CallBegun` say what a step does to the stack,
  `LinkOff` and `LinksDropped` what taking off links does to the chains, `ChainsKept` that the
  program's other steps leave chains alone.
- `DataIsOwnedAlways`, `EveryoneAnsweredAlways`, `TakenOnceAlways`: two properties of the run, and the
  part of the first that is about values.
- `CallsEndAlways`, if `Data` is finite: every step of the calls lowers a measure that is a natural number,
  so they are over after as many steps. A call weighs more than the calls it makes
  (`CallEnds`), and a link more than what running and deleting it calls (`LinkEnds`); reassigning
  moves links and makes none (`LinksMoved`). The measure is a sum along the stack and one over all
  chains.

`DispatcherProofs` proves, for any number of slots, swaps of a run and size of the cache:

- `DispatcherInvariant`: `SlotsAgree`, `DeltaIsExact`, `ChildrenComeFirst`, the types, and
  `HeldExists` (a coroutine whose result is held exists). A child that ends
  queues the parent that drains it: that the parent is not queued already follows from
  `ChildrenComeFirst`, and that only one waits from the single owner. `SwapQueue`, `GiveWay`
  say what a swap does once for all actions; `HeadTail`, `AppendFacts`, `ConcatFacts`,
  `FrontFacts` are about queues without repetition.
- `DispatcherSlots`, `DispatcherDelta`, `DispatcherChildren`: the three properties of the
  run, for any program and for the loops of `CoroPool`.
- `PoolStaysBounded`: `PoolIsBounded` for any number of runners, items and places. Its
  invariant (`PoolInv`) ties the three parts the bound depends on: a slot is in use exactly as
  long as its coroutine has not returned (`SlotsInUse`), although slots are used again by
  consumers of other loops; only consumers are held, by a runner that has just spawned them or
  drains them (`OneConsumer`); whoever asked for a place has it or sleeps in the line, and keeps
  it until it is passed on (`PlacesAgree`); and the destructor sleeps while a runner keeps the
  pool alive (`Closed`). `GiveFacts` is the semaphore's part, `EndKeeps` and `GiveWay` say which
  sleepers the dispatcher may have woken.

`IoProofs` proves, of every behaviour of `IoSpec`:

- `EpollKnowsEveryWait`, `EveryWaitIsRegistered` for any descriptors, timers and coroutines. The
  invariant (`EventInv`) says at any time what the first says of a thread about to sleep: an
  open descriptor whose registration lacks something is in `m_epoll_changes`, one with
  callbacks is in `m_file_map`, and one that is closed has no callbacks. `DecideKeeps` and
  `WaitKeeps` are the lemmas for all actions that end or begin waits.
- `TimersRingOnTime` for any clock, units of time and width of an int: the sleep ends when the
  first timer is due, if that is less than `IntBound` milliseconds away; what happens to one that
  is further off is stated too (`NarrowProps`). It rests on the arithmetic of `absolute_time_t`:
  `add` gives the time one expects although it normalises only what is above a second
  (`AddIsInstant`), comparison by parts is comparison of times (`LessIsEarlier`), and `ms_diff` rounds up by
  less than a millisecond for times on either side (`MsDiffRoundsUp`). `add_timer` keeps the list
  in order (`ArmProps`), for which what a removal leaves (`Kept`) is shown by induction on the length.
- `StreamIsIntact` for any coroutines, buffer size and delimiters, if `SharedPeek` and `Interrupts` are
  FALSE: with either TLC finds bytes lost (section 4). The invariant (`TcpInv`) is that the list of
  `m_read_mutex` is without repetition, that only its front reads, and where the good bytes of
  the buffer are in each of its steps, which `StreamIntact` cannot say while the kernel is
  being asked for more.
- `FilesSuccessIsWhole`: the property of the run, with the types.

`MessagesProofs` proves, for any writers on any threads and any number of writes, if no
wait for the flips is interrupted (`"flip" \notin Interruptible`: with it `FlipIsAtomic` has
a counterexample):

- `FlipInvariant`: the list of acquisitions is without repetition and holds exactly the
  writers between construction and release; who is inside has the mutex, which is the
  front's or under way to it; the threads read the old copy of the writer inside until
  they have flipped, the new one after. `FlipIsAtomic` says nothing of a write half done,
  and is not inductive without that.
- `FlipMutexIsHandedOn`, `FlipIsOneStep`: the properties of the run.

and, for any threads, callers and number of calls:

- `HubInvariant`: a message, or the task of one, that expects a reply is about a promise that
  is open and agrees with what was asked (`AllSound`), and no two are about the same
  request (`OneEach`). `RepliesMatch` alone does not say what is under way. The ids of a broadcast
  come from an enumeration of the targets, about which `SetToSeqProps` says what is needed.
- `HubRepliesMatch`: the property of the run.

and, for any width, either sign, any number of values of a byte and any message around it:

- `IntegersAreWhole`: an integer takes as many bytes as `size()` says and is read from its place
  as it was written. The recursive functions are shown to exist
  (`IteratedExists`); then, by induction over the bytes, what is left of a number after `k`
  divisions fits into the bytes before them, so that nothing is lost, and what the first
  bytes stand for is what was left before the others were split off. `MessagesAreWhole`
  checks the same inside of structs and containers.

`ShutdownProofs` proves, for any threads, pieces of work and number of runs, if no callback
is chained to a reply (`~ Chaining`: replies are not counted, and with a callback behind one
`RepliesNeedNoCount`, section 4, has a counterexample):

- `ShutdownInvariant`: the types; where every message, coroutine and request may be, each at
  one place (`Jobs`); what holds before a thread has seen zero, while it tells the others, and
  after a thread has been told (`Phases`); that whoever waits for a reply is alive; and the
  counter (`CountInv`, `ReportedInv`). `NoWorkLeftWhenEnding` is not inductive: that nothing is left at zero
  needs that the counter is a sum of parts of which none is negative (`ZeroMeans`), and that
  nothing comes later needs that the request to finish is the last message of an inbox,
  which is a queue.
- `CountStaysExact`, `NoWorkLeftAtTheEnd`, `EndsCleanlyAlways`: the three properties of the run.
- `LoneIoThreadNeverSpins`: with one io thread nobody else takes what it was woken for
  (`MessageWaits`), so the loop of `eintr_wrap` ends at once; with two, `shutdown_spin` is the
  counterexample.

The sums over threads, inboxes, acquisitions, calls and chains are folds over finite sets (`MapThenSumSet`).
`FiniteSums` shows by induction over subsets what the proofs need: a sum changes with one
of its terms as the term does (`SumChange`), the total of two sequences, one after the other,
is that of both (`SumOfJoined`), terms that are not negative are at most their sum
(`SumOfNats`), and any two ways to add up the same terms agree (`SumsAgree`). The rule
of induction is one about families of sets (`SetInduction`), which needs no operator parameter.

The assumptions are those the modules name (`QueueAssumption`, `BarrierAssumption`,
`MutexAssumption`, `SemaphoreAssumption`, `DrainerAssumption`, `PromiseAssumption`,
`DispatcherAssumption`, `HubAssumption`, `BaseAssumption`, `TimersAssumption`,
`ShutdownAssumption`, `TimeUnits`, `IntAssumption` and so on), and those in the statements.

Only model-checked: all liveness (`~>` properties; the prover has no rules for
fairness and ENABLED); and `Wire` beyond its integers (so
`MessagesAreWhole`), which follows types with recursive operators that the prover
cannot treat.

## 6. Plan

Done: every part of section 1 but the last row; proofs for the queue and both streams,
barrier, shutdown, mutex, semaphore, drainer, waits, promises, dispatcher and pool, event loop
and timers, connections, files, flip buffer with its mutex, and hub. Next, in this order:

1. A pool that is resized; timers and file waits that are moved.

## 7. Not modelled

- Shared registry (`cross_thread/shared.*`): filled before the threads start and only read
  afterwards; `get()` of its entries and `subscribe.hpp` are instantiated nowhere.
- Registration of handlers and member RPCs: static initialisation and template dispatch. A
  request for an RPC nobody registered (`hub.cc:70`) cannot come from a program that links.
- `buffer_owner_t`, `linkable_buffer_t` (memory of one owner), `arena_t` (no user), random
  numbers and uuids, logging and errors, `swap`, `home_threaded`: no state that changes in
  a way worth distinguishing.
- The stubs of remote targets, of `tcp` streams and of connectivity; name resolution
  (`io/net.cc` over an external library) and socket options.
- Replies to io threads: the code has none (`sched.cc:79-85`), so a call made there by a
  handler never returns; `CallsReturn` says so.
- Serializers of `float` and `double` (the conversion to an integer loses the fraction
  before anything is written), and of maps with primitive keys, which do not compile.
- `flip_buffer_t::apply_read` and the const `get()` of `one_per_thread_t`, which do not
  compile when instantiated; a reader is modelled by what the callback may do.
- `tcp_listener_t` and its `accept_loop`: only the use they make of a drainer (`CopyLate`).
- Within modelled parts: the abort of `stream.cc:101` during a run of the scheduler (`Shutdown`
  has queues for streams); the resize of a pool; timers with zero or negative periods; moves of
  timers, file waits, events, interruptors, promises and connections; failed system calls of a
  connection; a `resize()` of a semaphore while another one waits; exceptions of user
  callbacks other than an interrupted wait; signals; the creation of threads and the
  destructor of the scheduler; relaxed memory.
