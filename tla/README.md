# Synchronization in ntdll and the wineserver: models, checks and proofs

The repository is a Windows-compatible system built on Wine. Its own desktop
(`src/explorer`, `src/taskbar`, `src/settings`, `src/control_panel`,
`src/qt_framework`, `src/apps`) consists of build files only; the program is
the Wine tree in `src/wine`: `dlls` (ntdll and about 700 libraries over it),
`server` (the wineserver, one process that holds the kernel objects),
`programs` and `loader`.

This project models the part of it that runs concurrently and is hardest to
test: the locks, waits and thread pool of ntdll, and the server's wait engine.
Paths below are relative to `src/wine`; line numbers are in `PROJECT.json`
under `map`.

## Inventory

| Part | State | Operations | What makes it hard |
| --- | --- | --- | --- |
| Address waits (`dlls/ntdll/sync.c`, `unix/sync.c`) | hashed queues of entries on waiters' stacks, a spinlock each, one alert word per thread | `RtlWaitOnAddress`, `RtlWakeAddressSingle`, `RtlWakeAddressAll`, alert, wait for alert | an unlocked read after the wait, timeouts against wakers, stale alerts, a fixed buffer of wakes |
| SRW lock (`sync.c`) | two 16-bit counters in one word | acquire, try and release, exclusive and shared | compare-and-swap loops, the window between a failed swap and the wait, starvation |
| Critical section (`sync.c`) | `LockCount`, `RecursionCount`, `OwningThread`, a token | enter, try, leave, wait, post | fields no lock protects, timeouts with retries, process exit that kills the owner |
| Condition variable (`sync.c`) | a sequence number | sleep, wake one, wake all | the number changes between the unlock and the wait |
| Thread pool (`threadpool.c`) | pool, objects with counts and references, groups, workers | allocate, post, wait, cancel, release, group and pool release, worker loop | references dropped outside the lock, worker timeouts, teardown while callbacks run |
| Thread pool timers (`threadpool.c`) | sorted list of pending timers, one thread | allocate, set, cancel, release, expire | a timer set while the thread computes how long to sleep, windows, the thread that exits when idle |
| Thread pool waits (`threadpool.c`) | buckets of wait objects, a thread each | allocate, set, release, signal, merge | records of handles that go stale, buckets merged under a waiting thread, references held across a wait |
| Thread pool I/O (`threadpool.c`) | objects with counts of pending and skipped operations, one port, one thread | start, cancel, complete, release | objects released while completions are under way |
| Timer queues (`threadpool.c`) | sorted list of timers, a thread, callbacks in it or in the pool | create, update, delete, delete the queue, expire | deletion while callbacks run, a list walked while it changes |
| One-time initialization (`sync.c`, `server/event.c`) | a word with a list of waiters on their stacks, a keyed event | begin, complete | a node is gone as soon as its thread is released; a failed initialization starts over |
| Resource lock (`sync.c`) | counts under a critical section, two semaphores | acquire exclusive and shared, release | readers counted before they run, wakes stolen by newcomers |
| SList (`sync.c`) | first entry, depth and sequence number in one word | push, push list, pop, flush | a header read in two loads, entries freed and reused under a pop |
| Server waits (`server/thread.c`, `dlls/ntdll/unix/server.c`) | wait queues, waits of a thread, timers, reply pipes | select, wake up, time out, kill | wakes nested in wakes, replies that cross, retries of a select |
| Server objects (`server/event.c`, `mutex.c`, `semaphore.c`) | counts, owners, lists of owned mutexes | set, reset, pulse, release, abandon | a count tested in place of the queue |
| Suspension and APCs (`server/thread.c`, `unix/thread.c`) | suspend counts, contexts, APC queues | suspend, resume, set context, queue APC | a second wait on top of the first, signals skipped |
| Everything else | | | see *Not modelled* |

ntdll's locks rest on address waits, and the thread pool on critical sections
and condition variables; one-time initialization rests on keyed events, and
waits for handles go through the server. The modules follow these layers.

## Modules

**AddressWait** holds the queue operations as operators (add, remove, wake
one, wake all). **AddressWaitSpec** is the promise made to callers:
comparing and going to sleep is one step, sleepers are woken in order, a wait
may end on its own. **Futex** is the code: one hash bucket, every load and store
of `RtlWaitOnAddress` and `RtlWakeAddress*` that another thread can observe, and
the alert word of the futex branch of `NtAlertThreadByThreadId`. `entry[t]` is
the `addr` field of the entry on `t`'s stack, `list` the bucket's list, `tids`
the buffer of `RtlWakeAddressAll`. Futex implements AddressWaitSpec
(`ImplementsAddressWait`): a wait takes effect when it compares, a single wake
when it clears the entry, a wake of all when it gets the spinlock. When a waker
unlinks an entry whose owner has returned (see *Findings*), the outcome is
undefined: the model stops there and claims nothing about what follows.

**SRWLock** uses the atomic queue of AddressWait, which Futex justifies. Its two
variables `exclusive_waiters` and `owners` are the halves of the word; each
action is one interlocked operation, one wait or one wake. A wait may also
return without a wake.

**CritSection** has `LockCount`, `RecursionCount`, `OwningThread` and the token
`LockSemaphore` as in the structure; `hasSemaphore` selects the kernel semaphore
of sections with debug information or the token word with an address wait.
`ExitProcess` is `RtlExitUserProcess`: it kills every other thread, after which
waiting is skipped. One section stands for the loader section and the others
that the exiting thread enters.

**KeyedEvent** is the rendezvous of `NtWaitForKeyedEvent` and
`NtReleaseKeyedEvent`: `keyedQueue` is the event's wait queue, and a select
request, including the search for a partner, is one step because the server
handles one request at a time. **RunOnce** is `RtlRunOnce*` over it. `once` is the
word (two bits and the rest), `onceNext[t]` the variable `next` on `t`'s stack,
which is at once the list node, its address and the key. Each load of the word
and each swap is a step of its own.

**Resource** is `RTL_RWLOCK`. A visit to `rtlCS` is one step, which CritSection
justifies; between two visits a thread waits on one of the semaphores.

**SListSpec** is a stack whose operations are atomic, with the entries each
thread owns. **SList** is the code: the two loads of the header, the preparation
of the new header, the compare-and-swap. An entry that was popped may be freed, so
a pop that still reads its `Next` gets any value. SList implements SListSpec
(`SListIsStack`).

**CondVar** holds the operators of a condition variable. A sleeper remembers
whether the number changed since it read it (`seen`), not the number.

**ThreadPool** is one pool with its workers, work objects, simple callbacks and
a cleanup group, over CondVar. What a thread does inside one critical section of
`pool->cs` is one step, because all it touches is under that lock; reference
counts, the shutdown flags and the group's list are not, and the points where
the code drops the lock between them are separate steps.

**PoolTimer**, **PoolWait** and **PoolIo** are the three kinds of pool objects
with a queue of their own. Each has the queue's thread, the clients' calls and,
in place of ThreadPool, a counter of submitted callbacks that a worker takes one
by one. A critical section of `timerqueue.cs`, `waitqueue.cs` or `ioqueue.cs` is
one step; the sleep on a condition variable is CondVar's. In PoolTimer,
`StillPending` and `NextWakeup` are the two loops of `timerqueue_thread_proc`. In
PoolWait, `Scan` is the loop that fills `objects` and `handles`, and
`update_serial` is kept as the fact `current`: whether the object was changed since
it was recorded. In PoolIo, `pending` and `skipped` are the counts of the object;
`inFlight` and `port` are the operating system's side.

**TimerQueue** is the older timer queue. Its thread, `RtlCreateTimer`,
`RtlUpdateTimer` and `RtlDeleteTimer` take `q->cs` once per step;
`RtlDeleteTimerQueueEx` keeps it during its loop, so every iteration is a step and
`deletePc = "walk"` locks the others out. **Clock** is the time both timers share.

Clients keep the contract of each API. A thread completes a one-time
initialization once for each `STATUS_PENDING`, with the same flag. A resource is
released by who holds it. A wait that runs its callback in the wait thread has no
timeout (see *Not modelled*). An I/O operation is announced before it is started
and cancelled only if it was not started. A deleted timer or queue is not used,
and no callback waits for its own timer.

**SyncObjects** holds the events, mutexes and semaphores of the server, and
**ServerWait** the engine over them: `Select` and `FinishSelect` are `select_on`,
`CallStatus` is `check_wait`, `EndCallWait` is `end_wait`. The server is single
threaded, but `wake_up` walks a queue, a write to a dead client kills its
thread, and that abandons mutexes and wakes again: `stack` holds the loops the
server is in, and no request is served until it is empty. The client side is
`server_select`, `wait_select_reply` and the suspend handler, connected by
`pipe`.

`MC*` modules fix instances. `MCSync`, `MCPoolObjects` and `MCPoolLive` put several
components side by side that share no state: the variable `inUse`, chosen
initially, says which of them moves, so one run explores each of them alone.
`SRWLockProofs`, `CritSectionProofs`, `ResourceProofs`, `RunOnceProofs` and
`ThreadPoolProofs` hold the theorems.

## Runs

| Run | Instance | Shows |
| --- | --- | --- |
| `srw_lock` | 3 threads, each reader and writer, halves of 3 bits; 524,022 states | exclusion, exact counters, no waiter stranded between a release and its wake, a waiting writer is served |
| `futex` | 2 waiters (one timed), 1 waker, 2 addresses in a bucket, buffer of 1; 454,340 states | no alert is lost, a waiter off the queue returns, refinement of AddressWaitSpec |
| `sync_primitives` | critical section: 4 threads, recursion 2, process exit; one-time initialization: 3 threads; resource: 4 threads, recursion 2; SList: 2 threads, 3 entries; about 185,000 states | the fields of a section are its owner's, no token is lost, waiters are served; one initializer at a time, one context for all, waiters on exactly one list and released; exact counts of the resource and nobody left behind; the SList is a stack |
| `server_objects` | 3 threads, an event, a mutex, a semaphore, signal-and-wait, dying clients; 1,193,431 states | no missed wake-up, mutex ownership exact, no overtaking |
| `server_interrupt` | 1 thread, suspension to depth 2, APCs, timeouts; 36,290 states | one reply per wait, a suspended thread stops and takes nothing, timed waits end, system APCs are fetched |
| `thread_pool` | pool: 2 workers, 2 clients, a work object and a simple callback in a group; timers, waits, I/O: 2 objects each, 2 buckets; about 851,000 states | references exact, nothing freed reachable, assertions hold, a live pool has a worker, no callback left while a worker dozes, nobody asleep on a finished object or group; no timer overslept; buckets, objects and records agree, every set wait is watched, no stale signal fires; no completion reaches a freed object |
| `thread_pool_live` | pool: 1 worker, 2 objects of one priority, changing limits; timer queue: 2 timers, 3 instants; 103,564 states | a callback of the highest priority starts or is cancelled, a released pool is freed; timers live as long as their callbacks, due timers fire, deletions return |
| `futex_dangling_unlink`, `server_lost_release`, `server_signal_twice`, `thread_pool_cancel`, `timer_queue_delete` | small instances | counterexamples, see *Findings* |

In `thread_pool` one client both waits for and cancels the work object, and a
group is torn down only when no client is inside a call on a member (the
contract of the API). `SleepersHaveWork` is therefore a statement about the
wake-ups at the end of callbacks; with two clients on one object it fails, which
is what `thread_pool_cancel` shows. `DeletionsEnd` leaves out the case of
`timer_queue_delete`, two timers with unfinished callbacks, where the deletion of
the queue does not end. `server_interrupt` has no signal-and-wait: once
`server_signal_twice` has happened, the second signal of a full semaphore fails,
the call returns that error, and an APC queued meanwhile stays until the next
call.

Every property of a passing run is also run against a mutant: a plausible bug
in one definition, written just before it in the module, under which TLC finds
the property violated.

### Bounds

- `Wrap = 8` keeps the SRW counters wrapping, with the code's ratio of threads to
  width; three threads give an owner, a waiting writer and a reader between its
  swap and its wait.
- Two waiters and one waker cover each pair of positions in `RtlWaitOnAddress`
  against a wake. `TidsSize = 1` makes the buffer of 256 overflow with two
  waiters.
- Four threads on a critical section are an owner, a thread that slips in and
  two waiters. `MaxDepth = 2` reaches recursion.
- Three callers of a one-time initialization are one that initializes, one that
  waits, and one that starts over after a failure while the first still walks its
  list. Four threads on a resource are a writer, a woken writer that is
  overtaken, and two readers.
- The SList has one slow thread and one that can flush the list and push the old
  first entry again at the same depth: the ABA case that only the sequence number
  tells apart (its mutant drops the number). The assumption that fewer than
  `SequenceModulus` updates happen between a load and its swap is the code's own.
- `MaxTime` ends the clock; a wait of the timer queue's thread that would end
  later ends then. `Never` is the infinite timeout. Two timers, waits or I/O
  objects give each queue an order; `MaxObjects = 3` makes merging (at a third and
  two thirds of a bucket) and full buckets reachable with two objects. Pool waits
  start with some buckets left over from earlier objects.
- `MaxCallbacks`, `MaxWaitCallbacks`, `MaxRuncount`, `MaxSignals` and
  `MaxOperations` bound callbacks, signals and operations in the guards.
- Three threads on server objects are needed for a wake that kills a thread
  whose mutex goes to another while a third is still in the queue being walked.
  Thread symmetry is used only in runs without liveness.
- `SemaphoreMax`, `MaxSuspend`, `MaxApc` and `MaxRecursion` bound counters that
  only matter at zero, one and "more".
- `MaxPending` bounds posts, `MaxBusy` the drift of `num_busy_workers` (each
  cancel raises it), `MaxWorkers` the limits clients set. `Worker` is the set of
  threads that can be created; when all run, creation fails, as it may in the
  code. `thread_pool_live` has one worker, to keep its liveness graph small.

`CHECK_DEADLOCK FALSE` is set where the system may really stop: waiters that
nobody wakes, clients that make no further call, dead clients, a freed pool, a
process that has exited, and Futex after the undefined unlink. The SRW lock is
checked for deadlock; for the critical section `WaitersServed` says more.

### Fairness

- SRW lock, futex: weak fairness of each thread inside a call. Nobody is obliged
  to start a call. A lock holder does release the lock (`WritersServed` needs
  it; it is an assumption about callers). In Futex a thread that spins gets the
  spinlock only if it is free when tried, so nothing is claimed about how long
  spinning lasts.
- Critical section: weak fairness inside a call, and strong fairness of
  `LeaveLast`: an owner may recurse any number of times but leaves in the end.
  `WaitersServed` says that some thread gets the section while one waits, not
  that each waiter does: the section is not fair.
- One-time initialization: weak fairness of each thread inside a call; the
  initialization function returns.
- Timer queue: weak fairness of its thread, of a deletion in progress, of each
  queued callback and of the clock. A callback waits for `q->cs`, which is
  free unless a deletion walks the list.
- Server: the loop in progress is finished; a client that keeps asking is
  served; an expired timer is called; a reply in the pipe is read; a signal is
  taken. Strong fairness of `ResumeThread` is an assumption about the
  environment, that a suspended thread is resumed in the end; without it a
  suspended thread's wait need not end, and should not.
- Thread pool: strong fairness of each thread, because `pool->cs` is granted
  again and again to others in between. This is more than the critical section
  promises to an individual waiter; `PoolFreed` and `SubmittedRuns` hold for
  schedulers that do not starve a thread at `pool->cs`. Callbacks return. A
  sleeping worker's timeout (5 s) does expire; spurious wakes are not assumed.

## Findings

Each is a disagreement between the code and a comment beside it, met while
modelling, with a run whose counterexample shows it.

1. `futex_dangling_unlink`: `RtlWaitOnAddress` takes a cleared `entry.addr` to
   mean "already removed" and returns without the spinlock. Wakers clear it
   before they unlink. A waiter that times out between the two returns while its
   entry is still linked.
2. `server_lost_release`: `release_semaphore` wakes nobody when the count is
   positive, because "there cannot be any thread to wake up". A waiter for
   several objects whose deadline has passed, but whose timer has not been
   called, uses up the one wake-up of an earlier release; the thread behind it
   sleeps beside a positive count.
3. `server_signal_twice`: `server_select` guards against signalling twice only
   when the request itself is interrupted, not when the blocked wait is.
4. `thread_pool_cancel`: `tp_object_cancel` wakes no one, so a thread waiting
   for pending callbacks sleeps on when another thread cancels them.

5. `timer_queue_delete`: `RtlDeleteTimerQueueEx` destroys each timer of the list it
   walks, and a timer with unfinished callbacks is moved to the end of that list.
   With two of them the walk does not end, and it holds the lock the callbacks
   need in order to finish.

Findings 2 and 3 concern the server's own objects, without the in-process
device.

## Proofs

TLC covers the instances above. These theorems hold for every value of the
constants that satisfies the named assumptions.

**SRW lock** (`SRWMutualExclusion`, `SRWWordCountsThreads`; assumption: finitely
many threads, `2 * Cardinality(Thread) < Wrap`, the documented limit of 2^15 - 1
waiting threads when `Wrap` is 2^16). The inductive invariant is the type of `pc`
with the two properties themselves. Neither is inductive alone: exclusion rests
on the counters telling the truth, and the swaps keep the counters true only
because an exclusive owner is alone. The bound on threads keeps the 16-bit sums
from wrapping.

**Critical section** (`CritSectionMutualExclusion`, `CritSectionFieldsOfOwner`,
`CritSectionTokenNotLost`; assumption: finitely many threads, `NoThread` not one
of them). The invariant has four parts. `Types`. `Unique`: at most one thread
holds the right to the section, a token counts as a holder, and after the start
of process exit one thread is left. `Fields`: the fields are the owner's, and
name no thread that has left. `Covered`: every holder and every level of
recursion is covered by `LockCount`, so a thread that brings it from -1 to 0
finds nobody inside. `CritSectionTokenNotLost` is about the time before process
exit; exclusion and the fields are proved for both.

**Resource** (`ResourceIsCounted`, `ResourceKeepsHope`; assumption: finitely many
threads, `NoThread` not one of them, a positive depth). The invariant is the
types with the two properties. They need each other: a release hands the lock to
the readers that `uSharedWaiters` counts, so `iNumberActive` is right only as long
as the waiter counts are; and a waiter has hope only because `iNumberActive` says
truly whether someone will release the lock. `MoveCounts` says what the step of a
thread does to the number of threads at each location; each action is then
arithmetic.

**One-time initialization** (`OnceIsAgreed`; no assumption on the number of
threads). `OnceAgreed` is not inductive, since a thread acts on a value of the word
that it loaded some time ago. The invariant adds `Final`, what such a value still
tells: one that says "done" is the word's for ever, and one that says
"asynchronous" is followed only by "done"; and `Initializers`: a synchronous
initializer is the only one, and asynchronous ones meet only their kind.
`WordKept` covers all steps that leave the word alone.

**Thread pool** (`ThreadPoolHasWorker`; assumption: finitely many worker
threads, and types of the bounds). `PoolHasWorker` is not inductive, since a
worker that exits lowers `num_workers` without looking at who else runs. The
invariant adds that `num_workers` is the cardinality of the set of running
workers, and that only an exiting worker's return location is "absent".

Only model-checked: liveness (out of the prover's reach), the refinements of
AddressWaitSpec and SListSpec, the waiters of one-time initialization, everything
about the server, the queues of the thread pool and the timer queue, and the remaining
invariants of the thread pool and SRW lock. What the lists of RunOnce and SList
contain is defined by recursion over the links, which the prover cannot do
induction on.

## Not modelled

`PROJECT.json` lists every part with the reason. The Wine tree has some three
million lines; these modules cover the synchronization core of ntdll and the
server, a few thousand lines on which the rest depends. In-process
synchronization lives in a kernel device outside the repository. The server's
timers, completion ports and asynchronous requests, its name spaces, files,
registry, message queues and windows, ntdll's heap, loader and file code, and the
other libraries and programs were surveyed by name and size, not examined; most
of it is sequential in the single-threaded server, conversions, or I/O.

Inside modelled parts:

- `RtlDeleteCriticalSection`, `RtlSetCriticalSectionSpinCount`,
  `RtlDeleteResource`, and the path of the resource lock after a failed wait on its
  semaphores (which leaves a section it has already left);
- the non-futex branches of alerts and the table of alert words (whose bounds
  check, `unix/sync.c:3393`, admits one index too many, far beyond real thread ids);
- `RtlSleepConditionVariableSRW`, and the wrap-around of 32-bit counters (the
  number of a condition variable, the recursion count of a mutex);
- callbacks that release or wait for objects, finalization callbacks, the handles
  a callback hands back, and timer, wait and I/O objects in cleanup groups; so the
  nesting of the locks of the queues with `pool->cs` and `group->cs` is not
  composed, and its freedom from deadlock not shown;
- in PoolWait, timeouts of waits that run in the wait thread:
  `waitqueue_thread_proc` leaves the lock for their callbacks in the middle of a
  walk over the list, with a `next` pointer that may be stale afterwards;
- a wait that times out and may fire more than once is submitted again on every
  turn; the model has it, bounded, and no property speaks of how often;
- threads that wait for I/O objects (`TpWaitForIoCompletion` cancels in the model,
  but nobody sleeps);
- `num_busy_workers` drifts upwards with each cancel; the model has the drift,
  which costs threads and not correctness;
- the default timer queue, timers used by callbacks, `RtlRegisterWait`,
  `RtlQueueWorkItem` and `RtlSetIoCompletionCallback` as wrappers;
- keyed events with timeouts, suspended or killed partners;
- creation, names and handles of server objects; APC results; process-wide
  suspension.
