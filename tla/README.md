# Formal models of SLib's concurrent core

SLib (`src/`) is a cross-platform C++ library: strings and collections, threads,
asynchronous I/O, networking, cryptography, user interface, and bindings of many
platforms.  Nearly all of it is either sequential data processing or a wrapper of a
platform's service.  The part with logic of its own that is hard to get right and hard
to test is the concurrent core everything else stands on: reference counting with weak
references, the spin locks, the thread pool, the dispatch loop with its timers, and the
asynchronous I/O built over them.  This directory holds TLA+ models of that core, the
TLC configurations that check them, and proofs that TLAPS checks.

## 1. Inventory

Paths are relative to `src/`; `core/` stands for `src/slib/core/` and
`include/slib/core/`.

| Component | State | Operations | Correct when |
|---|---|---|---|
| Reference counting (`core/ref.*`) | `m_nRefCount`, `m_weak`; of the weak cell `m_nRefCount`, `m_object`, `m_lock`; `AtomicRef::m_lock`; `SpinLockPoolForWeakRef` | `Ref` copy, move, drop; `AtomicRef` load, store, swap; `WeakRef` make, copy, drop, `lock` | no use after free; the object is freed once and never brought back; a weak lock fails only when the object is dead; counts exact |
| Spin locks (`core/spin_lock.*`, `core/rw_lock.cpp`, `core/rw_spin_lock.h`) | `m_flagLock`; `m_lockReading`, `m_lockWriting`, `m_nReading` | lock, tryLock, unlock for reading and writing | a writer is alone; a failed `tryLockRead` leaves no trace and never waits; readers are served |
| Thread, Event (`core/thread*.cpp`, `core/event.cpp`) | `m_handle`, `m_flagRequestStop`, `m_flagRunning`, `m_eventWake`, `m_eventWaiting` | start, finish, finishAndWait, wait, wake; set, reset, wait | no lost wake-up; finishAndWait returns after the thread has ended |
| ThreadPool (`core/thread.cpp:466-706`, `core/thread_pool.h`) | `m_flagRunning`, `m_threadWorkers`, `m_threadSleeping`, `m_tasks`, the limits | addTask, dispatch, wake, release, set limits; `_runWorker` | a task is never forgotten while a worker looks; limits kept; nothing runs after release |
| DispatchLoop, ThreadService (`core/dispatch.cpp`, `core/dispatch_loop.h`, `core/thread.cpp:640-706`) | `m_queueTasks`, `m_timeTasks`, `m_queueTimers`, `m_serviceThread`, `m_flagReleasedService` | dispatch, start, stop, release; `_runLoop`, `_getTimeout` | one loop runs at a time; it never sleeps past a task; stop returns |
| Timer (`core/timer.*`, the loop's timer queue) | `m_flagStarted`, `m_nCountRun`, `m_flagDispatched`, the loop's entry | start, stop, stopAndWait, run, the loop's pass | a started timer is in the queue; concurrent runs are limited; quiet after stopAndWait |
| Promise (`include/slib/core/promise.h`) | `m_state`, `m_result`, `m_callback`, `m_lock`; of an `all()` the list and `nCompleted`; of a `wait()` its frame and event | resolve, then, from, thenReturn, thenPromise, race, all, wait | one callback takes the result, once, and it is the first; an `all()` is complete; wait returns, and its frame is not touched after |
| AsyncIoLoop, AsyncStreamInstance (`src/slib/io/async*.cpp`) | `m_flagInit`, `m_flagRunning`, the queues of tasks, orders and closings, the wake event; each instance's slots, held requests, handle and flags | addTask, start, release, requestOrder, closeInstance, attach; read, write, close | each request answered once; the loop does not sleep past what it has to do; the file and the loop's handle are closed once and not used after |
| AsyncStreamSimulator, AsyncFile (`io/async.cpp:924-1240`) | `m_requests`, `m_flagProcessRequest`, the file | requestIo, `_addRequest`, `_runProcessor`, processRequest, close | one request at a time, in order; what is queued has a processor |
| AsyncCopy (`io/async.cpp:1271-1574`) | the two queues of buffers, those being read and written, sizes, flags | start, close, onReadStream, onWriteStream, enqueue | everything read is written, in order, before the end is told; no buffer is used twice |
| AsyncOutput (`io/async.cpp:1577-1905`) | the queue of headers and bodies, `m_elementWriting`, `m_flagWriting`, `m_flagClosed`, `m_copy` | write, copyFrom, mergeBuffer, startWriting, `_write`, the ends, close | one write at a time, in order; a good end means all; no two threads wait for each other |
| AsyncStreamFilter (`io/async.cpp:1908-2222`) | `m_requestsRead`, `m_bufReadConverted`, flags; the same for writing | requestIo, `_read`, onReadStream, close | data in order; a request answered once; one read of the stream below at a time |
| HTTP header and content readers (`slib/network/http_io.cpp`) | `m_last`; `m_state` and the sizes of the chunk; `m_sizeRead` | add; filterRead, setCompleted, setError | the end of the header and of the content is found however the data is cut |
| ExpiringMap (`include/slib/data/expiring_map.h`) | `m_mapCurrent`, `m_mapBackup`, `m_duration`, `m_timer` | get, put, add, remove, setters, `_update`, `_setupTimer`, the destructor | no entry is lost, or dropped while it is used; the timer fits; what touches a destroyed map |
| Lender, QueueChannel (`include/slib/data/`) | a stock of objects with a limit | lend, collect, push, pop | the limit is kept |
| Object, Lockable (`core/object.*`) | a lock, a property map | lock, unlock, properties | local to each operation |
| The rest of `core/`, `data/`, `math/`, `crypto/`, `graphics/`, `render/`, `ui/`, `network/`, `db/`, `media/`, `doc/`, `geo/`, `device/`, `storage/`, `platform/`, `system/` | values, or handles of a platform's service | codecs, parsers, containers, wrappers | sequential; not modelled |

### How they interact

* `Ref` carries every object across threads.  The loop, the pool and the timers reach
  their targets through `WeakRef::lock`, so what a weak lock answers when the last `Ref`
  is being dropped decides whether a callback runs on a dead object.
* The pool and the loop run on `Thread`, whose `wait` and `wake` are built on two fields
  (`m_eventWake`, `m_eventWaiting`) that both sides touch without a common lock.
* `DispatchLoop` derives from `ThreadService`, which owns its thread.  Tasks that run on
  the loop call back into it (dispatch, stop, start), and tasks that run on the pool
  call back into the pool.
* A `Timer` keeps an entry in its loop's queue; the timer's lock and the queue's lock are
  taken one after the other, never both, so their contents may disagree for a moment.
* `AsyncIoLoop` has a thread of its own, which waits with epoll; other threads hand it
  tasks, orders and closings and wake it through a pipe.  Streams, copies and filters are
  chains of callbacks that run on its thread and may re-enter the object that called
  them; a request's timeout runs on the thread of the default `DispatchLoop`.
* `AsyncOutput` copies each body with an `AsyncCopy`, whose end calls back into it with the
  copy's lock taken.  An `AsyncStreamFilter` stands between two streams; the reader of an
  HTTP content is one.  A filter may answer a read, and every stream refuse it, before
  `read()` returns: the callback then runs inside the caller's section.  An `AsyncFile`
  answers on a thread of its dispatcher.
* An `ExpiringMap` owns a `Timer` whose task takes the map's lock and calls the program.
* A `Promise` runs its callback on the thread that comes second, the one that resolves
  it or the one that calls `then`, after it gave the lock back; a callback that resolves
  another promise goes on with the next callback on the same thread.

### What is hard here

Locks that are held while waiting for a thread that wants them; decisions taken on state
read without a lock, or before one was given back; a counter that one thread raises and
another lowers; wake-ups given before the sleeper sleeps; an object that is being
destroyed while somebody promotes a weak reference to it; and callbacks that re-enter.
`PROJECT.json` ("hazards") lists these at the line where they bite, with the properties
that would notice them go wrong; those without a property have a note, and section 5 names
what lies outside the models.

## 2. The modules

| Module | Role |
|---|---|
| `RefCount` | `core/ref.*`: one object, its weak cell, `Ref`, `AtomicRef` and `WeakRef` variables of several threads |
| `SharedOwnership` | what `RefCount` implements: references come only from references, the dead object is reclaimed once |
| `CoreProofs` | of `RefCount` and of `ReadWriteSpinLock`: inductive invariants, safety theorems, refinements |
| `ReadWriteSpinLock` | `core/rw_lock.cpp` over `SpinLock` |
| `RWLock` | what it implements: shared readers, a lone writer |
| `ThreadPool` | the pool, its workers, and the parts of `Thread` and `Event` it uses |
| `ThreadPoolProofs` | inductive invariant, every safety property |
| `DispatchLoop` | the loop with `ThreadService`, `Thread` and `Event` |
| `DispatchLoopProofs` | of the loop and of the timer on it: inductive invariants, every safety property |
| `Timer` | a timer, its entry in the loop's queue, the loop's pass |
| `Promise` | promises made by the program and of one another, their callbacks and waits |
| `PromiseProofs` | inductive invariant, every safety property |
| `AsyncIoLoop` | the loop on epoll and one file stream |
| `AsyncIoLoopProofs` | inductive invariant, every safety property |
| `AsyncStreamSimulator` | the queue of an `AsyncFile` and the task that works on it |
| `AsyncCopy` | a copy, with streams that answer later, at once, or not |
| `AsyncCopyProofs` | inductive invariant, every safety property |
| `AsyncOutput` | the output with its copies, and the locks of both |
| `AsyncStreamFilter` | the reading half of a filter, and of a content reader |
| `HttpHeaderReader`, `ChunkedReader` | the two readers that look for ends in data that comes in pieces |
| `ExpiringMap` | the map, its timer and the program's callback |
| `ExpiringMapProofs` | inductive invariant, every safety property |
| `MCAsyncStreams` | the parts of an asynchronous stream side by side, for one run of TLC |
| `AsyncStreamsProofs` | inductive invariants and every safety property of the simulator, the filter and the output |
| the other `MC*` | model values and symmetry for TLC |

`ThreadPool`, `DispatchLoop`, `AsyncIoLoop`, `AsyncCopy`, `AsyncOutput`,
`AsyncStreamFilter`, `ExpiringMap` and the two readers gather the type invariant and the
invariants that belong together in `Inv`; the others keep them apart.  The inductive
invariant of each proved module is `IInv` of its module of proofs, a conjunction of named
parts (`FilterIInv` and `OutputIInv` for the filter and the output, which share
`AsyncStreamsProofs` with the simulator, `CopyIInv` for the copy, `RWIInv` for the read-write
lock, which shares `CoreProofs` with `RefCount`, and `TimerIInv` for the timer, which shares
`DispatchLoopProofs` with the loop).

Everywhere `pc[t]` is the place a thread has reached, named after the function or the
statement it is about to execute, and `Go` moves it.

**RefCount.**  A step is one access to shared memory: a load, a store, an interlocked
operation, one operation of a spin lock.  A member of `Refs` is a `Ref<T>` variable;
`holder[r]` names the thread that owns it, or `Shared` for the content of the one
`AtomicRef`.  `count`, `weak`, `wcount`, `wobj` are `m_nRefCount`, `m_weak` and the cell's
two fields; `mem` and `cell` say whether the two allocations are alive.
`IncTest`/`Inc` are `increaseReference_NoSync`, whose test of the count and increment are
two accesses; `DropRef` is the decrement, and the thread that reaches zero goes through
`ClearWeak` .. `Delete`, which is `free()` with `CWeakRef::release`.
`StartLock` .. `UnlockCell` are `CWeakRef::lock`; `GetWeak` .. `WeakInc` are
`_getWeakObject` with its double test of `m_weak`; `StartLoad`, `StartStore` ..
`ReleaseALock`, `DropBefore` are `_retain`, `_replace`, `_swap` and `_release` of
`AtomicRef`.

**ReadWriteSpinLock.**  A step is one spin lock operation or one access to `m_nReading`.
`LockRead`, `RLock` .. `RUnlock` are `lockRead`; `TryLockRead`, `TInc` .. `TUnlock` are
`tryLockRead` with its reset to zero; `UnlockRead`, `ULock` .. `UUnlock` are
`unlockRead`; the writer's operations are those of `m_lockWriting`.

**ThreadPool.**  A section under the pool's lock that no other thread can see into is one
step; `holder` is the owner where it takes several, in `addTask`/`wake` until `_wake` is
done and in `release()` from `finish` to the last `finishAndWait`.  `WakeSleeping`,
`StartWorker` and `WakeNobody` are the branches of `_wake`.  A worker goes through
`While`, `TakeTask` or `NoTask`, and `LeavePool` or `GoToSleep`; `Wait` .. `Woken` are
`Thread::wait` with the event: the request to stop is tested, `m_eventWaiting` is set, and
the event's own wait looks at the signal and at the request once more.  Inside a task a
worker may call the pool as any other thread (`Outside` tells where it returns to).

**DispatchLoop.**  `Dispatch` then `Wake` are `dispatch`; `Start`, `Stop`, `Release` and
`FinishAndWait` are `ThreadService`'s, with `stop()` waiting under the loop's lock and
`release()` not.  `While` .. `Timeout` are one pass of `_runLoop` with
`_getTimeout_TimeTasks`; `local` holds what the pass has taken from the queues and the
timeout it computed before it ran the tasks that were due.  `Tick` is the clock.  A pass
inside a task may stop the loop and start it again on another thread.

**Timer.**  `Start`, `AddTimer`, `Stop`, `RemoveTimer`, `EndWait` are `start`, `stop`,
`stopAndWait` with the queue changed after the timer's lock was given back; `Collect` is
`_getTimeout_Timer`, `Run`, `Skip` and `EndTask` are `run()`, where a run that is over the
limit is counted for a moment.  `entries` counts this timer's entries in the queue;
whether an interval has passed is left open.

**Promise.**  Each section under `m_lock` is a step: `Resolve` and `Then` are those of
`resolve` and `then`, used by the program's own calls (`CallResolve`, `CallThen`, `Wait`),
by the combinators (`Combine`, `CombineThen`, `Combined`) and by the callbacks that resolve
or pass on.  A callback is the last thing `resolve` and `then` do, so `hand[t]` is all a
thread has to remember of it; a callback of two steps (`KeepResult` and `CountResult` of
`all`, `GiveResult` and `SetEvent` of `wait`) has done the first when `half[t]`.  `On`,
`Kind`, `Target` and `Inner` say what each callback is passed to and what it does, so one
module stands for any graph of promises.  `Chain` is the callback of a `thenPromise`: the
program's part of it, whose calls are those of another thread before it, then `then` of the
promise it returned, which may be any, made of others or the one the chain itself resolves,
or a null one, which resolves the chain with a default value at once.  Which promise it
returns is a constant of the instance (`On[Inner[c]]`).  Moving a result leaves `Moved`
behind: in
`wait`, `race`, `thenPromise` and `all` the callback moves it out of the promise it ran
for.  `EndWait` is the end of `Event::wait` by the event, the timeout, or the request to
stop; `strayed` records a callback that writes to a frame which is gone.

**AsyncIoLoop.**  `Request` .. `RequestOrder`, `Wake` are `read`/`write` through
`AsyncStreamBase::requestIo`, with the test of the slot and its assignment two steps;
`Close`, `PushClosing`, `Wake`, `SetNull` are `closeInstance` under the stream's lock;
`Release`, `FinishAndWait`, `CloseHandle` are `release()`.  The loop's thread goes through
`While`, `RunTask`, `TakeOrders`, `ProcessOrder` (`_stepBegin`), `EpollWait`, `WakeEvent`,
`FileEvent`, `EndEvents`, and `DetachInstance` .. `FreeRequest` (`_stepEnd`, `onClose`,
`_free`, `_freeRequests`).  An order or an event makes it process its directions:
`Take`, then `Done`, `WouldBlock` or `Failed`, then `NextRequest` (`processRead`,
`processWrite`); `pass.dirs` holds the directions that are left.  `RunCallback` is
`AsyncStreamRequest::runCallback`, which answers the request or, of one that is to be made
fully, makes it again for the rest.  A callback may call the stream and the loop: while
`pass.at` is `"callback"` the loop's thread takes the steps of a caller.  `FileChanges` is
the file and epoll, edge-triggered: an event comes when the file becomes ready or ends,
not while it stays so.  `Timeout` and `EndTimeout` are `runCallback` on another thread.
The handle of a closed file keeps its number: `Done`, `WouldBlock` and `Failed` may each be
what another file that got the number does (`misused`), and no event of it reaches the stream.

**AsyncStreamSimulator.**  `RequestIo` is `read`/`write` through the `requestIo` that sets a
timeout; `Ask`, `Refused`, `AddRequest`, `Dispatch` are the simulator's `requestIo` and the two
parts of `_addRequest`.  `RunProcessor`, `Stopped`, `Pop`, `NoRequest`, `Process` and
`ProcessClosed` are `_runProcessor` and `AsyncFile::processRequest`, where the file does any
part of the request, finds its end, or fails.  `Late`, `AskAgain`, `AnswerAll`, `RefusedAgain`
and `EndCallback` are `runCallback`: a request that is to be done fully and was done in part is
requested again for the rest, by the steps of a new request, and goes behind those that wait;
if the file was closed meanwhile, it is answered.  `Timeout` and `EndTimeout` are `runCallback`
on another thread.  `queued` records the order in which requests, and what was left of them,
were queued, so `DoneInOrder` speaks of a part in its new place; `did` records what the file
did of each and `told` what its callback was told.  The dispatcher may run its tasks on any
worker.  A request may be made from a callback.

**AsyncCopy.**  Every entry runs under the object's lock with the callbacks it makes, so
an entry is one step: `copy` is the object, and `OnRead`, `OnWrite`, `Close`, `ReadStage`,
`WriteStage`, `EndStage` are functions of it, composed by `Enqueue` in the code's order.  A
read may be answered, or any request refused, inside `enqueue` (`AnsweredAtOnce`,
`Refused`), whose callback finds `m_flagEnqueue` set.  Units of data are numbered, and
`mem` says what each buffer's memory holds, so what reaches the target can be compared with
what was read.

**AsyncOutput.**  A section under the object's lock is a step up to a call that needs a
copy's lock or that calls the program: `Write`, `CopyFrom`, `MergeBuffer`; `StartWriting`
then `WriteNothing`, `WriteComplete`, `WriteHeader` or `WriteBody` (`_write`);
`OnWriteStream` and `OnAsyncCopyEnd`, which clear `m_flagWriting` before `_write` takes the
lock; `Close` and `CloseCopy`.  Of a copy only `stage` is kept.

**AsyncStreamFilter.**  `frames` is the stack of calls of the thread that has
`m_lockReading`: callbacks run inside `_processReadRequests`, and the program may call
`read()` or `close()` there.  `TakeAnswer` is `onReadStream` up to its first call: the
stream may give data, its end or its error, data with either, or, when it is an
`AsyncFile` that failed, a size of -1, which `addReadData` takes for the largest there is:
a plain filter then has a buffer without end, a content what was left of it, of `Garbage`.
`Take` is what the buffer gives a request, `AskAgain` what `runCallback` does with a
`readFully()` that got less. `HttpContentReader::onReadStream` sets `m_flagReadingEnded`
before that section and calls `setError()` after it, both without the lock; the model
takes them with the section.  With a `contentLength` the filter is the
`ContentReader_Persistent` of `http_io.cpp`, and `completions` are the calls of
`m_onComplete`.

**HttpHeaderReader, ChunkedReader.**  `Add` is one call with a piece; `PosBody` combines
the tests in the code's order, of which the last to succeed counts.  `ChunkedReader` takes
a byte a step, `EndPiece` anywhere; `AsSent` is the grammar of the class's comment, and
`body.wrong` a byte replaced by one that is neither digit, CR nor LF.

**ExpiringMap.**  A call that holds the lock throughout is one step; those that set up the
timer go through `Lock`, `Stop`, `EndWait`, `Create`.  `SetDuration` and `TestTimer` are the
parts of `setExpiringMilliseconds` before its lock.  `Run`, `Update`, `Tell`, `EndRun` are a
pass on one of the loops, `CallFromCallback` lets `m_onExpired` call the map.
`setDispatchLoop` (part of `SetupTimer`) moves the timer: a pass that cleared its own timer
is waited for by nobody, so two passes may go on at once on two loops.  `Destroy`,
`DestroyStop`, `DestroyWait` are the destructor, which the program calls when no other thread
is in a call and `m_onExpired` is not in one either: the destructor stops the timer there is,
waits for that one (`awaited`) whatever `m_timer` becomes, and a call in progress could still
make another.  `Uses` records what a pass reads of a map that is gone.  `pushInternalMap` is
`PushEmpty` and `PushEntry`; it sets no timer up.  Entries are numbered, so that an entry can
be followed.

### Abstractions shared by all modules

Memory is sequentially consistent (the code uses plain fields where it reads without a
lock, so a weakly ordered machine may show more; `m_weak`, `core/ref.cpp:192`, is one such
field: this is not covered).
Tasks are model values, and the queues' order is kept.  The event is the one of
`core/event.cpp` on POSIX systems.  `Thread::start` succeeds or fails as a choice.  What a
task does is any sequence of calls of the component it runs on.

## 3. What TLC checks

| Run | Instance | Checks |
|---|---|---|
| `refcount` | 2 threads, 2 `Ref`s, 2 `WeakRef`s | `NoUseAfterFree`, `FreedOnceNoLeak`, `LockFailsOnlyWhenDead`; `ImplementsOwnership`, fairness included: the dead object is reclaimed |
| `rwspin` | 3 threads | `WriterAlone`, `ImplementsRWLock`, `ReadersServed` (with `TryNeverWaits`) |
| `pool` | 1 caller, 3 workers, 3 tasks, minimum 0 or 1, maximum 1 or 2 and changing, a recurring task, starts that fail | `Inv` (`LimitKept`, `SleepersExact`), `OnlyUnservedStranded`, `ReleasedIsQuiet` |
| `pool_live` | 1 caller, 2 workers, 2 tasks | `TasksServed`, `ReleaseReturns` |
| `pool_unlimited` | the same, maximum 0 | `ZeroIsUnlimited` is violated (section 6) |
| `loop` | 2 callers, 2 threads for the loop, 2 tasks, delays 1 and 2 | `Inv` (`OneLoop`), `NeverOversleeps` |
| `loop_live` | 2 callers, 1 thread, no delays | `LoopServes` (`TasksRun`, `StopReturns`) |
| `timer` | 2 callers and the loop, one run at a time, 2 entries | `StartedIsQueued`, `QuietAfterStopAndWait`, `StopAndWaitReturns` |
| `promise` | 2 threads, promises `a`, `b`, `third` of the program's own, `l` made by `all(third, b)` and `q` by a `thenPromise` of `a` that goes on with `l`, a wait for `q` | `OneTaker`, `AllComplete`, `WaitIsSafe`, `Served` |
| `asyncio` | 1 caller and the loop's thread, 2 reads, one of them timed and in parts, 1 task, 3 calls | `Inv` (`HandlesSafe`), `NeverOversleeps`, `AnsweredOnce` |
| `expiring_map` | 2 threads, 2 loops, 1 key, 2 entries, durations 0 and 1, 2 timers | `Inv` (`NoneLost`, `OneEntry`, `TimerFits`), `DestroyedQuiet`, `NoneEarly`, `Live` (`SetupReturns`, `Expires`) |
| `streams` | the parts of an asynchronous stream, see below | see below |

`streams` checks the parts that do not share state in the models next to each other.  The
variable `part` names the one that acts in a behaviour; the others keep their initial
state, so the reachable states are the sum of those of the parts and each property speaks
of its part.  What a part needs of another is in its own module, as a choice: a copy's
streams answer at once, later or not at all, as the streams below do.

| Part | Instance | Properties of the run |
|---|---|---|
| `AsyncStreamSimulator` | 2 callers, 2 workers, 2 requests of size 2, one to be done fully, one with a timeout | `DoneInOrder`, `AnsweredTruly`, `QueuedIsProcessed`; `Served` in `StreamsServe` |
| `AsyncIoLoop` | 2 callers and the loop's thread, 1 write, 2 calls | `CloseServes` in `StreamsServe` |
| `AsyncOutput` | 2 callers, the stream's thread and the bodies', 3 pieces | `OutputInv` (`OneWriter`, `SentInOrder`), `CompleteIsAll`, `EmbraceIsClose`; `EndIsTold` in `StreamsServe` |
| `AsyncCopy` | 2 buffers of 2 units, a source of 5, of known and unknown size, sizes modulo 16 | `CopyInv` (`BuffersKept`, `WrittenWasRead`, `CompletedIsAll`), `EndMeansDone`; `Ends` in `StreamsServe` |
| `AsyncStreamFilter` | 3 reads of 1 or 2 units, those of 2 by `readFully`, a source of 4 that may fail with a size of -1; plain, or a content of 3 units | `FilterInv` (`ReadInOrder`, `AnsweredOnce`, `WaitingHasRead`, `OneRead`, `CompletedOnce`); `Served` in `StreamsServe` |
| `HttpHeaderReader` | every input of 7 bytes, cut in every way | `HttpReads` (`NeverMissed`, `FirstFound`) |
| `ChunkedReader` | up to 2 chunks of 2 kinds, a trailer of up to 1 field, one wrong byte | `HttpReads` (`DecodedIsData`, `CompletesAtEnd`, `ErrorAfterWrong`) |

The liveness properties of these parts have the form `<>[](...)`: all of them stop, so
what every behaviour has in the end is what "in the end answered" means, and TLC decides
them quickly.

### Bounds, and why they are enough

* *RefCount.*  Two threads are one that drops the last `Ref` and one inside
  `CWeakRef::lock`, or a load and a store of the `AtomicRef`; two `WeakRef`s let
  one be dropped while the other is in use.  `Room` and `WRoom` let an operation that ends
  with a new reference begin only while a variable is left for it, so no step is ever cut
  off in its middle.  The proofs lift every bound of the safety properties.
* *ReadWriteSpinLock.*  No bound besides three threads: two overlapping readers and a
  writer that waits, or a failing `tryLockRead` between the two.  Proved for any number.
* *ThreadPool.*  Three workers, so that one that left the pool still runs while two others
  reach the largest limit; three tasks, so that a task can be queued while two are inside
  workers.  Each task is added at most once: the pool treats tasks alike.
* *DispatchLoop.*  `MaxTime` stops the clock, `MaxWait` stands for the ten seconds of the
  longest sleep; a delay of 2 leaves a task in the queue behind one that is due, and makes
  the pass compute a timeout that is old when it is used.  Two threads for the loop are
  the service's and one that stopped it from inside a task.  The run of the liveness
  properties has no delays, since no time has to pass.
* *Timer.*  `MaxEntries` caps the entries in the queue, those still to be added included;
  two callers and the loop allow a start and a stop in progress while the task runs, and
  one run that is over the limit.  Only a thread outside of everything calls `run` or
  starts with `flagRunImmediately`: nested runs would need a stack per thread.

* *Promise.*  Two threads are enough for `resolve` against `then`, for the two parts of an
  `all()` that finish at once, and for a stop against the callback of a wait.  The instance
  has a promise with two callbacks, of which at most one runs, and a combinator that goes on
  with another one's promise; each callback is passed once, so the graph bounds the run.  A
  wait that times out ends as one that is stopped does, so the run has the second only.  The
  proofs hold for any number of threads and any promises, callbacks and combinations of them,
  timed waits included; as a constant says what promise a `thenPromise` callback returns, that
  is one statement for each choice, not one for a callback that chooses as it runs.
* *AsyncIoLoop.*  `MaxCalls` bounds the requests, tasks, `close()` and `release()`
  together: three of them make two requests that find one slot empty and a close or a
  release beside them.  `MaxTasks` bounds the tasks; a direction no request is made in is
  left out of the order (`InUse`).  A request is made in at most two parts, and one
  timeout runs at a time.  In `streams` two calls are a write and the close that it races
  with, from two threads: enough for a write that is tried on the closed file's handle.
* *AsyncCopy.*  Two buffers let a read and a write be on their way at once while both
  queues are used; five units fill each buffer more than once, with one left over.
  `Width` is the 2^64 of sizes made small: -1 is 15, and added to what was read wraps.
* *AsyncOutput.*  Three pieces make a header with a body and a second element behind it; a
  header is one piece of memory for each write, a body one piece, read and written once.
* *AsyncStreamFilter.*  Three reads of one or two units against pieces of up to three: a
  request smaller and larger than what is buffered, parts of a `readFully`, and reads nested
  two deep.
* *AsyncStreamSimulator.*  Two requests, of which the one that is to be done fully is queued
  up to twice: a part in hand, the other request in the queue or being made.  Size 2 is the
  smallest that has parts.  Proved for any number and size of requests and any threads.
* *ExpiringMap.*  `MaxTimers` bounds the timers made, and a call that may make one begins
  only while one is left (`Room`); two timers are the one that is stopped and its
  successor.  Two entries are one in each map, or one in a map and one in the hands of a
  pass; with one key the second entry comes by `add()` of a key that is there.  Two loops
  are one with a pass that cleared its timer and one with the pass of the next timer; two
  durations are none and some, and a third (an interval other than the timer's) is covered
  by the proof.
* *HttpHeaderReader.*  Seven bytes hold an empty line that is cut in four, with bytes on
  both sides, and two empty lines that share their middle.
* *ChunkedReader.*  The digits are those of base 3, so that all the data of a chunk and
  leading zeros fit in a small body; the kinds of chunks have data that looks like the end
  of a line, and a size with zeros before it.

`CHECK_DEADLOCK FALSE` appears where the system really may stop: when every reference has
been dropped (`RefCount.cfg`), when `stopAndWait` is called by the task it waits for
(`Timer.cfg`), when every promise is resolved (`Promise.cfg`), when the loop was released
and nobody calls it again (`AsyncIoLoop.cfg`), when a map was destroyed or its timer waits
for itself (`ExpiringMap.cfg`), and, in `AsyncStreams.cfg`, when every request that the
bounds allow was answered, a copy or an output has ended or two threads wait for each
other, and at the end of the input.  The other runs check deadlock.  A wait in a loop with a
timeout (as in `finishAndWait`) is a step that repeats, so two threads that wait for each
other there are a liveness matter, and are found by `ReleaseReturns` and `StopReturns`.

### Fairness

* A thread that is inside an operation takes its next step (weak fairness): the scheduler
  is the operating system's.
* A lock that is free again and again is at last taken by a thread that wants it (strong
  fairness): spin locks back off and yield (`spin_lock.cpp`), the others are the
  platform's mutexes.  The code has no queue, so this is an assumption about chance; it
  is used by the liveness properties only.
* A task that runs ends, whatever it asks of the component meanwhile (strong fairness of
  `EndTask`).  A client that never returns would of course stop everything behind it.
* `ReadWriteSpinLock`: writers release; readers may keep the lock for ever, and no
  property says that writers are served, because the lock does not promise it.
* `Promise`: a thread goes on with what it has in hand, and a wait that may end ends;
  nobody need resolve or wait for anything.
* `AsyncIoLoop`: a call goes on; the loop's thread goes on, `epoll_wait` included, which
  ends at the latest after its five seconds.  The file need never become ready, and no
  timeout need come.
* `AsyncCopy`, `AsyncOutput`, `AsyncStreamFilter`: streams answer what they took, in
  whatever way, and calls return, those of the program included.
* `AsyncStreamSimulator`: the dispatcher runs a task it took, on a thread that was not
  stopped; nobody need make requests.
* `ExpiringMap`: the loop runs a timer that is started, a thread goes on in its call, and
  the program's callback returns.
* `DispatchLoop`: nothing is assumed about time.  A caller need never begin anything.

### What the liveness properties leave out on purpose

`ThreadPool::release` waits for the workers with the pool's lock in its hands
(`core/thread.cpp:520`): a worker that wants that lock, in order to sleep, to leave or
from inside a task, never gets it, and `release()` does not return.  `ReleaseReturns`
says that it returns in every other case.  The same holds of `ThreadService::stop`
(`core/thread.cpp:687`) and a task that dispatches to the loop being stopped, and of
`Timer::stopAndWait` called by the task of that timer.  `TasksServed` begins where some
worker looks: a task that is added at the limit, or when no thread can be started, waits
for the next wake-up, and `OnlyUnservedStranded` says that only such tasks do.

`Promise` keeps one callback: `then` on a pending promise replaces the one before, and the
comment on `wait` asks not to mix the two (`core/promise.h:229`).  `Served` therefore speaks
of promises that got one callback, and `WaitIsSafe` of waits that were not given up: a
`wait` with a timeout, or of a thread that is stopped, leaves its callback behind, which
writes to the frame when the promise is resolved later.

`AnsweredOnce` of `AsyncIoLoop` names what the streams do not exclude: two requests of one
direction made at once, of which the second overwrites the first in the slot
(`io/async.cpp:544`), and a timed request that is answered by the timeout and by the loop,
or before it is refused. `HandlesSafe` leaves out a request that was being made when
`close()` was called, which may be done on the closed file's number, and a loop released
by one of its own callbacks, which goes on with a handle that was freed.
`NeverOversleeps` leaves out a stream that was closed while the loop did not run, whose
closing waits for the first `epoll_wait` to time out, and a request that was tried on the
closed file's number when another file had it and would block (`io/async_unix.cpp:88`): it
is held, no event comes for it, and the destructor does not look at it
(`io/async.cpp:1038`).  `CloseServes` says that closing answers every request, those that
raced with it too, but for such a one with what is in the slot after it, and one that
another took the place of in the slot.

What the models of streams and maps show, and their properties name as exceptions:

* A read of an `AsyncFile` that fails gives `-1` as its size
  (`io/async.cpp:1230`).  `AsyncCopy` adds it to `m_sizeRead`, which wraps, and queues the
  whole buffer: what it held before is written after the data (`WrittenWasRead` allows it
  only after a failed read; the end then tells the error, `EndMeansDone`).
* A read that is answered within `enqueue()` by nothing to write leaves both directions
  idle, and the copy ends before its source does, without an error (`hollow`).
* `AsyncOutput::close()` by one thread and the end of a copy on another take their two
  locks in opposite orders and may wait for each other for ever (`EmbraceIsClose` says
  that nothing else does).
* A read that `AsyncStreamFilter::requestIo` refuses was put in `m_requestsRead` first
  (`io/async.cpp:1950`): it is answered by `read()`, and later again with data
  (`AnsweredOnce`).  A callback inside `read()` that reads again makes two reads of the
  stream below on the same memory, and so does the rest of a `readFully()` that is requested
  there (`nested`; `OneRead`, `CompletedOnce`).  `close()` and an end without data leave the
  reads that wait unanswered (`Served`).
* A source of a filter that fails with a size of -1 (`io/async.cpp:1230`, `2131`) is taken
  for data: readers are given what the memory held as a success, and a content is completed
  without error; `ReadInOrder` allows it only behind what the stream gave (`broken`).  Then,
  and when an error comes with the last of a content, `m_onComplete` is called twice
  (`CompletedOnce`).
* A `readFully()` or `write()` that an `AsyncFile` does in part goes behind the others
  (`io/async.cpp:498`): its parts may be separated by other requests, so that `DoneInOrder`
  speaks of the order in which parts were queued.  If its rest is refused, because the file
  was closed, its last part is counted twice and the caller told of more than was done
  (`again`; `AnsweredTruly`).  A request with a timeout may be done, in parts or again, after
  its timeout answered it, and answered twice; `AnsweredTruly` leaves those out.
* A dispatch that fails, a closed file or a stopped thread leaves `m_flagProcessRequest`
  set: no later request of the simulator is answered (`QueuedIsProcessed`, `Served`).
* `ExpiringMap::_setupTimer` waits under the lock for a pass that wants the lock
  (`Stuck`).  `setExpiringMilliseconds` may leave a timer of the old interval, or none
  (`missed`), and `pushInternalMap` leaves entries without one; the destructor may read a
  timer that a pass has just cleared, the step to `"crashed"`.  A pass that cleared its own
  timer is not waited for by the destructor, and reads `m_onExpired` of the map that is gone
  (`data/expiring_map.h:378`): the one exception of `DestroyedQuiet`.  `add()` or
  `pushInternalMap()` of a key that is there makes a second entry (`twice`).
* An empty line that was cut, with another one in the same piece, ends the header at the
  second (`network/http_io.cpp:111`): the beginning of a pipelined request is taken for
  header (`FirstFound`).

## 4. What is proved

TLAPS checks every step; no fact is assumed but the named assumptions on the constants.

**ReadWriteSpinLock**, in `CoreProofs` as an instance for `RefCount`'s threads (finitely
many, `Nobody` is none of them).  `RWIInv` is the type invariant with three parts: who is
between lock and unlock of `m_lockReading` is alone and the flag tells so; `m_nReading` is
the number of threads between their increment and their decrement (finite sets and
cardinality), with what each thread has already read from it; and `m_lockWriting` is taken
exactly for one writer, or for the readers counted, with the two exceptions of the first
reader that still waits and the last one that is about to release.  The properties are not
inductive alone: that a writer excludes readers needs the value the first reader saw to be
still true when it acts on it.  Theorems: `RWInvariance`, `RWTypeCorrect`, `Exclusion`
(`WriterAlone`), `ReadersCounted`, and `RWRefinement`: every step is one of `RWLock` or
leaves it unchanged.

**RefCount**, from `ConstantsAssumption` (finite sets; `Null` and `Shared` are no thread).
`IInv` joins `TypeOK` and six parts: `LockInv` (each spin lock is owned by the thread that
is in its section), `ArgInv` (the `Ref` an operation works on is the thread's, or the
`AtomicRef`'s content under its lock), `BirthInv` (before the first `Ref` nobody else has
anything), `DeathInv` (an object without a `Ref` is being made or being freed by exactly
one thread), `CellInv` (what keeps the cell alive for each thread inside it) and
`CountInv` (both counts as cardinalities).  The parts need each other: that the count is
not raised from zero after `free()` began needs `m_lock` and `m_object`, and that the
cell outlives `CWeakRef::lock` needs the exact count of the cell.  Theorems: `Invariance`,
`TypeCorrect`, `MemorySafety`, `ExactCounts`, `FreedOnce`, `LockIsSharp`, and
`RefinesOwnership`: the safety part of the refinement of `SharedOwnership`.

**Timer**, from `TimerAssumption` of `MCTimer` (the loop's thread is one of the loop's;
finitely many callers; the limit and the bound on the entries are numbers).  `TimerIInv`
says who is inside the task (`PlaceInv`), that `m_nCountRun` is the number of threads
`run()` let in or is about to send away (`CountInv`), the limit itself, and `EntryInv`:
the entries in the queue and those still to be added are at least the removals still to
come, and one more where the timer is started.  That last part is why starts and stops may
reach the queue in any order.  It does not rest on who adds or removes what: a removal
that finds no entry takes none, and only makes the inequality easier.  Theorems:
`TimerInvariance`, `TimerTypeCorrect`, `LimitedRuns` (`RunsLimited`), `StartedStaysQueued`
(`StartedIsQueued`), `QuietAfterWait` (`QuietAfterStopAndWait`).

**Promise**, from `ConstantsAssumption` and `TargetsAssumption` (finitely many callbacks;
what each kind of callback resolves, that the inner callback of a `thenPromise` is its own
and resolves what the outer one does, and that all the callbacks into one `all()` are its
parts; which promise a `thenPromise` goes on with is not restricted).  `IInv` is
`CoreInv`, `AllInv` and `WaitInv`.  `CoreInv` says that a promise keeps a callback only
while it is pending (`KeptInv`), that what a thread has in hand belongs to a completed
promise and finds its first result untouched until its first step (`HandInv`), that what
ran saw the first result (`RanInv`), that a result is taken by one callback, run or in
hand (`TakerInv`), and that the inner callback of a `thenPromise` is passed only by its
outer one (`InnerInv`).  `OneTaker` alone is not inductive: that a callback runs once
needs that it is in one place, and what it sees needs that nobody else may move the
result.  `AllInv` ties `nCompleted` to the cardinality of the parts that ran to their end,
so that the step that finds the count full finds every part done although each part takes
two steps.  `WaitInv` says where the frame of a wait is.  The steps of `resolve`, `then`
and the end of a callback are lemmas (`ResolveStep`, `ThenStep`, `DoneStep`, `HalfStep`),
used by each action that takes them.  Theorems: `Invariance`, `TypeCorrect`, `TakenOnce`
(`OneTaker`), `AllIsComplete` (`AllComplete`), `WaitSafe` (`WaitIsSafe`).

**AsyncStreamSimulator**, from `ConstantsAssumption` (callers and workers are disjoint,
`Nobody` is no request, a request has a size).  `IInv` is `TypeOK`, `OneProcessor` and seven
parts.  `StepsInv`: which steps callers and workers take, and that who is to queue or process
has a request.  `FlagInv`: the flag is clear only while there is no processor and no request,
and set only while there is one or one was lost.  `OrderInv`: while the file is open, what was
queued, parts included, is what was done, what a worker has in hand, and what waits, in that
order.  `PlaceInv`: a request is in one place, in the queue once, on its way there, or served.
`SizesInv`: what passed is less than the request, and nothing of one that is new.
`AnswerInv`: one without a timeout is answered at most once, and not while it is in the queue
or in hand.  `TellInv`: until it is answered, what the file did of it is what passed before
and the part in hand.  That one processor runs needs the flag, the order needs one processor,
and what a request is told needs that its parts are never in two places.  Each action, or
group of alike actions, has a lemma.  Theorems: `Invariance`, `TypeCorrect`, `SingleProcessor`
(`OneProcessor`), `InOrder` (`DoneInOrder`), `ToldTruly` (`AnsweredTruly`), `NotStranded`
(`QueuedIsProcessed`).

**AsyncStreamFilter**, from `FilterAssumption` (the constants are numbers, requests and
pieces are not empty), as a part of `MCAsyncStreams`: its variables change in its own steps
only (`FilterActs`).  `FilterIInv` is the type invariant and five parts.  `UnitsInv`: what
the requests were given and what the buffer keeps are one row of units, and as many as the
content still wants of those the stream gave; garbage stands behind all of them, and only if
the stream failed with a size.  `QueueInv`: a request is in the queue once,
and was answered there only if its `read()` failed.  `WaitInv`: while a request waits and
the stream is not asked, some frame of the stack will still look (`GoesOn`); that is what
makes `WaitingHasRead` hold when the stack is empty.  `ReadInv`: as long as the program does
not read from a callback of `read()`, `m_flagReading` is set exactly while the stream below
has a read, no `_read` waits in the stack while it is set, and a content that was completed
has neither; `OneRead` and half of `CompletedOnce` rest on it.  `CompleteInv` is the other
half.  Lemmas say what a returning call and a new one leave of the stack (`ReturnFacts`,
`CallFacts`), and what the buffer is after units were given or let pass.  Theorems:
`FilterInvariance`, `FilterAnswers` (`FilterInv`).

**AsyncOutput**, from `OutputAssumption` (the stream's thread and the bodies' are two and
none of the program's, `Nobody` is none, the number of pieces is a number), as a part of
`MCAsyncStreams` (`OutputActs`).  `OutputIInv` is `OutTypes` and five parts.  `RowInv`: the
element that is being written and those in the queue are one row of pieces up to the last
that was queued (`Chain`), and nothing of it was begun.  `WriterInv`: at most one piece is on
its way, at the stream or with its copy, or else one thread has its callback; meanwhile
`m_flagWriting` is set, or the output is closed.  That is why it may be cleared without the
lock: nobody but the thread of the one callback can do it, and `_write`, which takes the lock
next, finds nothing on its way.  `SentInv`: until something fails, what was sent, the piece on
its way and the row that waits follow each other.  `EndInv`: who tells the end without an
error has the lock and found nothing left; with `SentInv` that is `CompleteIsAll`.
`CopiesInv`: who closes a copy has the output's lock, and who has a copy's lock is the
stream's thread, or something failed; with it, two threads that wait for each other's lock
are as `EmbraceIsClose` says.  Lemmas say what queueing and writing do to the row
(`ChainAppend`, `ChainLast`, `ChainTail`, `RestOfRow`).  Theorems: `OutputInvariance`,
`OutputInOrder` (`OutputInv`), `OutputComplete` (`CompleteIsAll`), `OutputEmbrace`
(`EmbraceIsClose`).

**AsyncCopy**, from `CopyAssumption` (there are buffers and they are not empty, the source
with one buffer more is smaller than what a size can say, so that only a file that fails makes
a size wrap), as a part of `MCAsyncStreams` (`CopyActs`).  `CopyIInv` joins the types to two
cases.  While the copy runs (`Sound`): every buffer is in one place (`Apart`), each stream has
the one request that `m_bufferReading` or `m_bufferWriting` stands for (`Asked`), and the
bytes are in order (`OnTheirWay`, `Flow`): there are offsets, one for each buffer that waits,
such that the first begins where the write on its way ends, each begins where the one before
it ends, and each buffer holds what was kept from its offset on.  `WrittenWasRead` is not
inductive, because it says nothing of data in a buffer; and an offset is needed for each
buffer because `onRead` may let less pass than was read.  A file's failed read puts its
buffer behind all of the others as if it were full (see the abstractions), so offsets may
run past what was kept, and then `m_flagReadError` is set.  `SizesSay` ties `m_sizeRead` to
what the source gave and `m_sizeWritten` to what the target took, each until its stream
fails, since the end of the copy is decided from them.  When it has ended: `EndSays`.
`enqueue` is proved stage by stage on the object it is given (`ReadSound`, `SendSound`,
`WriteSound`, `EndSound`), as the stages are operators of the model and not steps.
Theorems: `CopyInvariance`, `CopyInOrder` (`CopyInv`), `CopyDone` (`EndMeansDone`).

**DispatchLoop**, from `ConstantsAssumption`.  `IInv` is `Types`, `FreshInv` (what is queued
was dispatched once), `TargetInv` (a thread waits for another exactly in `finish`), `OneLoop`,
`PhaseInv` and `SleepInv`.  `SleepInv` is the heart: while the service's thread has no
signal and nobody is about to give it one, what the pass saw when it looked at the queues is
still so: no task is queued where it is about to sleep, and no delayed task comes before the
timeout it computed.  Whatever was dispatched since has left a signal, or a `_wake` that is
still to come.  `PhaseInv` bounds the sleep by that timeout.  The timeout is a least number,
so the proof needs that a set of numbers has one (`MinNat`, by well-foundedness).  Theorems:
`Invariance`, `OneLoopRuns` (`Inv`), `SleepsInTime` (`NeverOversleeps`).

**ThreadPool**, from `ConstantsAssumption` (callers and workers are disjoint, `Nobody` is
neither nor a task, limits are numbers; the set of maximums is finite, because the bound is
the highest of them).  `IInv` joins `Types` and seven parts: `TasksInv` and `LockInv` (who
owns the lock over several steps), `WorkersInv` (every worker that goes on is in
`m_threadWorkers`, which never grows over the highest limit: `LimitKept` counts tasks, and
this part finds each of them in the list), `SleepersInv` (while the pool runs nobody is asked
to stop, a signal is for one that waits, and `SleepersExact`), `ReleaseInv` (the workers
before the one `release()` is at have ended), `QuietInv` (after it at most one goes on) and
`StrandInv`.  `SleepersExact` needs the first two facts of `SleepersInv`: a worker that
waits can leave only by a signal, since none was asked to stop.  Theorems: `Invariance`,
`LimitAndSleepers` (`Inv`), `NoneStranded` (`OnlyUnservedStranded`), `QuietAfterRelease`
(`ReleasedIsQuiet`).

**ExpiringMap**, from `ConstantsAssumption` (no loop is a thread of the program, `Nobody`
is neither, durations and bounds are numbers; finitely many threads, because `MaxTimers`
is kept by counting the calls that may still make one).  `IInv` joins `Types` and seven
parts: `Places` (every entry is in one place, and in the hands of `_update` only between
its two steps), `UsedInv` (what was used since the last pass is in the current map or was
removed), `Unique`, `LockInv`, `TimerInv` (the timer that is there, the interval that was
read for the next one, and who is on the way to repair either when it does not fit),
`PassInv` (a pass that did not clear `m_timer` is of the map's own timer and on its loop:
it was stopped and waited for otherwise; so is one that is to update, which is why two
passes never update at once) and `EndInv` (the destructor is alone, what it stopped stays
stopped, and it waits for that).  `TimerFits` between calls follows from `TimerInv`, which
has to speak of every step in the middle.  The proof showed what the bound of the run
hides: with four timers, a destructor that begins while `m_onExpired` is inside
`setExpiringMilliseconds`, between its look at the timer and its lock, leaves a timer that
runs after it.  That no call is in progress is therefore a condition of `Destroy`.
Theorems: `Invariance`, `EntriesAndTimer` (`Inv`), `QuietAfterDestroy` (`DestroyedQuiet`),
`NoUsedDropped` (`NoneEarly`).

**AsyncIoLoop**, from `ConstantsAssumption` (`Loop` and `Nobody` are no callers, `Nobody`
is no request, callers and requests are finitely many, because tasks and calls are
counted). `IInv` joins `Types` and twelve parts, of which these carry the argument.
`WakeInv`: what was queued since the loop's thread looked at that queue has its wake-up,
with epoll or in the hands of a thread that will send it; the wake event's flag is set
only while its event is with epoll or was taken, so a `wake()` that finds it set may do
nothing.  `OrderInv`: a request in a slot is looked for, because the stream has an order
in the queue, taken from it or being made, or because the loop's thread has that direction
still before it; it needs `QueueInv`, by which `m_flagOrdering` is set exactly while there
is such an order, and rests on the flag being cleared before the slots are looked at.
`HeldInv`: a held request waits for a file that is not ready, or whose event is there.
`ClosingInv`: the closing of the stream is in one place, with the thread in
`closeInstance`, in the queue, with the loop's thread, or done, and what it frees was not
freed before.  `PlaceInv` and `AnswerInv`: a request is in one place, the slot, the list,
the loop's hands or a call, and in none once it was answered by something other than its
timeout.  `RacedInv`: what reaches a file that is closed was made while it was being
closed, and what is held after that was tried on it.  `NeverOversleeps` is the first four
at `epoll_wait`; none of them is inductive without `PassInv`, which says what the loop's
thread has at each step and in a callback that calls back into the stream.  The proof has
one lemma for each part and group of alike actions.  Theorems: `Invariance`,
`TypesAndHandles` (`Inv`), `NoOversleep` (`NeverOversleeps`), `AnswersOnce`
(`AnsweredOnce`).

Theorems and runs do not cover the same: `TypeOK`, `CountsExact`, `CountExact`,
`RunsLimited` and `OneProcessor` of the modules that keep them apart are theorems, for every
value of the constants, and no run repeats them.

Only model-checked: all liveness (the reclaiming of the object, `ReadersServed`,
`TasksServed`, `ReleaseReturns`, `TasksRun`, `StopReturns`, `StopAndWaitReturns`,
`Served` of `Promise`, `Live`, `StreamsServe`) and `TryNeverWaits`, which uses `ENABLED`, are
beyond the prover, and so is `ZeroIsUnlimited`, which is false.  Of the two readers
nothing is proved; what they compute of a whole input (`FirstFound`, `DecodedIsData`) is
induction over data, which stays with TLC.

## 5. What is not modelled

* An object that takes a `Ref` to itself while it is being destroyed, or whose destructor
  re-enters the variable it was dropped from; `AtomicWeakRef`; the smart pointers over
  `Ref`.
* `ReadWriteLock` (a platform lock behind a pointer) and the RAII lockers.
* `Thread` on its own: join, timed waits, the Windows events; `Thread::sleep` inside a
  pool's task, which can take the wake-up meant for the worker (`core/thread.cpp:302`);
  `finishAllThreads`, which stops the pool's workers too (`core/thread.cpp:123`); a
  `start()` whose thread ends before it looks at `m_handle` (`core/thread.cpp:139`).
* A `Timer` on a `Dispatcher` that is not a loop (a dispatch that fails leaves
  `m_flagDispatched` set, `core/timer.cpp:233`), the task that `start(true)` runs at once
  without counting it (`core/timer.cpp:157`), and the clock of timers.
* Of a `Promise`: `dispatch` and `setTimeout` (a task on another thread calls `resolve`),
  `then` of a null promise by the program, and a value's own destructor.
* Of asynchronous I/O: the loops on kqueue and completion ports, sockets and servers, a
  stream attached to a loop that was released, an instance whose destructor answers what
  its released loop left, the amounts of data, and the unlocked copy of `m_ioInstance`
  (one step here).  A write without data, which `processWrite` takes and never answers
  (`io/async_unix.cpp:124`), is listed as a hazard that no property covers.
* The writing half of `AsyncStreamFilter`, filters that hold data back, decompression, and
  the result code a filter answers with; `AsyncOutput::clearOutput` and its length
  counter; memory that cannot be allocated.
* Sizes of chunks that do not fit in 64 bits (`network/http_io.cpp:277`), the tear-down
  content reader, `HttpServerConnection` around the readers and the output.
* `Lender` and `QueueChannel`, whose operations are one section under one lock each.
* Everything sequential, generated or vendored, and wrappers of platform services.

## 6. Findings

* `ThreadPool::setMaximumThreadCount`: the header says "0 means unlimited count"
  (`include/slib/core/thread_pool.h:55`).  `_wake` (`core/thread.cpp:591`) compares the
  limit as a number: with 0 only the first worker is ever started, and a task that is
  added while it is busy waits for it.  Run `pool_unlimited`, property `ZeroIsUnlimited`.

## 7. Plan

Order of what comes next; each module follows the pattern above, with one action per
operation, no recursive operator, and its invariant as a conjunction of named parts.

1. `HttpServerConnection`: the connection between a stream, the header and content readers
   and `AsyncOutput`; property: requests are answered in the order they came, each once, and
   what was read behind a request is not lost.
2. Re-entrant destruction in `RefCount`; a `Timer` on another `Dispatcher`.
