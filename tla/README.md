# TLA+ specifications of the Odyssey Web Browser's threads, event loop and loaders

Odyssey is a WebKit browser for MorphOS and AROS. Most of it is WebKit's
sequential code: parsing, layout, rendering, JavaScript. These specifications
are about the part where several threads meet:

- the locks of WTF (`Source/WTF/wtf`), on which all other threading in WebKit
  rests, and the pool of helper threads that the garbage collector uses;
- the event loop of the MUI port, in which the main task of the browser serves
  user input, functions sent by other threads, methods pushed by other tasks
  and timers, all of them announced by exec signals;
- the port's media player, with a thread that demuxes and one for each stream;
- the curl network backend, which is on one thread but whose jobs, callbacks and
  disk cache interleave, and whose cache must survive the end of the process.

`PROJECT.json` lists the components, the runs, the lines of code behind each
definition, the hazards and the theorems.

## The system and its parts

| Part | Source | Module |
| --- | --- | --- |
| WordLock, a mutex in a word with an intrusive queue | `wtf/WordLock.{h,cpp}` | `WordLock`, proofs in `WordLockPoolProofs` |
| What a mutex promises | (abstract) | `Mutex` |
| ParkingLot: park and unpark at an address | `wtf/ParkingLot.{h,cpp}` | `ParkingLot` (steps), `ParkingLotClient` (its general client), proofs in `ParkingLotProofs` |
| What a parking lot promises | (abstract) | `ParkingQueues` |
| ParkingLot: the table of buckets and its growth | `wtf/ParkingLot.cpp` | `ParkingLotTable`, proofs in `ParkingLotTableSteps` and `ParkingLotTableProofs` |
| Lock, a mutex in a byte on ParkingLot | `wtf/Lock.{h,cpp}` | `Lock` (steps) |
| Condition, a condition variable on ParkingLot | `wtf/Condition.h` | `Condition` (steps) |
| Lock and Condition over one ParkingLot | the three above | `LockClient`, proofs in `LockProofs` |
| Walks of linked lists | `Bucket::genericDequeue()` and the lists of the other parts | `Queues`, lemmas in `QueueLemmas` |
| ParallelHelperPool | `wtf/ParallelHelperPool.{h,cpp}` | `ParallelHelperPool`, proofs in `WordLockPoolProofs` |
| Signals of the main task | `SharedTimerMorphOS.cpp`, `methodstack.c` | `MainTask` |
| Functions for the main thread | `wtf/MainThread.cpp`, `wtf/mui/MainThreadMUI.cpp` | `MainThread` |
| Methods for the main task | `WebKit/mui/Api/MorphOS/methodstack.c` | `MethodStack` |
| Timers and the shared timer's task | `platform/ThreadTimers.cpp`, `platform/Timer.cpp`, `platform/mui/SharedTimerMorphOS.cpp` | `SharedTimer` |
| The main loop | `Tools/OdysseyWebBrowser/main.cpp`, `appclass.cpp` | `MainLoop`, proofs in `MainLoopMediaProofs` |
| The media player | `platform/mui/MediaPlayerPrivateMorphOS.cpp` | `MediaPlayer`, proofs in `MainLoopMediaProofs` |
| The disk cache | `platform/network/curl/CurlCacheManager.cpp`, `CurlCacheEntry.cpp` | `CurlCache` (operators) |
| Network jobs | `platform/network/curl/ResourceHandleManager.cpp`, `ResourceHandleCurl.cpp` | `CurlJobs` (with the cache), proofs in `CurlJobsProofs` |

How they depend on each other:

    LockClient -> Condition -> Lock -> ParkingLot -> (buckets locked by) WordLock
    ParallelHelperPool -> (one Lock, two Conditions)
    MainLoop -> MainThread, MethodStack, SharedTimer -> MainTask
    MediaPlayer -> (paint jobs in the main thread's queue)
    CurlJobs -> CurlCache; its timer is one of the thread timers

`Lock` and `Condition` are composed with the steps of `ParkingLot` itself, not
with an abstraction of it. In the other places one layer is used through what
the layer below is shown to be: a bucket's critical section is one step in
`ParkingLot` because WordLock implements `Mutex`; a critical section of
`ParallelHelperPool`, and of the function queue, is one step because Lock does.

The `MC*` modules name the model values, the hash functions and the symmetry
sets of the runs; `WordLock`, `ParallelHelperPool` and `MediaPlayer` need none.

## How state and actions correspond to the code

Variables have the names of the fields, globals and locals they stand for
(`m_word`, `shouldPark`, `nextInQueue`, `m_byte`, `m_hasWaiters`,
`invocationQueue`, `m_timerHeap`, `timerSignals` for the signals of the timer
task). `pc` is where a thread is. Variables that the code does not have are
marked as history or as locals: `leftBy` (who took a thread off its queue),
`mark` and `pushes` (which methods were pushed before which), `parks`, `ops`
and `tasks` (counters for the bounds).

**WordLock.** One action per access to the word, per critical section of a
ThreadData's `parkingLock`, and per change of the queue's links under the queue
spinlock. A `compareExchangeWeak` is an action for success and one for failure;
with `WeakCASFails` it may fail although the word is as expected. A word is a
record of its two bits and its head.

**ParkingLot.** `EnqueueAt`, `Sleep`, `WakeUp` (spurious, or at the timeout),
`TimedOut`, `DequeueSelf`, `ClearSelf` and `ParkReturn` are
`parkConditionally()`; `UnparkOneAt` and `UnparkAllAt` dequeue under the
bucket's lock, and `ClearAddress` and `NotifyOne` are the two steps with which
an unparker then wakes each thread. There are actions in between because the
code holds no lock there: this is where a timeout and an unpark can cross.

**ParkingLotTable.** The table is read without a lock. Each thread loads the
table, finds or creates the bucket, locks it and looks whether the table is
still the current one; creating a thread locks all buckets, in the order of
their addresses, and replaces the table. `forEach()` takes the same locks. The
order of addresses is the order in which buckets are created: the allocator may
give any other, and the locking order needs only that there is one.

**Lock and Condition.** One action per access to the byte; park and unpark are
ParkingLot's steps. The callback of `unparkOne()` and the validation run inside
the bucket's critical section, hence in the same action. `LockClient` composes
both: threads lock and unlock, and wait on a Condition and notify it. The run
`lock` gives the Condition no users, so that two Locks fit.

**ParallelHelperPool.** One action per critical section; a `wait()` is a sleep
that a `notifyAll()` ends. Clients follow the two "known-good patterns" of the
header: a task that knows when it is done, or one that is told to stop before
`finish()`.

**MainLoop.** The main task is a program with a stack of return points, since
`methodstack_check()` and the application's code re-enter. The application's
code runs where input is handled, a method is performed, a function is called,
a timer fires, or the application is disposed of; at each of these it may start
or stop timers, send, remove, pause and unpause functions, and push methods.
Exec signals are bits: a second one is not counted, and `Wait()` takes all the
bits of its mask at once. Whether a function or a timer takes longer than its
time limit is a free choice. A time is the number of clock ticks until it
comes. `setSharedTimerFireInterval()` may lose up to a tick to its truncation.
The signal of a timer request that was aborted or waited for may stay set. The
user's input is signalled only to a main task that waits, because only `Wait()`
looks at that signal.

**MediaPlayer.** The main thread sends commands, receives the file, paints and
runs the destructor; the player thread obeys the commands (`TakeCommand` to
`SeekStreams`) and demuxes (`Demux`, `Drain`); each decoder takes packets
(`DecoderLoop` to `KeepId`). `running`, `m_startedPlaying` and `m_isSeeking` are
read and written without a lock, so each access that another thread can come
before is a step. Packets are of two kinds, ordinary and flush, since that is
all that decides who is woken. How full a queue is depends on the sizes of
packets, which the model leaves open. `wanted` is history: what the page asked
for last. "late" marks a decoder that began its wait after the last signal.

**CurlCache and CurlJobs.** `CurlCache` has one operator per method of the cache,
from a cache to the caches that the method may leave: an index of entries, the
list in the order of use, the counted size, the content files and the index
file. `makeRoomForNewEntry()` takes the last of the list again and again; as the
list has no duplicates (`EveryEntryEvictable`) that is one walk from its end. `CurlJobs` has the manager's list, counter and timer, and for each
ResourceHandle its references, its handle and where curl is with its transfer.
The steps of `downloadTimerCallback()` are separate because clients act in the
callbacks between them: they start, cancel and resume jobs. Whether an entry has
expired, whether a response is cacheable, and whether this is the response after
which the index is saved, is a free choice. `Restart` ends the process, in
order or in the middle of anything, and starts it again from the files.
`spoiled` is history: it marks an entry whose content the code has cut short
without noticing.

## Runs

| Run | Instance | States | Shows |
| --- | --- | --- | --- |
| `wordlock` | 3 threads, spin limit 1 | 253,000 | mutual exclusion, bits, queue, FIFO order, sleepers wake, implements `Mutex` |
| `parkinglot` | 3 threads, 2 addresses in 1 bucket, 1 thread with a timeout | 219,000 | sound queues, true results, unparked threads return, implements `ParkingQueues` |
| `parkinglot_table` | 3 threads, 2 addresses, load and growth factor 1 | 1,590,000 | nobody lost, no bucket leaked, ordered locks, queue order kept by a resize |
| `lock` | 3 threads, 2 Locks in 1 bucket | 199,000 | parked bit, parked threads are unparked, implements `Mutex` |
| `condition` | 3 threads, Lock and Condition in 1 bucket | 119,000 | no spurious return, `m_hasWaiters` hides nobody, `notifyAll()` wakes everyone |
| `helperpool` | 2 clients, 2 tasks each, 3 threads | 34,000 | `finish()` waits for all, no idle helper beside a task, waits return |
| `mainloop_jobs` | 2 workers, 2 functions, 2 pushes | 203,000 | no stranded function, every function runs, waiting methods first, sync pushes return |
| `mainloop_timers` | 2 timers, intervals of 0 to 2 ticks, 3 operations | 452,000 | no unattended heap, due timers fire |
| `network` | 2 jobs, 2 URLs, bodies of 2 chunks, room for 4 units | 4,460,000 | jobs, references and timer agree; no entry is left loading; usable entries are whole; all can be evicted |
| `media` | both streams, 1 packet per queue, 1 command waiting, 2 frames | 987,000 | no paint outlives the player, no packet unseen, the end is reached, the last command wins, the destructor returns |

Two more runs end in a violation and document a disagreement:

- `parkinglot_late_unpark`: a thread that times out and parks again can be woken
  from its second park by the unparker of the first, which is late in clearing
  `ThreadData::address`. It returns `true` while it is still on the queue,
  against the comment in `ParkingLot.h`. The passing run `parkinglot` lets a
  thread with a timeout park once, and threads without one twice.
- `mainloop_timer_delete`: the timer task takes a start and the termination
  signal in one `Wait()`, serves the start and forgets the termination;
  `TimerDelete()` waits for ever. It takes a timer started on the way out.

Some properties of `network` and `media` name the cases in which the code does
not keep them, and hold in all others. No line of the repository promises
otherwise in these cases:

- `TimerCoversWork`: an error of `select()` leaves transfers without a timer, and
  jobs that `curl_multi_add_handle()` refused keep their slots.
- `UsableEntryIsWhole`: a job that ends closes the entry of its URL even if
  another job is still writing it; and a process that dies while a URL of its
  index file is loaded again leaves a part for the whole.
- `DestructorReturns`: a decoder may miss the only signal that is meant to end it,
  and the player thread may set `running` after the destructor has cleared it.
- `EndIsReached`, `NoPacketUnseen`: the flush packet of a seek is appended without a
  signal, and at the end of the file nothing else wakes the decoder.
- `ObeysThePage`: a seek sends PLAY behind a PAUSE that is waiting already, and a
  seek to the current time ends the demuxing.

### Bounds

Three threads are what it takes for a lock holder, a sleeper and a thread that
barges in, and for a queue of two behind a holder. One bucket for all addresses
is the hard case: with a bucket of its own an address is never disturbed. The
spin limit, 40 in the code, only decides how often a loop is taken again: 1 has
both outcomes, and 0, used for Condition, always parks. Load and growth factor 1
make the table grow at every new thread, twice in a run. Two workers let one
signal after the other has refilled the queue. Two timers, three operations and
intervals of up to two ticks let starts, stops and restarts of the first and of
another timer cross at the timer task. Two jobs for one URL, or for two with a
redirection between them, are what it takes for one job to disturb the entry of
another; a body of two chunks can be cut short, and room for four units holds one
whole entry and the beginning of the next, so that eviction happens in the middle
of a load. With two jobs and two slots the slots run out only when curl refuses
both; the proofs are for any number. Two frames let a paint overtake the note of
its id with an older one pending; one packet in a queue
is what a sleeping decoder could miss. The page leaves one command waiting, beside
the one that the player obeys, the seek that replaces a waiting one, the STOP of
the destructor and the PLAY that the player sends to itself. Every bound is a constant or a guard that
names it (`MaxParks`, `MaxJobs`, `MaxPushes`, `MaxOps`, `MaxTime`, `MaxThreads`,
`MaxTasks`, `Chunks`, `StorageLimit`, `PacketBound`, `CommandBound`, `FrameBound`).
A job handle is redirected at most once, and the jobs of a restarted process are
not followed.

Deadlock is checked where threads run for ever (`wordlock`, `lock`). The other
runs may stop: everybody may be parked with nobody left to unpark, the browser
quits, and the bounds end the clients' calls.

### Fairness

- A thread inside a call keeps running (weak fairness of its steps): the
  operating system schedules it. A thread outside owes no call.
- A weak CAS that is retried while it can succeed succeeds some day (strong
  fairness of success). On load-linked/store-conditional machines, and in the
  code's loops, nothing better is promised or needed.
- Nobody is owed a spurious wakeup, and in `ParkingLotClient` no timeout.
- Holders of a lock give it up: in `wordlock`, `lock` and `condition` the holder
  is inside the fair steps.
- In `MainLoop` the main task, the timer task and the clock run. Handling input
  comes to an end again and again (strong fairness of `NewInput(TRUE)`): the
  user does not keep the loop from waiting for ever. No input and no operation
  of the application is owed.
- In `ParallelHelperPool` tasks that may return do so.
- In `MediaPlayer` the player thread, the decoders and the end of the destructor
  go on when they can. The page owes no command and the network no data.
- `CurlJobs` has safety properties only: that the timer runs is the safety half of
  progress, and what a transfer does is the network's affair.

## Proofs

`WordLockPoolProofs` proves about WordLock, for any finite set of threads, any spin
limit, and with or without spurious CAS failures, from `WordLockAssumption` alone:

- `TypeCorrect`: `Spec => []TypeOK`
- `Exclusion`: `Spec => []MutualExclusion`
- `Bits`: `Spec => []BitsTellTheTruth`
- `LoadedWord`: `Spec => []LoadedWordIsGood`
- `Refinement`: `Spec => M!SafeSpec`, the safety part of `IsMutex`
- `QueueStaysList`: `Spec => []QueueIsList`
- `FirstInFirstOut`: `Spec => QueueIsFIFO`

Mutual exclusion is not inductive alone: a thread at its CAS could have loaded
anything, and a thread that stores the word without a CAS could overwrite
another's. The inductive invariant `IInv` adds what the bits of the word mean
(`BitsTellTheTruth`) and what each thread still knows of the word it loaded
(`LoadedWordIsGood`: the tests it made before a CAS, and that the word cannot
change while it owns the queue). These are the code's own assertions.

The proof has one step per action. Lemma `QuietStep` covers the actions that
leave the word alone and keep the thread in the same class (holder, owner of the
queue). `WritingStep` covers those that write the word, and rests on
`OthersKeepTheirView`: nobody else can own the queue then, so no other thread's
knowledge is touched. `Refinement` needs that the holder is unique, for then
the mapping's `CHOOSE` has one value.

That the ThreadDatas' links are a list must also be known while a thread is in
the middle of changing them, when `QueueIsList` says nothing. `ListInv(q)` says it
of a sequence q at every step: the walk from the head meets q (`IsQueue`), nobody
is in it twice, its first thread records its tail (`TailIsKnown`), who is on it has
been told to park (`QueuedPark`), and who was taken off it sleeps until the one
thread that took it off wakes it (`DequeuedPark`). Two walks from one
head meet the same threads (lemma `OneWalk`, by induction), so q is what the code
walks along, and each step appends to it, takes its first element, or leaves it.

`ParkingLotProofs` proves, for any number of threads, any hashing of addresses to
buckets and any number of parks, from `ParkingLotAssumption` and
`ClientAssumption`:

- `QueuesStaySound`: `ClientSpec => []QueuesAreSound`
- `ParkReturnsTheTruth`: `ClientSpec => []ReturnsTheTruth`
- `ImplementsParkingQueues`: `ClientSpec => PQ!SafeSpec`, the safety part of
  `IsParkingQueues`

each under the hypothesis `TimedParkOnce`: a thread with a timeout parks once. The
hypothesis is needed. Without it the second property is false, as the run
`parkinglot_late_unpark` shows. The invariant `LotInv` says for each bucket that
its threads are parked there and in it once (`BucketInv`), for each thread what it
knows at each place of `parkConditionally()` (`ParkInv`), and for each unpark call
that the threads it has dequeued and not yet cleared are still in that park, unless
they have timed out (`UnclearedInv`), and are nobody else's (`UnclearedOnce`). There
is one lemma for each step of the parking lot, whoever takes it, so that
`LockProofs` uses them again. For the refinement, `unparkAll()` of a bucket that
other addresses share must take out what the queue of one address holds: this is
what the lemmas of `QueueLemmas` about `AllAmong` and `FirstAmong` are for.

`ParkingLotTableProofs`, with `ParkingLotTableSteps`, which has the invariant and that
all steps but the resize keep it, proves for any number of threads and addresses, any
hash function and any load and growth factor, from `TableAssumption`:

- `TableFindsEveryone`: `Spec => []EveryoneFindable`
- `TableKeepsBuckets`: `Spec => []NoBucketLeaked`
- `TableLocksInOrder`: `Spec => []LocksInOrder`
- `TableKeepsOrder`: `Spec => OrderIsKept`
- `ResizeAsserts`: what `ensureHashtableSize()` asserts, that the new table is bigger
  than the old one and that no bucket is left over

That a thread which has parked is found rests on why a stale table is harmless. The
inductive invariant `Inv` says that a table is full when it is replaced (`TablesOK`),
so that nobody can create a bucket in it later, and that the current one has each
bucket once; that a queue has the threads whose address leads to it in the current
table (`QueuesOK`); and for each thread what its place in the code says about its
table and its locks (`ThreadOK`): the slots that `lockHashtable()` has collected keep
their buckets, and what it has locked comes before what it has not. Others may only
add to a table (`Grown`), so one lemma (`OthersKeep`) says for all steps that what a
thread knows stays true.

The resize is two walks of any length. `Gathered` walks the buckets: after n of them
the threads of each address are in the order of their queue (`GatheredOK`, lemma
`GatheredStep`). `Filling` fills the new table, thread by thread and then slot by slot:
no bucket is in two slots, and none is created while old ones are left (`Partial`,
lemma `FilledStep`). That none is left at the end (`NothingIsLeft`) is the pigeonhole
principle: there are no more buckets than slots, since the table has grown
(`NewSizeOK`).

`LockProofs` proves, for any number of threads and Locks, and a Condition among
them that any of the threads wait on and notify, from the assumptions of the
modules (`LockClientAssumption`: nobody waits with a timeout):

- `NobodyIsForgotten`: `Spec => []ParkedBitIsSet`
- `NoLostNotification`: `Spec => []HasWaitersIsHonest`
- `WaitsEndByNotification`: `Spec => []NoSpuriousWakeup`
- `LocksExclude`: `Spec => []MutualExclusion`
- `LocksAreMutexes`: for each Lock, the safety part of `IsMutex`

`LockInv` is `LotInv` together with where each thread can be parked and where its
unpark call goes on (`PlaceInv`), that holders are alone and their byte says so
(`HolderInv`), and the two invariants about the parked bit and `m_hasWaiters`. The
two hold only because the callback of `unparkOne()`, the validation of a park and
the dequeue are in one critical section: what the callback is told, whether the
bucket may have more threads, then covers everyone who is queued at the address.

`WordLockPoolProofs` also proves about the pool, for any number of clients, tasks and
threads, from `PoolAssumption`:

- `FinishWaits`: `PoolSpec => []FinishWaitsForAll`
- `AllThreadsHelp`: `PoolSpec => []EveryoneHelps`

The invariant of the pool says that `m_numActive` is the number of threads that run a task of
the client (`ActiveCounted`), that a client without a call in progress has neither
a task nor such threads (`TasksOfBusy`), and that nobody runs a task that was
replaced (`NoOldTask`). `finish()` tests only the counter, so the promise is as
good as the count; lemma `CompleteCounts` is the code's
`RELEASE_ASSERT(m_numActive)`.

`MainLoopMediaProofs` proves about the main loop, for any number of workers,
functions, timers and pushes:

- `JobsAreSeen`: `Spec => []NoStrandedJob`
- `OlderMethodsFirst`: `Spec => []WaitingMethodsFirst`
- `TimersAreAttended`: `Spec => []NoStrandedTimer`

The first two depend on what is on the stack of the main task, where a function that runs
a nested loop may be any number of calls down. The invariant `IInv` has four
parts: the stack is one that the C code can have (`StackOK`); somebody is
on the way for every queued function, be it a signal, a worker before its signal,
or a dispatch somewhere on the stack (`JobSeen`); the queues have their types;
and the ids of waiting and running methods are in the order of their pushes
(`MethodsOK`). The first lemmas say what a call and a return do to the stack; then
there is one per group of actions.

`NoStrandedTimer` speaks of a main task that waits, and so says nothing while
timers are fired or the application changes the heap. `TInv` adds what holds
then: `m_firingTimers` is set only while `sharedTimerFiredInternal()` is on the
stack, which is there once at most (`EventsAtBottom`); a pending fire time always
has a start signal, a request, or a signal to the main task behind it, or
`OWBApp_WebKitEvents` on its way to the timers; and so has a heap that is not empty.
The pending fire time is what justifies that `updateSharedTimer()` does not start
the shared timer when the old and the new time are both past. It does not matter
to the invariant how the heap is ordered, only that a heap that was empty has the
new timer first, so that the shared timer is told of it.

`CurlJobsProofs` proves, for any number of jobs, URLs, slots and chunks, and with or
without errors of the disk, of curl and of `select()`, from `CacheAssumption` and
`JobsAssumption`:

- `JobsAreCounted`: `Spec => []RunningJobsCounted`
- `JobsAreReferenced`: `Spec => []References`
- `TimerIsStarted`: `Spec => []TimerCoversWork`
- `LoadsEnd`: `Spec => []LoadingEntryHasOwner`
- `EntriesAreWhole`: `Spec => []UsableEntryIsWhole`
- `CacheIsBounded`: `Spec => []EveryEntryEvictable`

The first three need each other: a job that is in the list and has a handle is one that
was resumed, which is cancelled (`HandlesSound`), or else starting it would count
it twice and lose the references of its handle. `WorkSeen` adds what the last
steps of the callback know of the transfers that go on. They use nothing of the
cache: it never decides what becomes of a job.

The cache's invariant `CInv` is in three parts. `Good` is about the cache alone: its
types, the list without duplicates and with every entry in it, the counted size
within the limit, and the files of all entries that may be used, by this process
or by one that reads the saved index, whole or marked as spoiled. `Owners` relates
it to the jobs: an entry that is loading has a job with a handle, for its URL and
past the headers, and the file holds the chunks that the job has received. `Fits` is
a little about jobs without an entry. Each method of the cache has a lemma that says
what it leaves (`Kept`: a sound cache, in which what loads an entry is what loaded
it before).

Eviction and the loading of the index are walks over lists of any length: `Evicting`
and `Loading` are recursive functions, and what holds of them after each element is
proved by induction. `RoomMade` and `RoomForEntry` show that `makeRoomForNewEntry()`
ends within the limit, although the counted size drifts from the files: a chunk
brings it over by one, which is less than any entry that is evicted counts for; and
while the index is loaded, it is never more than the listed entries count for
together (`LoadInv`).

`MainLoopMediaProofs` also proves about the media player, for any choice of streams
and bounds, from `MediaAssumption`:

- `NoLostPacket`: `MediaSpec => []NoPacketUnseen`
- `NoPaintOutlives`: `MediaSpec => []PaintsKnown`
- `PageIsObeyed`: `MediaSpec => []ObeysThePage`

That a paint forgets the oldest id although its own may not yet be noted is right
because ids are noted in order and only one can be missing: the queued jobs are
the newest ones, and so are the ids, of which, with the missing one, there are at
least as many (`PaintsAreNewest`). The missing one is there when the destructor
looks, since the player thread ends after the video decoder (`VideoEndsFirst`).

`ObeysThePage` speaks of a player that has taken all commands. `OInv` says how the
commands that wait lead there: when the page wants a pause and the player plays,
there is a pause in the queue with no play behind it (`PauseHeeded`); when it wants
to play there is a play to come, from the queue, from the command that is obeyed, or
from the one that the player sends to itself after a seek (`PlayHeeded`,
`PlayFollows`); the file is opened once, and nothing follows a stop.

`QueueLemmas` has what the operators of `Queues` compute for sequences of any length.
The library's induction theorems take an operator as a parameter, which the provers
cannot instantiate; lemma `SetInduction` states induction for a set of numbers
instead, and that is enough here. The modules that are proved about use `Queues`
rather than `SequencesExt`, for the many definitions of the latter slow the provers
down several times.

Every invariant and every action property of the runs is proved. Only model-checked
is all liveness, hence the fair halves of `IsMutex` and `IsParkingQueues`, because
liveness under fairness is out of the prover's reach.

## Not modelled

- Weak memory: every access is sequentially consistent, as the code's atomics
  are by default; that the inlined fast paths of the locks ask only for acquire
  and release is left out.
- The end of threads in WordLock and ParkingLot, and with it the lifetime of a
  ThreadData that is notified after its `parkingLock` was released
  (`ParkingLotTable` has threads that end, but no wakeups).
- Waits of Condition with a timeout, the conversions of timeouts in
  `Condition.h`, and the width of `intervalInUS`. A park with a timeout is in
  `ParkingLotClient`.
- That a method pushed with `methodstack_push()` by another task is performed: the
  code signals nobody, and it waits for an unrelated event.
- In the network backend: local files, data: URLs, authentication, 417 and 1xx
  answers, multipart bodies, deferred loading and synchronous jobs. Curl's
  messages may come in any order. The body of a response other than 200 has no
  effect. A write to a file does not fail, only opening and reading do; the index
  file is always written. A ResourceHandle's address is not used again within a
  process, so the entry's `m_job` identifies its job.
- In the media player: the audio output thread and its ring buffer, the functions
  that notify the page of state changes, range requests and the media buffer, a
  second `load()`, spurious wakeups of the conditions, and a thread that cannot
  be created. The seeks of the two streams are one step.
- `MessageQueue`: each operation is one critical section under a Lock.
- Downloads, beyond what they do to their job.
- Concurrent compilation, which is enabled for other ports only; RunLoop and
  WorkQueue, which this one does not implement; the printing thread, which is
  compiled out (`USE_THREAD` 0).
- The sequential bulk of WebKit, which is nearly all of its 2.3 million lines: DOM,
  CSS, layout, rendering, the JavaScript engine, generated bindings and vendored
  libraries. It has no protocol between parties to check on small instances, and
  a model of it would be a copy. The allocator, cookies and widgets are
  bookkeeping around the operating system. The share of the lines that these
  modules stand for is small for that reason, and stays so.
