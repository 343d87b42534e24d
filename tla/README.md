# TLA+ models of the ESIF and DPTF run-time core

This directory holds TLA+ specifications of the concurrent core of Intel(R)
Dynamic Tuning for Linux (this repository: ESIF, the "Ecosystem Independent
Framework", and DPTF, the policy manager that runs on top of it), TLC
configurations that check them on small instances, and TLAPS proofs of the
main safety properties for instances of any size.

The parts were chosen for what is hard to test in them: code that releases a lock
around a callback and goes on with what it remembered, memory that several threads
own together, waits that a timeout or a shutdown can cut short.

Contents

1. The system: inventory of its components
2. The modules and how they correspond to the code
3. Model checking: runs, bounds, fairness
4. Where code and comments disagree
5. Proofs
6. What is not modelled
7. Plan

---------------------------------------------------------------------------

## 1. The system

ESIF upper framework (`src/ESIF/Products/ESIF_UF/Sources`) is a daemon. It
keeps participants (devices) and their domains, executes primitives on them,
distributes events, arbitrates between requesters, and loads applications. DPTF
(`src/DPTF/Sources`) is the main application: it receives the events, turns each
into a work item, and runs policies (passive, active, critical, ...) on one
thread. Both rest on `src/Common`: timers, events, semaphores, queues, lists.
IPF (`src/IPF/Sources`) lets a client program in another process make remote calls
to ESIF and receive requests from it over a local socket.

How they interact: a kernel or participant event enters the event manager's
queue; the event thread calls the observers, one of which is the application
manager's bridge into DPTF; DPTF queues an immediate work item and returns or
waits for it; the work item thread runs the policy, which asks ESIF to execute
primitives and may defer further work with a timer; timers are delivered by a pool
of signal-waiting threads. Shutdown goes the other way, and each part stops its
thread by flag, signal and join.

| component | state it keeps | operations | hard behaviour | what makes it correct |
|---|---|---|---|---|
| timer manager (`Common/esif_ccb_timer.c`) | list of items, handles, callback handles, destroy lists; POSIX timers; queued signals | init, set, kill, kill_w_wait, callback, manager init/exit | callback without the lock; expiries that cannot be cancelled; waiting for one's own callback; handle wrap | one callback at a time, no freed item in a callback, synchronous kill, no lost set, unique handles, every wait ends |
| event and semaphore (`Common/esif_ccb_sem.h`) | flag, waiters, tokens, set count | set, reset, wait, try_wait, release_waiters | timeout racing a set; releases that nobody waits for | tokens and waiters agree |
| queue (`Common/esif_queue.c`) | list, size, event | enqueue, requeue, dequeue, pull, signal, destroy | reset of the event against concurrent sets, requeue, stop of the consumer | FIFO, no lost wakeup, conservation, orderly stop |
| event manager, registry (`esif_uf_eventmgr.c`) | observer lists with reference counts, garbage list | register, unregister, unregister app, process event | the walk goes on after an unlocked callback; search and insert are two sections | node in use stays, counts balance, each observer called once, garbage freed |
| event manager, synchronous events | context on the heap with two owners, wait timer | signal and wait, process, timeout, stop | either owner finishes first; timeout races completion | freed exactly by the second owner, every call returns |
| work item queues (`DPTF/Sources/Manager`) | immediate queue by priority, deferred queue by time, counting semaphore, completion semaphores on stacks | enqueue and return/wait, defer, remove if matches, timer callback, shutdown | timer callback against emptying and removal; waits inside shutdown | conservation, order, no lost wakeup, timer covers earliest, semaphores valid, waits return |
| policy and participant managers | indexed containers, bindings | create, destroy, bind, event fan-out | destroy through the work item queue | indices unique and reused correctly |
| arbitrators, policies | per-policy requests; trip points, samples | commit, remove; thermal events | mostly sequential | the arbitrated value is the extreme of the requests |
| arbitration manager (`esif_uf_arbmgr.c`) | a context per participant: entries with requests in order of priority, limits, arbitration function, reference count; the primitive queue with its thread | execute, enable/disable, limits, function, stop, remove application; queue, delay, dummy requests | entries used outside the context's lock; an iterator over a table that moves; the pull between a request and its dummy; memory failures | the winner within the limits is what was commanded last; entries live as long as they are used; a GET does not overtake the SETs before it |
| participants (`esif_uf_pm.c`, `esif_uf_participant.c`), applications, actions, conjures | table of participants; objects with reference count, delete flag, delete event; participant queue; what each application was given | register, replace, resume, suspend, destroy by name or instance, get/put reference; create and destroy in the application | destroy waits for the last reference; table locked only for parts of an operation; the application learns of it later | references accounted for, destroyed once and only when unreferenced, destroy ends |
| upsm, domain polling, event cache, handle manager | small tables and timers | register, poll, cache | timer callbacks against unregistration | |
| IPF client (`src/IPF/Sources`) | transaction pool with reference counts, send and receive queues, doorbell, RPC semaphore | remote call, answer, expiry, incoming request, disconnect | expiry racing a late answer; loss of the connection racing a new call; calls from within a handler; disconnect joining two threads | no transaction lost or used after it is freed, every call and disconnect return, requests served before the thread ends |
| data vault, data cache (`ESIF_LIB`) | key-value store, file | get, set, load, save | crash between write and rename | |
| shell, logging, tracing, web server, transforms, primitives, compression, Java HAL bridge | | parsing, formatting, I/O | | not concurrency |

`PROJECT.json` repeats this list with the status of each component, and the
hazards found while reading, each at its line, with the properties that cover it.

---------------------------------------------------------------------------

## 2. Modules

| module | models | checked by | proofs |
|---|---|---|---|
| `EsifTimer` | timer manager, its Linux back end, the SIGRTMIN worker pool | `MCEsifTimer` | `EsifTimerProofs` |
| `BoundedFifo` | abstract: what a queue with its consumer promises | through `EsifQueue` | `EsifQueueProofs` |
| `EsifQueue` | queue, its event, consumer thread, stop and destroy; implements `BoundedFifo` | `MCEsifQueue` | `EsifQueueProofs` |
| `SyncEvent` | synchronous events and the timed wait | `MCSyncEvent` | `EventManagerProofs` |
| `WorkItemQueue` | DPTF work item queues, worker, timer callback, shutdown | `MCWorkItemQueue` | `WorkItemQueueProofs` |
| `EventManager` | one observer list of the event manager | `MCEventManager` | `EventManagerProofs` |
| `ArbitrationContext` | arbitration context of one participant, its entries and requests | `MCArbitrationContext` | `ArbitrationContextProofs` |
| `PrimitiveQueue` | primitive queue of the arbitration manager, its dummies, its thread | `MCPrimitiveQueue` | `PrimitiveQueueProofs` |
| `ParticipantManager` | table and life of participants, participant queue into the application | `MCParticipantManager` | `ParticipantManagerProofs` |
| `IpfSession` | remote calls, transaction manager, I/O and RPC thread, disconnect of an IPF client | `MCIpfSession` | `IpfSessionProofs` |

How they use each other. `EsifQueue` shows that the event of a queue with one consumer
is a flag that is set while the queue holds something, and that the queue is a bounded FIFO;
`PrimitiveQueue` and `ParticipantManager` use a queue in that form. `WorkItemQueue` uses
the timer in the form `EsifTimer` establishes. `ArbitrationContext` ends where a value is
handed to the primitive queue, and `PrimitiveQueue` begins there. `ParticipantManager` composes
three source files that share the reference counts: participant manager, participant and
application manager.

Conventions. A section under one lock is one action; what is done with the lock
released (a callback, a wait, an allocation) separates actions. A thread's position
in a function that spans several actions is a `pc`-like variable (`op`, `cpc`, `tpc`,
`mpc`, ...). An allocation is used once, so that a stale pointer shows as a
reference to something `"freed"` rather than as a reference to its successor.
Operators named `X_Y`, with the word "Fault" in their comment, are mutated versions of
`X`: with one of them in the place of `X`, TLC must find the property named in
`PROJECT.json` violated. They are not used by the specification.

### 2.1 EsifTimer

`status`, `handle`, `cbHandle`, `inCb`, `marked`, `destroyList` are the fields
of `struct esif_tmrm_item`; `setIsPending`, `objCb`, `armed` the timer object and
the OS timer. A set draws a fresh callback handle and arms the OS timer with it
(`TimerSet`), or only notes that it is pending when the timer is in its callback.
`Expire` moves the handle into `signals`, from where it cannot be taken back.
A worker finds the item by that handle (`CallbackEnter`) or nothing
(`CallbackStale`); `CallbackExit` is the second locked section, which destroys a marked
item, waking its destroy list, or arms a pending set. `timer_init` is two
actions, because the handle is drawn in one locked section and the item listed in
another. `esif_ccb_tmrm_exit` is a small state machine of its own thread.
Callbacks are arbitrary: a worker in a callback may call every operation, with
`CallbackMayWait` also `kill_w_wait`.

Failures: the OS may refuse to arm (`armFailed`), the list node may not be
allocated, the handle search may give up after its retries.

### 2.2 EsifQueue

The event is modelled with its counters, not as an abstract flag, because
`esif_ccb_event_try_wait` is about keeping them right: a thread that times out gives
its place back if no set happened meanwhile (`sig_count` unchanged: `sigChanged`),
or else takes the token that was meant for it, under the event's lock (`lateDown`). The
consumer is the loop common to `EsifEventMgr_EventQueueThread` and
`EsifAppMgr_PartQueueThread`, with the latter's requeue while an application is being
created; whether the queue has a timeout is chosen when it is created (`timed`). The owner
is `EsifEventMgr_Disable` / `EsifAppMgr_Stop` followed by
`esif_queue_destroy`. A failed requeue loses the item (`lost`), as in the code.

### 2.3 SyncEvent

One call of `EsifEventMgr_SignalSynchronousEvent` is one element of `Calls`, with
its own context. `DestroyContext` is `DestroySynchronizationContext`: the first
caller sets `useComplete`, the second frees. A failure to queue the event sets the
completion event and the flag at once. The wait is `EsifTimedEventWait`: timer set,
`esif_ccb_event_wait`, timer killed without waiting. The timer's callback is
`esif_ccb_event_release_waiters`. `EventThreadStops` and `QueueDestroy` are the end
of the event thread, after which queued contexts are forgotten. Its names are kept apart from
those of `EventManager` (`SyncInit`, `SyncSpec`, `loopPc` for the event thread's position), so that
one proof module extends both.

### 2.4 WorkItemQueue

`immediate` and `deferred` are the two queues with priority and due time;
`semaphore` the counting semaphore of the work item thread; `waiter`, `waiting`,
`completed` the completion semaphores on the stacks of waiting callers. The timer is used
through what `EsifTimer` establishes about it: a set replaces the previous one; a set
inside the callback takes effect when it returns; `cancelTimer` waits. Because
`removeIfMatches`, `disableAndEmptyAllQueues` and `timerCallback` take a second mutex
half way, the two mutexes are variables (`mgrMutex`, `deferredMutex`) where they
are held across actions. `Main` runs the part of `DptfManager::shutDown` that
concerns the queues: disable and empty, destroy policies and participants through the
queue, delete the manager.

### 2.5 EventManager

One observer list. `list` and `garbage` are the lists, an entry carries its
reference count, `isInUse` and `markedForDelete`. `WalkFrom` is the walk of
`EsifEventMgr_ProcessEvent` up to the next callback, which raises the count and releases
the lock; `CallbackReturn` takes the count back, moves an entry that nobody
references to the garbage and goes on with the next node. `AddEntry` is three actions
(search; insert; enable) as in the code. Where the code would follow a pointer
into freed memory the model sets `undefined` and stops; nothing is claimed beyond.
`held`, `eligible`, `called` are history variables for the properties. `Among` is what a
walk picks from a list; removals from the list and moves to the garbage are written with it.

`OneRegistrar` assumes that an observer (callback, context, event) is registered and
released from one thread, which is how applications and policies use the interface. The code needs it: search and
insertion are two locked sections (l. 950 and 976), so two concurrent first registrations of one
observer add two entries; both match a release, which then finds the wrong count.

`Disturbances` is the set of what else may happen: `"app"` the unregistration of a whole
application, `"enable"` an enable that can fail, or both in one behaviour. Both together can meet in one registration:
`UnregisterApp` moves an entry to the garbage while its registration is being enabled (l. 852-855), the enable
fails, and the registration frees an entry it no longer owns (l. 985-987). Such an entry is `"misfreed"`, and the event
thread that later finds it in the garbage gets to `undefined`.

### 2.6 BoundedFifo and its refinement

`BoundedFifo` has four variables: the next item's number, the accepted items in order,
those delivered and those discarded. `EsifQueue` instantiates it as `Fifo`: pending is
what the consumer holds followed by the queue's list, so taking an item out of the list and
requeueing it are stuttering steps, and handling or losing it is `Deliver` or `Discard`.
Its capacity is one more than the queue's, for the item in hand.

### 2.7 ArbitrationContext

`table` is `entriesPtr`, `entry` the fields of each `EsifArbEntry`, `reqs` the list of
requests in order of priority. An application's call is `ExecutePrimitive`, then context
and entry look-up (`CtxInst`, `CtxInstall`, `CtxLookup`), arbitration under the entry's lock
(`EntryExecute`) and the release of the reference (`Put`). `ArbitrateRequest` removes the
application's old request and inserts the new one, `RearbitrateRequests` sorts anew
under another function, `Limited` applies the limits. The shell's commands are
`SetManagerState`, `SetContextState`, `SetEntryState`, `SetLimits`,
`SetArbitrationFunction` and the stop, which walks the table with an iterator
(`IterNext`, `IterPut`), removes each entry and waits for its users (`EntryDestroy`).
`RemoveApp` walks with the same iterator. A request can be too short to be compared
(`Short`); creating an entry can fail (`NoMemory`). `commanded` is the last value handed
on for execution.

### 2.8 PrimitiveQueue

A SET is queued with a copy behind it that carries `dummy` (`QueueSet`, `QueueDummy`); a
GET walks the list (`Check`, `WalkEnd`), is executed at once or is queued and waits. The executing
thread pulls without `primitiveQueueLock`, so it may come between a request and its dummy and
into a walk. If that moves the list under the walk, its outcome is arbitrary and the thread is in
`exempt`. `XCleanup` looks at the next request and discards its dummy, or puts it back
otherwise, also when it was NULL. With `MayFail` every allocation can fail: that of a request, of its dummy
(`unmarked`) and of the list node. The code ignores the latter in two places: at `esif_uf_arbmgr.c:1000` the SET is not
queued and its dummy is queued all the same (`QueueSetFails`); at `:1089` the request that was pulled is not put back
(`XCleanup`). `lost` is the set of these requests. A dummy without its SET stays until the executing thread
passes over it or takes it for that of an earlier SET of the primitive.

### 2.9 ParticipantManager

`slots` is the table, `ref`, `marked`, `deleted` the count, flag and event of a participant. Each
thread's call is a record with the participant it references and the one it destroys (`victim`).
`RegisterNew`, `RegisterAgain` and `RegisterInstead` are the three outcomes of a
registration: a new participant, the resumption of a suspended one, the replacement of one with
a lower claim to the same device (`Overlaps`, `Preferred`). Destruction is `Scan`, `SuspendFirst`,
`Retire`, `Clear`, `Mark`, `Drop`, `Await`. `Offer` and `Withdraw` put a change into the participant
queue, which `Pull`, `CreateInApp`, `DestroyInApp` and `Served` deal with; the
application may refuse a participant, which leaves a handle without one (`"broken"`).

### 2.10 IpfSession

`trx` is the transaction with its reference count, `pool` the transaction manager.
A call is `Request`, `CheckSocket`, `AddTransaction`, `TakeRequest`, `QueueRequest`, `Ring`, `Wait`, `Finish`; every gap
between two of them is open to the other threads, that between reading the request and queueing it too. The I/O
thread computes its select timeout
from the transactions it sees (`watch`), wakes up for the doorbell or the socket, sends (`IoSend`, `IoDrain`),
receives, hands over (`ReceiveAnswer`, `IoSignal`) and expires. If there is no memory to copy a response, `IoSignal` lets the
transaction go without a signal (`ipfipc_irpc.c:1507-1514`); `dropped` remembers it. The RPC thread handles the
server's requests, and may make calls itself while it does. `Disc...` is
`IpcSession_Disconnect`. The server is external: it answers each request once, late or
never, sends requests of its own, stops reading or closes when it likes. While it keeps the connection open
and there is something to send, the I/O thread may be blocked in `send()` for ever (`SendBlocked`, `ipfipc_ws.c:1201`).

---------------------------------------------------------------------------

## 3. Model checking

### 3.1 Runs that pass

| run | question | instance | distinct states |
|---|---|---|---|
| `timer` | Is kill_w_wait synchronous, is a set or a wait lost, does a stale expiry start a callback, does the exit complete? | 3 timers, 1 client, 2 workers, the exit thread, 2 sets, handles modulo 2, callbacks that may wait | 144 926 |
| `queue` | Does the queue implement the bounded FIFO with timeouts, requeues and a stop; is every item taken, does the stop end? | capacity 2, 4 items, 2 app creations, with and without a timeout | 25 582 |
| `sync` | Does the context live exactly as long as needed, does every call return? | 2 concurrent calls, stop allowed | 4 827 |
| `wiq_shutdown` | Are items conserved, do they keep their turn, and are stack semaphores signalled once, also while the manager shuts down? | 2 threshold items of one participant, 1 deferrable, 2 destroy items (three priorities); 1 client and the worker's own calls | 1 503 547 |
| `wiq_service` | Is the timer always set, are waits and items served? | 2 deferrable items, 2 due times | 38 534 |
| `evm_registry` | Are nodes and the delivery walk right while callbacks and clients register and unregister? | 3 observers with their own threads, 4 entries | 947 778 |
| `evm_disturbed` | What holds when whole applications go and enables fail, alone and together; is every removed entry freed? | 1 client, 2 observers, 3 entries | 113 378 |
| `arb_context` | Do references and entries agree, is the winner within its limits what was commanded, does an application that left leave no request? | 2 applications, 2 primitives, 3 entries, 2 values and a short one, 3 calls | 1 143 453 |
| `prim_queue` | Does each pending SET have its mark, may a GET overtake it, do delayed callers and the stop return? | 2 threads, 1 primitive, 3 requests, every allocation may fail | 390 496 |
| `participants` | Are references accounted for and participants destroyed once; does a destruction return? | 1 table entry, 3 participants of two kinds for one device, 2 threads with 2 calls each, 1 user, an application that may refuse | 391 402 |
| `ipf_session` | Is a transaction lost or used after it is freed, are requests served, do calls and disconnect return? | 1 application thread and the RPC thread, 2 transactions, pool of 1 growing to 2, 1 incoming request, allocations that may fail, a server that may stop reading | 409 331 |

Type and inductive invariants of the proved modules are theorems and not repeated in these
runs. `evm_disturbed` checks less than `evm_registry` on purpose: under those
disturbances the stronger properties fail (section 4), and what still holds is that nothing
freed remains reachable from the lists, but for a misfreed entry (2.5). `GarbageReclaimed` excepts behaviours in which freed
memory has been used, as nothing is claimed beyond that point.

Several properties carry a condition, and each condition is a race that the code really
has: `KillWaitReturns` and `ExitCompletes` (no callback waits for a timer),
`GoneAppHasNoRequest` (no entry left the table during the walk), `ReadsSeeWrites` (the walk did
not race with the executing thread), `DestroyReturns` (no two calls overlap),
`RequestReturns` (the I/O thread has not overslept, the last expiry has not missed the
call), `RequestReturns` and `DisconnectReturns` (`SendsEnd`: no send blocks for ever). What was lost for want of
memory is excepted by name: `lost` in `DummyMarksRequest` and `DelayedReturns`, `dropped` in
`NoLostTransaction`, `DisconnectReleases` and the two liveness properties of the session, `"misfreed"` in
`NoDanglingEntry`. TLC finds a counterexample to each without its condition; section 4 names the lines.

### 3.2 Bounds

Every bound is a constant: the allocations (`Items`, `Entries`, `Calls`), the sets
(`MaxSets`), items (`MaxItems`), registrations (`MaxHeld`), clock (`MaxTime`). They
are enough for the cases the properties are about: two timers let one callback kill
the other's timer, and two sets let a timer be set before and again during a callback
with the old signal still queued; two workers are needed for two callbacks at once;
a third timer and a handle modulus of two make the counter come round; a
queue of capacity two is empty, partly filled and full, and four items fill it
again; two calls put one context in the queue behind the one being processed (the
proof covers any number);
two deferred items with two due times exercise an insertion before the head;
four entries allow a registration to be replaced while the old entry is in use, in the
garbage or being freed; two applications compete for an entry and three calls let limits
change, or an application go, between their requests; three requests are a SET with
another SET or a GET behind it and one more to come; one table entry with three allocations lets a
participant be replaced, destroyed and registered again, with the older ones still
referenced; two transactions are one in the pool when the second needs it to grow, and one of
the application against one of the handler. Where a bound would hide the wrap of a counter, the modulus is
small instead (timer handles); the wrap of the callback handle (2^32 sets while one
signal stays queued) is excluded.

Symmetry is used for interchangeable applications and threshold items, never in a run
that checks liveness. `CHECK_DEADLOCK FALSE` is given where the system may
legitimately come to rest: a destroyed queue, a finished shutdown, all bounded
allocations used up.

### 3.3 Fairness

Liveness is checked under `FairSpec` (`SyncFairSpec` in `SyncEvent`); nobody is ever obliged to start a call.

- EsifTimer: the kernel fires armed timers, some worker takes each queued signal (the
  pool waits in `sigwaitinfo`), callbacks terminate, unblocked threads proceed.
- EsifQueue: consumer and stopping owner proceed, an app creation ends.
- SyncEvent: each thread proceeds, timers expire, observers return.
- EventManager: calls in progress proceed. Strong fairness of `CallbackReturn`: a
  callback makes finitely many calls, so it is not the case that it is able to return
  again and again and never does.
- WorkItemQueue: weak fairness of worker, timer, clock and waits; strong fairness of
  `WorkerExecuted` for the same reason as above and of `ShutDownStep`: a mutex is not
  for ever given to others.
- PrimitiveQueue: a stop and calls in progress proceed; strong fairness of the executing thread,
  which competes for `primitiveQueueLock`.
- ParticipantManager: the participant queue is served, calls in progress proceed, a user
  gives its reference back.
- IpfSession: callers, I/O thread, RPC thread and a disconnect that was begun proceed, and time
  passes. The I/O thread is not assumed to proceed while it sends to a server that keeps the connection open
  (`WF_vars(~SendBlocked /\ IoStep)`), since the socket blocks. Nothing is assumed of the server in the
  specification; the two liveness properties have `SendsEnd` as their hypothesis, that it reads or closes.

---------------------------------------------------------------------------

## 4. Where code and comments disagree

One disagreement is kept as a run that ends in a violation; `PROJECT.json` quotes
the comment and the code lines.

| run | what TLC shows |
|---|---|
| `wiq_shutdown_deadlock` | `DeferredWorkItemQueue::makeEmtpy` waits for the timer callback while holding the mutex that callback needs: `DptfManager::shutDown` does not return. |

Others the models contain, as a condition of a property or in a history variable, without a run of
their own:

- Timers: a callback that calls `esif_ccb_timer_kill_w_wait` on its own timer waits for itself.
- Work items: the timer callback can put an ordinary item in the immediate queue after
  `disableAndEmptyAllQueues` has emptied it.
- Queue: `esif_queue_requeue` sets the event although its comment (`esif_queue.c:162-164`)
  says that it does not wake the waiting thread; the consumer is paced only by its sleep.
- Event manager: an entry that `UnregisterApp` marked during its callback is removed by a
  release or a failing registration (`esif_uf_eventmgr.c:945`, `983`, `1035`), against the promise at
  `135-136` that a node in use stays. `AddEntry` makes an entry visible before its event is enabled
  and frees it when that fails, although its callback may be running, and although `UnregisterApp` may have
  moved it to the garbage list, which then leads to freed memory (`852-855`, `985-987`). Two threads that
  register the same observer at once both add an entry.
- Synchronous events: the wait timer's callback can use the context after it was freed, as
  `EsifTimedEventWait` ends with the kill that does not wait (`timedwait.h:55`). A timer
  that fires before the wait has begun releases nobody; once the event thread has
  stopped such a call never returns, which is why `SignallerReturns` speaks of a running event
  thread.
- Arbitration: `EsifArbMgr_RemoveApp` skips entries when another thread removes one from the table
  under its iterator (`esif_uf_arbmgr.c:1936`). The results of `esif_queue_enqueue` at `:1000` and of
  `esif_queue_requeue` at `:1089` are ignored: without memory for a node a SET is lost and its dummy queued, or a
  pulled request is lost and its caller, if it was delayed, waits for ever. The execution thread requeues what it pulled
  even when that was NULL (`:1089`), and destroying the queue stops at a NULL item. The walk for
  delaying SETs (`:907`) does not hold the queue's own lock.
- Participants: `DestroyParticipant` reads its table entry again after it released the lock
  (`esif_uf_pm.c:1848`). Applications are told of a change outside `fLock` (`:488`), so that the
  offer of a newer participant can overtake the withdrawal of an older one; an application
  that refuses keeps a slot without a participant (`esif_uf_app.c:803`). These are why a destruction
  that overlaps another call can wait for ever.
- IPF: a call that found the socket open just before the connection was lost goes into the
  pool after the last expiry and waits until a disconnect (`ipfipc_irpc.c:1558`); so does a call that
  the RPC thread itself makes. `GetMinTimeout` leaves out a transaction that is already
  due (`ipf_ipc_trxmgr.c:262`), so the I/O thread may sleep past it. A response that cannot be copied
  (`ipfipc_irpc.c:1507-1514`) leaves its caller without a signal for ever: the transaction is in no pool, so neither an
  expiry nor Disconnect finds it, and if the caller is the RPC thread, Disconnect hangs in its join. While the server does not read,
  the I/O thread is blocked in `send()` (`ipfipc_ws.c:1201`): no call expires, and Disconnect waits in its join (`:810`).
  `IrpcTransaction_QueueRequest` reads, resets and queues the request without a lock (`ipfipc_irpc.c:64-66`), so that
  an expiry in between frees what is then queued.

---------------------------------------------------------------------------

## 5. Proofs

The theorems hold for every value of the constants that satisfies the named
assumptions (`ConstantsAssumption`, `QueueAssumption`, `SyncAssumption`, `SessionAssumption`,
`QueueConstants`, `ParticipantAssumption`, `PrimitiveQueueAssumption`, `ArbAssumption`, `EventManagerAssumption`, `OneRegistrar`): any number
of timers, threads, calls, items, transactions, participants and primitives, any capacity, any
handle modulus, callbacks that wait or not. The assumptions say that the sets of threads are
disjoint, that `None` is not a member of the sets it marks the absence of, and that numbers are
numbers. Three say more: `OneRegistrar` that an observer is registered from one thread (2.5), `PrimitiveQueueAssumption` that `None`, which stands for a NULL request, is not
a request, and `ArbAssumption` that there are finitely many primitives and an entry for each: the
default table of `esif_uf_arbmgr.c` is a fixed array, and the model takes it that there is memory for
its entries when a context is created.

All nine developments have one shape. The type invariant and an inductive invariant
are proved together (`Init` implies them, each action preserves them, one step per
action); every safety property is a conjunct or a consequence. Each inductive invariant
was checked with TLC on the instances of section 3 before it was proved.

Walks over a list are recursive functions in the models (`Without`, `WithoutApp`,
`RearbitrateRequests`, `Among`). The proofs turn the recursion into equations, which needs that a step
for each number defines a function (`Iterated`), and use induction over the positions of the list in the form
`AllUpTo`: a set of numbers that has 0 and with a number the next one has them all, from the least
element that a nonempty set of numbers has (`LeastExists`).

`EsifTimerProofs` - `TimerInvariant`. `OneCallbackPerTimer` is not inductive: that a
second worker cannot enter the callback follows from the callback handles. The invariant
says that a queued or armed handle belongs to at most one live timer and is its latest
set (`CbHandlesFresh`, `ArmedForLatestSet`), that a timer in its callback has no handle
queued (`PendingOnlyInCallback`), and that `is_in_cb` is set exactly while a worker is
there (`InCbMeansWorker`). For the waits it says where each thread in `kill_w_wait` is
registered (`WaitCallsOnList`, `DestroyListValid`), for handles that timers being
created count as live (`LiveHandlesUnique`). Theorems: `TypeCorrect`,
`InvariantHolds`, `CallbackExclusive`, `KillWaitSynchronous`, `WaitersSafe`,
`HandlesAreUnique`, `SetsAreNotLost`, and the action property `CallbacksStartFresh`.

`EsifQueueProofs` - `QueueInvariant`. That tokens and waiters agree needs that a
sleeping consumer's token has been given exactly if the event was set since its wait
began (`TokenGivenBySet`); that no wakeup is lost needs that `current_size` is the
length, as the reset is decided by it; that the stop reaches the consumer needs that
the event stays set until the consumer has seen it (`StopIsOrderly`); FIFO needs that
the held item is numbered below the next (`HeldItemIsReal`). The step is split into
the event, the list, the wakeups and the control state. Lemmas state what `Head`,
`Tail` and prepending do to an increasing sequence. Theorems: `QueueTypeCorrect`,
`QueueInvariantHolds`, `TimedWaitSound`, `WakeupsNotLost`, `StopSound`,
`QueueIsFifo`, and the refinement `QueueImplementsFifo`: `Spec` implies `Fifo!Spec`. Its step
lemma `FifoStep` maps each action to `Submit`, `Deliver`, `Discard` or a stutter; it needs that
`current_size` is the length (capacity), that the consumer holds an item exactly while it processes or
requeues it, and the lemmas `PrependAppend` and `PrependHeadTail` on what the abstract sequence does when the list grows at its end or
gives its head to the consumer.

`EventManagerProofs`, synchronous events - `SyncInvariant`. `SharesAgree` describes, for each position of the
signalling thread and whether the event thread still has the call, what the flag and the
context are; `QueuedOnce` says that the event thread has a call once, so that it gives up
its share once; `WaitsAgree` ties tokens to their reasons. Theorems:
`SyncTypeCorrect`, `SyncInvariantHolds`, `ContextOutlivesUsers`, `NoContextLeak`,
`WaitEndsForAReason`.

`IpfSessionProofs` - `SessionInvariant`. That neither a caller nor the I/O thread uses a freed
transaction needs the count behind it: a caller has a transaction of its own for the length of
its call (`CallersHaveTrx`), and the count is one for the pool and one for that caller, no others
(`RefsCounted`), so the I/O thread, which takes no reference of its own, is safe only because the
caller of what it holds is bound to wait for its signal (`CallersStay`, from `CallsBegin`). That
every request is served needs what the semaphore of the RPC thread counts (`SignalsCounted`); that
the disconnect leaves no call behind needs the order in which it takes the session apart
(`DisconnectOrder`). `NoLostTransaction` is a conjunct; what was dropped is disjoint from the
pool and empty without `MayFail` (`DroppedOK`), so with enough memory the theorems hold without an exception, which is part of
`TransactionsNotLost` and `DisconnectLeavesNoCall`. The three places that
expire all transactions share the lemma `ExpireActions`; the actions that change one
transaction share `OneTrxChanged`; those that change none share `TransactionsUntouched`. Theorems:
`SessionTypeCorrect`, `SessionInvariantHolds`, `TransactionsAlive`, `TransactionsNotLost`,
`RequestsServed`, `DisconnectLeavesNoCall`.

`WorkItemQueueProofs` - `WorkInvariant`. `ItemsConserved` counts; its inductive form `PlacesOK`
says in terms of sets where the accepted items are, that the queues have no item twice and that
the two queues, the callback's hand and the worker's hand are disjoint. It needs to know when
a hand is empty (`HandsOK`), or a dequeue would drop what was in it. `CompletionSemaphoreValid` is
inductive only together with the other parts of `WaitOK`: a waiting thread owns one item's semaphore
(so a signal for one item cannot be taken for another's), the item of a thread that has not been signalled
is still in the immediate queue or in execution, and `shutDown` waits exactly in its own
position. `TimerOK` is `TimerCoversDeferred` for the head of the queue, which `OrderOK` makes the
earliest. The removals, `Tail` and the emptying share one relation, `SubQueue` (entries are left
out, the rest keeps its order), the two sorted insertions another, `Insertion`; the action property
`NoOvertaking` follows because every step does one or the other to the immediate queue
(`ImmediateMoves`). Theorems: `WorkInvariantHolds`, `WorkTypeCorrect`, `WorkItemsConserved`,
`CompletionSemaphoresValid`, `WaitersHaveItems`, `WakeupsNotLost`, `TimerCovers`,
`ItemsKeepTheirTurn`.

`ParticipantManagerProofs` - `ParticipantInvariant`. `ReferencesAccounted` is itself a conjunct: each
action adds or takes one tagged reference and changes the count by one, which needs that the set
is finite (`RefsFinite`). What is not inductive by itself is why a reference exists: a call between its
sections has the reference and the victim its position calls for (`CallsOK`), an entry
and its participant agree (`TableOK`), and the delete event means that no reference is left
(`LifeOK`), so that the thread that waits for it frees something nobody has. Theorems:
`ParticipantInvariantHolds`, `ParticipantTypeCorrect`, `ReferencesAreAccounted`,
`ParticipantsDestroyedOnce`.

`PrimitiveQueueProofs` - `PrimitiveQueueInvariant`. A dummy marks its request because whoever owes one
holds the lock and its request is last in the queue, or already with the executing thread, which cannot get
to its clean-up without the lock (`DummyOwed`). A dummy whose SET is missing belongs to a request in `lost`, and without `MayFail`
`lost` and `unmarked` are empty: `DummiesMarkRequests` says both. That a GET which waits in the queue is executed after the earlier SETs
follows from the order of creation (`OrderOK`, `WaitersOK`); for one that is executed at once it
is the outcome of its walk (`DirectReads`). Theorems: `PrimitiveQueueInvariantHolds`,
`PrimitiveQueueTypeCorrect`, `DummiesMarkRequests`, `ReadsSeeEarlierWrites`.

`ArbitrationContextProofs` - `ArbInvariant`. The life of an entry needs where a call can be
and with which pointer (`CallsOK`), that an entry is in the table once and is marked only by the
shell that took it out (`TableOK`), and the count with its delete event (`Accounted`). The order of
requests is carried through `ArbitrateRequest` and `RearbitrateRequests` by lemmas on the
walks, for any list; the winner is commanded because every operation that changes the head, the limits or the function
queues the value that follows from them. `RemovalOK` says what the walk of
`EsifArbMgr_RemoveApp` has already cleaned as long as the table has not moved. Theorems: `ArbInvariantHolds`,
`ArbTypeCorrect`, `EntriesLiveWhileUsed`, `WinnerIsFirst`, `WinnerIsCommanded`,
`RemovedAppHasNoRequest`.

`EventManagerProofs`, observer registry - `RegistryInvariant`. An entry is on the list, in the garbage or in
the hand of the thread that frees it, once and while allocated (`OwnedOnce`), which
gives `NoDanglingEntry` under every set of disturbances; a misfreed entry is in the garbage only, and
`NoEntryDangles` adds that there is none unless both disturbances occur. That the node in use stays is a matter of counts: an entry's count is
the registrations its observer holds, one for a registration not yet enabled and one for the
callback (`CountsOK`), so no release can bring it to zero while `cur` is there. This equation needs that an observer
has one entry, hence `OneRegistrar` and that a thread about to insert still finds no
match (`CallsOK`). `WalkOK` carries `NoObserverSkipped` through the event: every observer due
and not yet called has its entry behind `cur`, in a list that others shorten and extend meanwhile.
Lemmas on `Among` (what a removal keeps, in which order), on `Find` and on appending carry it; they are
proved by the least counterexample (`LeastExists`, `AllUpTo`), since the induction theorems cannot be used.
Where a disturbance makes a part false in the code, that part is stated with a condition on `Disturbances`, and so is the theorem: a failing
enable or a going application can free the node in use, and only an application's removal
can make the walk miss an observer. Theorems: `RegistryInvariantHolds`, `RegistryTypeCorrect`, `NodesInUseStay`,
`ObserversNotSkipped`, `NoEntryDangles`, `NoUseAfterFree` (the model never gets to `undefined`), and the
action property `UnregisteredNotCalled`.

Only model-checked: all liveness, which is out of the prover's reach (fairness, ENABLED). Every safety
invariant and every action property of the passing runs is also a theorem.

---------------------------------------------------------------------------

## 6. What is not modelled

- Allocation failure where the code has no path for it, and these that it has a path for: a participant change that
  cannot be allocated (`EnquePartChange`), which `DestroyReturns` therefore does not cover, and neither the
  participant reference that a dropped requeue keeps (`esif_uf_appmgr.c:906`, modelled in `EsifQueue` only); a failing
  `EsifData_Clone` of the commanded value (`esif_uf_arbmgr.c:2780`); a list node for a message
  (`MessageQueue_EnQueue`).
- A doorbell `send()` that fails while the doorbell is open (`ipfipc_irpc.c:70`).
- The real-time assumption of `esif_ccb_tmrm_exit` (50 ms are enough for the queued
  signals): taken as true.
- Events with several waiters; every modelled event has one.
- Delayed application unregistration, event filtering and the per-event enables of the
  event manager.
- A work item blocked on the manager's mutex while the destructor joins its
  thread: a call is one action in `WorkItemQueue`, so this hang does not show.
- Arbitration: the destruction of a context with its participant, the information calls, and the
  loop over the participants in `EsifArbMgr_RemoveApp`.
- Participants: the primary participant (never suspended, never offered), bulk suspend and
  resume, domains and temperature polling, starting and stopping an application.
- IPF: connecting and the handshake, message encoding, WebSocket frames, fragments and
  pings, the table of sessions, the server.
- DPTF arbitrators, policies and domain controls: they run on the one work item
  thread, and their logic is data (tables of requests, trip points, hysteresis) rather than
  interleaving; planned below.
- Windows and Android variants of the timers; everything in the last row of the table
  in section 1, which is conversion, formatting or I/O. By volume that is most of the repository: vendored
  JSON and LZMA, the shell, logging, tables of primitives, controls that convert between
  objects and primitives.

---------------------------------------------------------------------------

## 7. Plan

In order of importance:

1. Event manager: delayed application unregistration, enables with reference counts, event cache.
2. Lock waits of their own in `WorkItemQueue`, for the hang in the manager's destructor.
3. An abstract timer as a user sees it, implemented by `EsifTimer`; `WorkItemQueue` composed
   with it instead of its own timer variables.
4. `ArbitrationContext` composed with `PrimitiveQueue`, with the destruction of the context.
5. DPTF: policy and participant managers with index containers, arbitrators as functions
   checked against their definition (extreme of the requests), policy callback
   scheduler, passive and active policy.
6. Domain polling and upsm with timers; handle manager.
7. Data vault write path with crashes.

Each module is checked by one or two runs that combine safety and liveness; a new module
should bring one such run and its few deepest properties.
