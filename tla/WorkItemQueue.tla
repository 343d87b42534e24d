---- MODULE WorkItemQueue ----
(***************************************************************************)
(* The DPTF work item queues: WorkItemQueueManager with its immediate and  *)
(* deferred queues, the single work item thread and the deferred queue's   *)
(* timer callback, together with the shutdown sequence of DptfManager that *)
(* drains them (DPTF/Sources/Manager).                                     *)
(*                                                                         *)
(* Any thread submits work items; one thread executes them.  The timer     *)
(* callback runs on a timer thread, without the manager's mutex, and moves *)
(* ready items from the deferred to the immediate queue.  A section under  *)
(* a mutex is one action, except the ones that block or take a second      *)
(* queue's mutex half way: removeIfMatches, disableAndEmptyAllQueues, the  *)
(* timer callback and the manager's destructor.  The timer is used through *)
(* what EsifTimer establishes: a set replaces the previous one, a set made *)
(* in the callback takes effect when it returns, a kill waits for it.      *)
(***************************************************************************)
EXTENDS Integers, Sequences, FiniteSets, SequencesExt, FiniteSetsExt

CONSTANTS
    Clients,       \* threads that submit work (ESIF events, commands, ...)
    Worker,        \* the work item thread
    Main,          \* the thread that runs DptfManager::shutDown
    None,
    Items,         \* work items; bounds how many are submitted
    Kind,          \* framework event: "threshold", "destroy" or "other"
    Participant,   \* participant index of a work item
    Priority,      \* FrameworkEventInfo priority of a work item
    Criteria,      \* match criteria of removeIfMatches: the items each matches
    Delays,        \* delays a deferred work item may be given
    MaxTime,       \* bound on the clock
    MayShutDown    \* whether DptfManager::shutDown runs

Callers == Clients \cup {Worker}
Waiters == Clients \cup {Main}
DestroyItems == {i \in Items : Kind[i] = "destroy"}

ASSUME QueueConstants ==
    /\ Worker \notin Clients /\ Main \notin Callers
    /\ None \notin Items \cup Callers \cup {Main}
    /\ Kind \in [Items -> {"threshold", "destroy", "other"}]
    /\ Priority \in [Items -> Nat]
    /\ Criteria \subseteq SUBSET Items
    /\ MaxTime \in Nat /\ Delays \subseteq Nat
    /\ MayShutDown \in BOOLEAN

VARIABLES
    enqueueingEnabled,  \* m_enqueueingEnabled
    mgrMutex,           \* holder of WorkItemQueueManager::m_mutex, across actions
    deferredMutex,      \* holder of DeferredWorkItemQueue::m_mutex, across actions
    criterion,          \* match criteria of the removeIfMatches in progress
    immediate,          \* ImmediateWorkItemQueue::m_queue
    deferred,           \* DeferredWorkItemQueue::m_queue
    semaphore,          \* m_workItemQueueSemaphore
    now, armed,         \* clock; time the timer is set for, or None
    pending,            \* time set while in the callback, or None
    tpc, carried,       \* timerCallback: position and readyWorkItem
    wpc, executing,     \* work item thread: position and the item it runs
    destroyThread,      \* m_destroyThread
    mpc,                \* shutDown: position
    fate,               \* what became of each work item
    waiter,             \* m_completionSemaphore: the thread it belongs to, or None
    waiting, completed  \* threads in enqueueImmediateWorkItemAndWait; signalled

queueVars  == <<immediate, deferred, semaphore>>
timerVars  == <<now, armed, pending, tpc, carried>>
workerVars == <<wpc, executing, destroyThread>>
waitVars   == <<waiter, waiting, completed>>
lockVars   == <<enqueueingEnabled, mgrMutex, deferredMutex, criterion>>
vars == <<lockVars, queueVars, timerVars, workerVars, mpc, fate, waitVars>>

ImmediateEntry == [item : Items, prio : Nat]
DeferredEntry == [item : Items, due : 0 .. MaxTime]

TypeOK ==
    /\ enqueueingEnabled \in BOOLEAN
    /\ mgrMutex \in Callers \cup {Main, None}
    /\ deferredMutex \in {"timer", Main, None}
    /\ criterion \in Criteria \cup {{}}
    /\ immediate \in Seq(ImmediateEntry) /\ deferred \in Seq(DeferredEntry)
    /\ semaphore \in Nat /\ now \in 0 .. MaxTime
    /\ armed \in (0 .. MaxTime) \cup {None} /\ pending \in (0 .. MaxTime) \cup {None}
    /\ tpc \in {"idle", "dequeue", "lock", "move", "signal"}
    /\ carried \in Items \cup {None}
    /\ wpc \in {"loop", "dequeue", "execute", "wait", "exited"}
    /\ executing \in Items \cup {None} /\ destroyThread \in BOOLEAN
    /\ mpc \in {"running", "lockDeferred", "cancel", "killWait", "emptyDeferred",
                "destroyAll", "waitDestroy", "join", "done"}
    /\ fate \in [Items -> {"new", "accepted", "rejected", "executed", "removed"}]
    /\ waiter \in [Items -> Waiters \cup {None}]
    /\ waiting \in SUBSET Waiters /\ completed \in SUBSET Waiters

Init ==
    /\ enqueueingEnabled = TRUE
    /\ mgrMutex = None /\ deferredMutex = None /\ criterion = {}
    /\ immediate = <<>> /\ deferred = <<>> /\ semaphore = 0
    /\ now = 0 /\ armed = None /\ pending = None
    /\ tpc = "idle" /\ carried = None
    /\ wpc = "loop" /\ executing = None /\ destroyThread = FALSE
    /\ mpc = "running"
    /\ fate = [i \in Items |-> "new"]
    /\ waiter = [i \in Items |-> None]
    /\ waiting = {} /\ completed = {}

----------------------------------------------------------------------------
(* Queues *)

ItemsOf(q) == {q[k].item : k \in DOMAIN q}

(* The walk of removeIfMatches over a queue: the items of S are erased. *)
Without(q, S) ==
    LET left[n \in 0 .. Len(q)] ==
            IF n = 0 THEN <<>>
            ELSE IF q[n].item \in S THEN left[n - 1]
            ELSE Append(left[n - 1], q[n])
    IN  left[Len(q)]

(* Fault: equal priorities are overtaken. *)
InsertByPriority_M(q, e) ==
    LET after == {k \in DOMAIN q : e.prio >= q[k].prio}
    IN  IF after = {} THEN Append(q, e) ELSE InsertAt(q, Min(after), e)

(* insertSortedByPriority: before the first entry of lower priority. *)
InsertByPriority(q, e) ==
    LET after == {k \in DOMAIN q : e.prio > q[k].prio}
    IN  IF after = {} THEN Append(q, e) ELSE InsertAt(q, Min(after), e)

(* Fault: the due time is ignored. *)
InsertByTime_M(q, e) == Append(q, e)

(* insertSortedByDeferredProcessingTime: before the first later entry. *)
InsertByTime(q, e) ==
    LET after == {k \in DOMAIN q : q[k].due > e.due}
    IN  IF after = {} THEN Append(q, e) ELSE InsertAt(q, Min(after), e)

(* throwIfDuplicateThermalThresholdCrossedEvent: compares event and         *)
(* participant, not the domain.                                             *)
IsDuplicate(i) ==
    /\ Kind[i] = "threshold"
    /\ \E j \in ItemsOf(immediate) :
         Kind[j] = "threshold" /\ Participant[j] = Participant[i]

(* The completion semaphores that signalling these items raises. *)
WaitersOf(S) == {waiter[i] : i \in S} \ {None}

(* setTimer on the queue q: esif_ccb_timer_set_msec for its head, which     *)
(* waits for the end of the callback when made inside it.                   *)
SetTimer(q) ==
    IF q = <<>> THEN UNCHANGED <<armed, pending>>
    ELSE IF tpc = "idle"
      THEN armed' = Head(q).due /\ UNCHANGED pending
      ELSE pending' = Head(q).due /\ UNCHANGED armed

----------------------------------------------------------------------------
(* WorkItemQueueManager, called by a thread that finds its mutex free: a    *)
(* client, or the worker from inside the work item it is executing.         *)

MayCall(t) ==
    /\ mgrMutex = None
    /\ \/ t \in Clients /\ t \notin waiting
       \/ t = Worker /\ wpc = "execute"

CanEnqueueImmediate(i) == enqueueingEnabled \/ Kind[i] = "destroy"

(* ImmediateWorkItemQueue::enqueue of an accepted item. *)
PutImmediate(i, prio) ==
    /\ immediate' = InsertByPriority(immediate, [item |-> i, prio |-> prio])
    /\ semaphore' = semaphore + 1

(* enqueueImmediateWorkItemAndReturn; it throws when enqueueing is disabled *)
(* or the queue reports a duplicate.                                        *)
EnqueueAndReturn(t, i) ==
    /\ MayCall(t) /\ fate[i] = "new"
    /\ \/ /\ CanEnqueueImmediate(i) /\ ~IsDuplicate(i)
          /\ PutImmediate(i, Priority[i])
          /\ fate' = [fate EXCEPT ![i] = "accepted"]
       \/ /\ ~CanEnqueueImmediate(i) \/ IsDuplicate(i)
          /\ fate' = [fate EXCEPT ![i] = "rejected"]
          /\ UNCHANGED <<immediate, semaphore>>
    /\ UNCHANGED <<lockVars, deferred, timerVars, workerVars, mpc, waitVars>>

(* enqueueImmediateWorkItemAndWait off the work item thread, up to the wait *)
(* on its semaphore.                                                        *)
EnqueueForWait(t, i) ==
    \/ /\ CanEnqueueImmediate(i) /\ ~IsDuplicate(i)
       /\ PutImmediate(i, Priority[i])
       /\ fate' = [fate EXCEPT ![i] = "accepted"]
       /\ waiter' = [waiter EXCEPT ![i] = t]
       /\ waiting' = waiting \cup {t}
    \/ /\ ~CanEnqueueImmediate(i) \/ IsDuplicate(i)
       /\ fate' = [fate EXCEPT ![i] = "rejected"]
       /\ UNCHANGED <<immediate, semaphore, waiter, waiting>>

EnqueueAndWait(t, i) ==
    /\ t # Worker /\ MayCall(t) /\ fate[i] = "new"
    /\ EnqueueForWait(t, i)
    /\ UNCHANGED <<lockVars, deferred, timerVars, workerVars, mpc, completed>>

(* On the work item thread the item is executed as a plain function call. *)
ExecuteDirectly(i) ==
    /\ wpc = "execute" /\ mgrMutex # Worker /\ fate[i] = "new"
    /\ fate' = [fate EXCEPT ![i] = "executed"]
    /\ UNCHANGED <<lockVars, queueVars, timerVars, workerVars, mpc, waitVars>>

(* The wait on the completion semaphore ends and the semaphore goes away. *)
WaitReturns(t) ==
    /\ t \in waiting /\ t \in completed
    /\ waiting' = waiting \ {t}
    /\ completed' = completed \ {t}
    /\ waiter' = [i \in Items |-> IF waiter[i] = t /\ fate[i] # "accepted"
                                    THEN None ELSE waiter[i]]

ClientWaitReturns(t) ==
    /\ t \in Clients
    /\ WaitReturns(t)
    /\ UNCHANGED <<lockVars, queueVars, timerVars, workerVars, mpc, fate>>

(* enqueueDeferredWorkItem.  Bound: due times up to MaxTime. *)
EnqueueDeferred(t, i, d) ==
    /\ MayCall(t) /\ deferredMutex = None
    /\ fate[i] = "new" /\ Kind[i] = "other" /\ now + d <= MaxTime
    /\ \/ /\ enqueueingEnabled
          /\ deferred' = InsertByTime(deferred, [item |-> i, due |-> now + d])
          /\ SetTimer(deferred')
          /\ fate' = [fate EXCEPT ![i] = "accepted"]
       \/ /\ ~enqueueingEnabled
          /\ fate' = [fate EXCEPT ![i] = "rejected"]
          /\ UNCHANGED <<deferred, armed, pending>>
    /\ UNCHANGED <<lockVars, immediate, semaphore, now, tpc, carried, workerVars,
                   mpc, waitVars>>

(* removeIfMatches, first on the immediate queue, then (as the callback     *)
(* may hold the deferred queue's mutex) on the deferred queue.              *)
RemoveImmediate(t, c) ==
    LET hit == ItemsOf(immediate) \cap c IN
    /\ MayCall(t)
    /\ mgrMutex' = t /\ criterion' = c
    /\ immediate' = Without(immediate, c)
    /\ fate' = [i \in Items |-> IF i \in hit THEN "removed" ELSE fate[i]]
    /\ completed' = completed \cup WaitersOf(hit)
    /\ UNCHANGED <<enqueueingEnabled, deferredMutex, deferred, semaphore,
                   timerVars, workerVars, mpc, waiter, waiting>>

RemoveDeferred(t) ==
    LET hit == ItemsOf(deferred) \cap criterion IN
    /\ mgrMutex = t /\ deferredMutex = None
    /\ mgrMutex' = None /\ criterion' = {}
    /\ deferred' = Without(deferred, criterion)
    /\ fate' = [i \in Items |-> IF i \in hit THEN "removed" ELSE fate[i]]
    /\ SetTimer(deferred')
    /\ UNCHANGED <<enqueueingEnabled, deferredMutex, immediate, semaphore, now,
                   tpc, carried, workerVars, mpc, waitVars>>

----------------------------------------------------------------------------
(* Work item thread *)

WorkerLoop ==
    /\ wpc = "loop"
    /\ wpc' = IF destroyThread THEN "exited" ELSE "dequeue"
    /\ UNCHANGED <<lockVars, queueVars, timerVars, executing, destroyThread, mpc,
                   fate, waitVars>>

(* ImmediateWorkItemQueue::dequeue in processImmediateQueue. *)
WorkerDequeue ==
    /\ wpc = "dequeue"
    /\ IF immediate = <<>>
         THEN wpc' = "wait" /\ UNCHANGED <<immediate, executing>>
         ELSE /\ wpc' = "execute"
              /\ executing' = Head(immediate).item
              /\ immediate' = Tail(immediate)
    /\ UNCHANGED <<lockVars, deferred, semaphore, timerVars, destroyThread, mpc,
                   fate, waitVars>>

(* Fault: completion is not signalled. *)
WorkerExecuted_M ==
    /\ wpc = "execute" /\ mgrMutex # Worker
    /\ wpc' = "dequeue" /\ executing' = None
    /\ fate' = [fate EXCEPT ![executing] = "executed"]
    /\ UNCHANGED <<lockVars, queueVars, timerVars, destroyThread, mpc, waitVars>>

(* WorkItem::execute returns or throws; both ways it has signalled the      *)
(* completion semaphore.                                                    *)
WorkerExecuted ==
    /\ wpc = "execute" /\ mgrMutex # Worker
    /\ wpc' = "dequeue" /\ executing' = None
    /\ fate' = [fate EXCEPT ![executing] = "executed"]
    /\ completed' = completed \cup WaitersOf({executing})
    /\ UNCHANGED <<lockVars, queueVars, timerVars, destroyThread, mpc, waiter,
                   waiting>>

WorkerWait ==
    /\ wpc = "wait" /\ semaphore > 0
    /\ semaphore' = semaphore - 1
    /\ wpc' = "loop"
    /\ UNCHANGED <<lockVars, immediate, deferred, timerVars, executing,
                   destroyThread, mpc, fate, waitVars>>

----------------------------------------------------------------------------
(* Timer thread: DeferredWorkItemQueue::timerCallback *)

Tick ==
    /\ now < MaxTime /\ now' = now + 1
    /\ UNCHANGED <<lockVars, queueVars, armed, pending, tpc, carried, workerVars,
                   mpc, fate, waitVars>>

TimerExpires ==
    /\ armed # None /\ armed <= now /\ tpc = "idle"
    /\ armed' = None
    /\ tpc' = "dequeue"
    /\ UNCHANGED <<lockVars, queueVars, now, pending, carried, workerVars, mpc,
                   fate, waitVars>>

(* DeferredWorkItemQueue::dequeue: the head if it is ready, then setTimer. *)
DequeueReady ==
    IF deferred # <<>> /\ Head(deferred).due <= now
      THEN /\ carried' = Head(deferred).item
           /\ deferred' = Tail(deferred)
           /\ SetTimer(Tail(deferred))
      ELSE /\ carried' = None
           /\ SetTimer(deferred)
           /\ UNCHANGED deferred

TimerFirstDequeue ==
    /\ tpc = "dequeue" /\ deferredMutex = None
    /\ DequeueReady
    /\ tpc' = "lock"
    /\ UNCHANGED <<lockVars, immediate, semaphore, now, workerVars, mpc, fate,
                   waitVars>>

TimerLock ==
    /\ tpc = "lock" /\ deferredMutex = None
    /\ deferredMutex' = "timer"
    /\ tpc' = "move"
    /\ UNCHANGED <<enqueueingEnabled, mgrMutex, criterion, queueVars, now, armed,
                   pending, carried, workerVars, mpc, fate, waitVars>>

(* Fault: a ready item is dropped when enqueueing is disabled. *)
TimerMove_M ==
    /\ tpc = "move" /\ carried # None
    /\ IF enqueueingEnabled THEN PutImmediate(carried, 0)
                            ELSE UNCHANGED <<immediate, semaphore>>
    /\ DequeueReady
    /\ UNCHANGED <<lockVars, now, tpc, workerVars, mpc, fate, waitVars>>

(* One turn of the while loop: the ready item goes to the immediate queue   *)
(* with priority 0, the next one is dequeued (the mutex is recursive).      *)
TimerMove ==
    /\ tpc = "move" /\ carried # None
    /\ PutImmediate(carried, 0)
    /\ DequeueReady
    /\ UNCHANGED <<lockVars, now, tpc, workerVars, mpc, fate, waitVars>>

TimerUnlock ==
    /\ tpc = "move" /\ carried = None
    /\ deferredMutex' = None
    /\ tpc' = "signal"
    /\ UNCHANGED <<enqueueingEnabled, mgrMutex, criterion, queueVars, now, armed,
                   pending, carried, workerVars, mpc, fate, waitVars>>

(* Fault: a set made in the callback is forgotten. *)
TimerReturn_M ==
    /\ tpc = "signal"
    /\ semaphore' = semaphore + 1
    /\ tpc' = "idle"
    /\ armed' = None /\ pending' = None
    /\ UNCHANGED <<lockVars, immediate, deferred, now, carried, workerVars, mpc,
                   fate, waitVars>>

(* The last signal, and the end of esif_ccb_tmrm_callback: a set made in    *)
(* the callback takes effect, unless the timer has been killed.             *)
TimerReturn ==
    /\ tpc = "signal"
    /\ semaphore' = semaphore + 1
    /\ tpc' = "idle"
    /\ armed' = IF mpc = "killWait" THEN None ELSE pending
    /\ pending' = None
    /\ UNCHANGED <<lockVars, immediate, deferred, now, carried, workerVars, mpc,
                   fate, waitVars>>

----------------------------------------------------------------------------
(* DptfManager::shutDown *)

(* Fault: items are signalled but kept. *)
ShutDownDisable_NoPop ==
    /\ MayShutDown /\ mpc = "running" /\ mgrMutex = None
    /\ mgrMutex' = Main
    /\ enqueueingEnabled' = FALSE
    /\ completed' = completed \cup WaitersOf(ItemsOf(immediate))
    /\ mpc' = "lockDeferred"
    /\ UNCHANGED <<deferredMutex, criterion, queueVars, timerVars, workerVars,
                   fate, waiter, waiting>>

(* disableAndEmptyAllQueues up to and including the immediate queue. *)
ShutDownDisable ==
    /\ MayShutDown /\ mpc = "running" /\ mgrMutex = None
    /\ mgrMutex' = Main
    /\ enqueueingEnabled' = FALSE
    /\ immediate' = <<>>
    /\ fate' = [i \in Items |-> IF i \in ItemsOf(immediate) THEN "removed"
                                                            ELSE fate[i]]
    /\ completed' = completed \cup WaitersOf(ItemsOf(immediate))
    /\ mpc' = "lockDeferred"
    /\ UNCHANGED <<deferredMutex, criterion, deferred, semaphore, timerVars,
                   workerVars, waiter, waiting>>

(* DeferredWorkItemQueue::makeEmtpy takes its mutex ... *)
ShutDownLockDeferred ==
    /\ mpc = "lockDeferred" /\ deferredMutex = None
    /\ deferredMutex' = Main
    /\ mpc' = "cancel"
    /\ UNCHANGED <<enqueueingEnabled, mgrMutex, criterion, queueVars, timerVars,
                   workerVars, fate, waitVars>>

(* ... kills the timer, waiting for a callback in progress ... *)
ShutDownCancelTimer ==
    /\ mpc = "cancel"
    /\ armed' = None
    /\ mpc' = IF tpc = "idle" THEN "emptyDeferred" ELSE "killWait"
    /\ UNCHANGED <<lockVars, queueVars, now, pending, tpc, carried, workerVars,
                   fate, waitVars>>

ShutDownKillReturns ==
    /\ mpc = "killWait" /\ tpc = "idle"
    /\ mpc' = "emptyDeferred"
    /\ UNCHANGED <<lockVars, queueVars, timerVars, workerVars, fate, waitVars>>

(* ... and empties the queue; DeferredWorkItem::signal does nothing. *)
ShutDownEmptyDeferred ==
    /\ mpc = "emptyDeferred"
    /\ deferred' = <<>>
    /\ fate' = [i \in Items |-> IF i \in ItemsOf(deferred) THEN "removed"
                                                           ELSE fate[i]]
    /\ deferredMutex' = None /\ mgrMutex' = None
    /\ mpc' = "destroyAll"
    /\ UNCHANGED <<enqueueingEnabled, criterion, immediate, semaphore, timerVars,
                   workerVars, waitVars>>

(* destroyAllPolicies, destroyAllParticipants: one item at a time, waiting. *)
ShutDownDestroy(i) ==
    /\ mpc = "destroyAll" /\ mgrMutex = None
    /\ i \in DestroyItems /\ fate[i] = "new"
    /\ EnqueueForWait(Main, i)
    /\ mpc' = IF Main \in waiting' THEN "waitDestroy" ELSE "destroyAll"
    /\ UNCHANGED <<lockVars, deferred, timerVars, workerVars, completed>>

ShutDownDestroyed ==
    /\ mpc = "waitDestroy"
    /\ WaitReturns(Main)
    /\ mpc' = "destroyAll"
    /\ UNCHANGED <<lockVars, queueVars, timerVars, workerVars, fate>>

(* deleteWorkItemQueueManager: ~WorkItemQueueManager takes the mutex and    *)
(* ~WorkItemQueueThread stops the thread.                                   *)
ShutDownDelete ==
    /\ mpc = "destroyAll" /\ mgrMutex = None
    /\ \A i \in DestroyItems : fate[i] # "new"
    /\ mgrMutex' = Main
    /\ destroyThread' = TRUE
    /\ semaphore' = semaphore + 1
    /\ mpc' = "join"
    /\ UNCHANGED <<enqueueingEnabled, deferredMutex, criterion, immediate,
                   deferred, timerVars, wpc, executing, fate, waitVars>>

(* The thread has exited; the queues are emptied by their destructors. *)
ShutDownJoined ==
    /\ mpc = "join" /\ wpc = "exited"
    /\ mgrMutex' = None
    /\ immediate' = <<>>
    /\ fate' = [i \in Items |-> IF i \in ItemsOf(immediate) THEN "removed"
                                                            ELSE fate[i]]
    /\ completed' = completed \cup WaitersOf(ItemsOf(immediate))
    /\ mpc' = "done"
    /\ UNCHANGED <<enqueueingEnabled, deferredMutex, criterion, deferred,
                   semaphore, timerVars, workerVars, waiter, waiting>>

----------------------------------------------------------------------------
ClientStep(t) ==
    \/ \E i \in Items : EnqueueAndReturn(t, i) \/ EnqueueAndWait(t, i)
    \/ \E i \in Items, d \in Delays : EnqueueDeferred(t, i, d)
    \/ \E c \in Criteria : RemoveImmediate(t, c)

WorkerStep == WorkerLoop \/ WorkerDequeue \/ WorkerExecuted \/ WorkerWait

TimerStep == TimerFirstDequeue \/ TimerLock \/ TimerMove \/ TimerUnlock \/ TimerReturn

ShutDownStep ==
    \/ ShutDownLockDeferred \/ ShutDownCancelTimer \/ ShutDownKillReturns
    \/ ShutDownEmptyDeferred \/ ShutDownDestroyed \/ ShutDownDelete \/ ShutDownJoined
    \/ \E i \in Items : ShutDownDestroy(i)

(* The work item queue manager exists until shutDown has deleted it. *)
Alive == mpc # "done"

Next ==
    /\ Alive
    /\ \/ \E t \in Callers : ClientStep(t)
       \/ \E t \in Callers : RemoveDeferred(t)
       \/ \E t \in Clients : ClientWaitReturns(t)
       \/ \E i \in Items : ExecuteDirectly(i)
       \/ WorkerStep
       \/ Tick \/ TimerExpires \/ TimerStep
       \/ ShutDownDisable \/ ShutDownStep

Spec == Init /\ [][Next]_vars

(* Fairness: a work item makes finitely many calls and terminates, nobody   *)
(* is kept out of a mutex for ever by threads that keep coming back for it, *)
(* threads that are not blocked proceed and time passes.  Nobody is obliged *)
(* to submit work or to shut down.                                          *)
Fairness ==
    /\ WF_vars(Alive /\ (WorkerLoop \/ WorkerDequeue \/ WorkerWait))
    /\ SF_vars(Alive /\ WorkerExecuted)
    /\ WF_vars(Alive /\ TimerStep)
    /\ WF_vars(Alive /\ TimerExpires)
    /\ WF_vars(Alive /\ Tick)
    /\ SF_vars(Alive /\ ShutDownStep)
    /\ \A t \in Clients : WF_vars(Alive /\ ClientWaitReturns(t))
    /\ \A t \in Callers : WF_vars(Alive /\ RemoveDeferred(t))

FairSpec == Spec /\ Fairness

----------------------------------------------------------------------------
(* Properties *)

Copies(i) ==
    Cardinality({k \in DOMAIN immediate : immediate[k].item = i})
    + Cardinality({k \in DOMAIN deferred : deferred[k].item = i})
    + (IF carried = i THEN 1 ELSE 0) + (IF executing = i THEN 1 ELSE 0)

(* No accepted work item is lost or run twice: until it is executed or      *)
(* removed it is in exactly one place - a queue, the hands of the timer     *)
(* callback moving it, or the work item thread - and afterwards in none.    *)
ItemsConserved ==
    \A i \in Items : Copies(i) = IF fate[i] = "accepted" THEN 1 ELSE 0

(* A newly queued item never overtakes an item of the same or a higher      *)
(* priority, and the items already queued keep their order.                 *)
KeepsTurns ==
    \A j, k \in DOMAIN immediate' :
        LET a == immediate'[j].item
            b == immediate'[k].item
            old == ItemsOf(immediate)
        IN  j < k /\ b \in old =>
              IF a \in old
                THEN \E m, n \in DOMAIN immediate :
                       m < n /\ immediate[m].item = a /\ immediate[n].item = b
                ELSE immediate'[j].prio > immediate'[k].prio

(* Every step keeps the turns of the items in the immediate queue. *)
NoOvertaking == [][KeepsTurns]_vars

(* No wakeup of the work item thread is lost: if it sleeps (or is about to) *)
(* while items are queued, the semaphore will let it through.               *)
NoLostWakeup == wpc = "wait" /\ immediate # <<>> => semaphore > 0

(* "The timer must be set to expire when the first item in the queue is     *)
(* ready to process": whenever deferred items exist, the timer is set for   *)
(* the earliest of them, or its callback is running and has yet to look at  *)
(* the queue or has set the timer again for it.                             *)
TimerCoversDeferred ==
    deferred # <<>> /\ mpc \in {"running", "lockDeferred"} =>
        LET first == Min({deferred[k].due : k \in DOMAIN deferred}) IN
        CASE tpc = "idle"    -> armed = first
          [] tpc = "dequeue" -> TRUE
          [] OTHER           -> pending = first

(* The completion semaphore is on the waiting thread's stack: as long as a  *)
(* queue or the work item thread can still signal it, its owner is waiting  *)
(* and has not been signalled before.                                       *)
CompletionSemaphoreValid ==
    \A i \in Items : fate[i] = "accepted" /\ waiter[i] # None =>
        waiter[i] \in waiting /\ waiter[i] \notin completed

(* A thread that waits for its work item and has not been signalled has its *)
(* item in the immediate queue or in execution.                             *)
WaiterHasItem ==
    \A t \in waiting \ completed :
        \E i \in ItemsOf(immediate) \cup {executing} : i # None /\ waiter[i] = t

(* Every enqueueImmediateWorkItemAndWait returns. *)
WaitsReturn == \A t \in Clients : t \in waiting ~> t \notin waiting

(* Every accepted work item is eventually executed or removed. *)
ItemsServed == \A i \in Items : fate[i] = "accepted" ~> fate[i] # "accepted"

(* DptfManager::shutDown terminates. *)
ShutDownReturns == mpc # "running" ~> mpc = "done"

----------------------------------------------------------------------------
(* The inductive invariant *)

Distinct(q) == \A j, k \in 1 .. Len(q) : q[j].item = q[k].item => j = k

(* Where the accepted items are: ItemsConserved in terms of sets. *)
PlacesOK ==
    LET queued == ItemsOf(immediate) \cup ItemsOf(deferred) IN
    /\ Distinct(immediate) /\ Distinct(deferred)
    /\ ItemsOf(immediate) \cap ItemsOf(deferred) = {}
    /\ carried # None => carried \notin queued
    /\ executing # None => executing \notin queued \cup {carried}
    /\ \A i \in Items : fate[i] = "accepted" <=> i \in queued \cup {carried, executing}

(* Whose hands can be full. *)
HandsOK ==
    /\ wpc = "execute" <=> executing # None
    /\ carried # None => tpc \in {"lock", "move"}

(* The immediate queue is in order of priority, the deferred one in order of time. *)
ByPriority(q) == \A j, k \in 1 .. Len(q) : j < k => q[j].prio >= q[k].prio
ByTime(q) == \A j, k \in 1 .. Len(q) : j < k => q[j].due <= q[k].due
OrderOK == ByPriority(immediate) /\ ByTime(deferred)

(* The completion semaphores: a thread waits on one at a time. *)
WaitOK ==
    /\ \A i \in Items : waiter[i] # None => waiter[i] \in waiting /\ fate[i] # "new"
    /\ \A i, j \in Items : waiter[i] # None /\ waiter[i] = waiter[j] => i = j
    /\ completed \subseteq waiting
    /\ Main \in waiting <=> mpc = "waitDestroy"
    /\ CompletionSemaphoreValid /\ WaiterHasItem

(* The timer is set for the head of the deferred queue, or will be. *)
TimerOK ==
    deferred # <<>> /\ mpc \in {"running", "lockDeferred"} =>
        /\ tpc = "idle" => armed = Head(deferred).due
        /\ tpc \notin {"idle", "dequeue"} => pending = Head(deferred).due

WorkInvariant == PlacesOK /\ HandsOK /\ OrderOK /\ WaitOK /\ TimerOK /\ NoLostWakeup
====
