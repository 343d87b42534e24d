---- MODULE EsifQueue ----
(***************************************************************************)
(* The bounded queue of Common/esif_queue.c and the event it waits on      *)
(* (Common/esif_ccb_sem.h), with the life of a queue in the upper          *)
(* framework: one consumer thread pulls items until an exit flag is seen   *)
(* (EsifEventMgr_EventQueueThread, EsifAppMgr_PartQueueThread), and the    *)
(* owner stops the thread and destroys the queue.                          *)
(*                                                                         *)
(* The event is a flag, a count of waiters and a counting semaphore; only  *)
(* a wait that found the flag clear goes through the semaphore, so a token *)
(* too many or too few shows as a wait that falls through or never ends.   *)
(* Queue operations run under the queue's lock and are one action each.    *)
(***************************************************************************)
EXTENDS Integers, Sequences, SequencesExt

CONSTANTS
    MaxSize,       \* max_size of the queue
    MaxItems,      \* bound on the items enqueued; they are numbered in order
    MaxCreations   \* bound on app creations, during which items are requeued

ASSUME QueueAssumption ==
    MaxSize \in Nat \ {0} /\ MaxItems \in Nat /\ MaxCreations \in Nat

VARIABLES
    \* esif_ccb_event_t
    signaled, waiters,
    sem,          \* tokens in sem_obj
    sigChanged,   \* sig_count differs from the value the waiting thread saved
    \* esif_queue_instance
    list, currentSize,
    \* consumer thread
    cpc, item, timedOut,
    \* owner: whether it gave a ms_timeout, so that pull uses event_try_wait;
    \* exit flag, position; thread in EsifAppMgr_AppStart, creations left
    timed, exitFlag, mpc, creator, creationsLeft,
    \* history: next number, and what became of the items
    next, served, lost, destroyed

eventVars == <<signaled, waiters, sem, sigChanged>>
queueVars == <<list, currentSize>>
consumerVars == <<cpc, item, timedOut>>
ownerVars == <<timed, exitFlag, mpc, creator, creationsLeft>>
historyVars == <<next, served, lost, destroyed>>
vars == <<eventVars, queueVars, consumerVars, ownerVars, historyVars>>

Items == 1 .. MaxItems

TypeOK ==
    /\ signaled \in BOOLEAN /\ waiters \in 0 .. 1 /\ sem \in 0 .. 1
    /\ sigChanged \in BOOLEAN
    /\ list \in Seq(Items) /\ currentSize \in 0 .. MaxSize
    /\ cpc \in {"check", "wait", "down", "relock", "lateDown", "dequeue", "process",
                "requeue", "exited"}
    /\ item \in Items \cup {0} /\ timedOut \in BOOLEAN
    /\ timed \in BOOLEAN /\ exitFlag \in BOOLEAN /\ creationsLeft \in Nat
    /\ creator \in {"idle", "creating", "signal"}
    /\ mpc \in {"up", "signal", "join", "drain", "gone"}
    /\ next \in 1 .. MaxItems + 1
    /\ served \subseteq Items /\ lost \subseteq Items /\ destroyed \subseteq Items

(* esif_queue_create, with the consumer thread started. *)
Init ==
    /\ signaled = FALSE /\ waiters = 0 /\ sem = 0 /\ sigChanged = FALSE
    /\ list = <<>> /\ currentSize = 0
    /\ cpc = "check" /\ item = 0 /\ timedOut = FALSE
    /\ timed \in BOOLEAN /\ exitFlag = FALSE /\ mpc = "up"
    /\ creator = "idle" /\ creationsLeft = MaxCreations
    /\ next = 1 /\ served = {} /\ lost = {} /\ destroyed = {}

----------------------------------------------------------------------------
(* esif_ccb_event_t *)

(* The state lock is held across a step only by a late semaphore wait. *)
EventUnlocked == cpc # "lateDown"

(* Fault: the flag alone, no token for the waiter. *)
EventSet_NoToken ==
    /\ EventUnlocked
    /\ signaled' = TRUE
    /\ sigChanged' = TRUE
    /\ UNCHANGED <<waiters, sem>>

(* esif_ccb_event_set: one token per waiter. *)
EventSet ==
    /\ EventUnlocked
    /\ signaled' = TRUE
    /\ sem' = sem + waiters
    /\ waiters' = 0
    /\ sigChanged' = TRUE

----------------------------------------------------------------------------
(* Queue operations *)

(* Producers hold the queue's pointer until the owner withdraws it. *)
Usable == mpc \in {"up", "signal", "join"}

(* esif_queue_enqueue.  A full queue or a failed allocation changes nothing. *)
Enqueue ==
    /\ Usable /\ next <= MaxItems /\ currentSize < MaxSize
    /\ list' = Append(list, next)
    /\ currentSize' = currentSize + 1
    /\ EventSet
    /\ next' = next + 1
    /\ UNCHANGED <<consumerVars, ownerVars, served, lost, destroyed>>

(* Fault: the event is reset whatever is left in the queue. *)
Dequeue_AlwaysReset ==
    /\ EventUnlocked
    /\ list' = IF list = <<>> THEN list ELSE Tail(list)
    /\ currentSize' = IF list = <<>> THEN 0 ELSE currentSize - 1
    /\ signaled' = FALSE
    /\ UNCHANGED <<waiters, sem, sigChanged>>

(* esif_queue_dequeue: the event is reset when the last item is taken. *)
Dequeue ==
    /\ EventUnlocked
    /\ list' = IF list = <<>> THEN list ELSE Tail(list)
    /\ currentSize' = IF list = <<>> THEN 0 ELSE currentSize - 1
    /\ signaled' = (signaled /\ currentSize' # 0)
    /\ UNCHANGED <<waiters, sem, sigChanged>>

----------------------------------------------------------------------------
(* Consumer thread *)

ConsumerCheck ==
    /\ cpc = "check"
    /\ cpc' = IF exitFlag THEN "exited" ELSE "wait"
    /\ UNCHANGED <<eventVars, queueVars, item, timedOut, ownerVars, historyVars>>

(* The first locked section of event_wait and event_try_wait. *)
ConsumerWait ==
    /\ cpc = "wait"
    /\ IF signaled
         THEN cpc' = "dequeue" /\ UNCHANGED <<waiters, sigChanged>>
         ELSE cpc' = "down" /\ waiters' = waiters + 1 /\ sigChanged' = FALSE
    /\ UNCHANGED <<signaled, sem, queueVars, item, timedOut, ownerVars, historyVars>>

(* sem_down, or sem_try_down in time. *)
ConsumerDown ==
    /\ cpc = "down" /\ sem > 0
    /\ sem' = sem - 1
    /\ timedOut' = FALSE
    /\ cpc' = IF timed THEN "relock" ELSE "dequeue"
    /\ UNCHANGED <<signaled, waiters, sigChanged, queueVars, item, ownerVars,
                   historyVars>>

(* sem_try_down gives up, possibly just as the event is being set. *)
ConsumerTimeout ==
    /\ timed /\ cpc = "down"
    /\ timedOut' = TRUE
    /\ cpc' = "relock"
    /\ UNCHANGED <<eventVars, queueVars, item, ownerVars, historyVars>>

(* The second locked section of event_try_wait: the place among the waiters *)
(* is given back if the event was not set meanwhile; if it was, the token   *)
(* given to this thread is taken, under the lock.                           *)
ConsumerRelock ==
    /\ cpc = "relock"
    /\ IF sigChanged
         THEN cpc' = (IF timedOut THEN "lateDown" ELSE "dequeue") /\ UNCHANGED waiters
         ELSE cpc' = "dequeue" /\ waiters' = waiters - 1
    /\ UNCHANGED <<signaled, sem, sigChanged, queueVars, item, timedOut, ownerVars,
                   historyVars>>

ConsumerLateDown ==
    /\ cpc = "lateDown" /\ sem > 0
    /\ sem' = sem - 1
    /\ cpc' = "dequeue"
    /\ UNCHANGED <<signaled, waiters, sigChanged, queueVars, item, timedOut,
                   ownerVars, historyVars>>

ConsumerDequeue ==
    /\ cpc = "dequeue"
    /\ Dequeue
    /\ item' = IF list = <<>> THEN 0 ELSE Head(list)
    /\ cpc' = IF list = <<>> THEN "check" ELSE "process"
    /\ UNCHANGED <<timedOut, ownerVars, historyVars>>

(* The item is handled, or, while an app is being created, will be put back *)
(* after a sleep.                                                           *)
ConsumerProcess ==
    /\ cpc = "process"
    /\ IF creator = "creating"
         THEN cpc' = "requeue" /\ UNCHANGED <<item, served>>
         ELSE cpc' = "check" /\ item' = 0 /\ served' = served \cup {item}
    /\ UNCHANGED <<eventVars, queueVars, timedOut, ownerVars, next, lost, destroyed>>

(* Fault: the item is put at the back. *)
ConsumerRequeue_AtBack ==
    /\ cpc = "requeue" /\ cpc' = "check" /\ item' = 0
    /\ \/ /\ currentSize < MaxSize
          /\ list' = Append(list, item)
          /\ currentSize' = currentSize + 1
          /\ EventSet
          /\ UNCHANGED lost
       \/ lost' = lost \cup {item} /\ UNCHANGED <<eventVars, queueVars>>
    /\ UNCHANGED <<timedOut, ownerVars, next, served, destroyed>>

(* esif_queue_requeue.  The caller ignores a failure (a queue filled        *)
(* meanwhile, or no memory), and the item is gone.                          *)
ConsumerRequeue ==
    /\ cpc = "requeue" /\ cpc' = "check" /\ item' = 0
    /\ \/ /\ currentSize < MaxSize
          /\ list' = <<item>> \o list
          /\ currentSize' = currentSize + 1
          /\ EventSet
          /\ UNCHANGED lost
       \/ lost' = lost \cup {item} /\ UNCHANGED <<eventVars, queueVars>>
    /\ UNCHANGED <<timedOut, ownerVars, next, served, destroyed>>

----------------------------------------------------------------------------
(* Owner *)

(* EsifAppMgr_AppStart counts creationRefCount up for the creation ... *)
AppCreateStart ==
    /\ Usable /\ creator = "idle" /\ creationsLeft > 0
    /\ creator' = "creating"
    /\ creationsLeft' = creationsLeft - 1
    /\ UNCHANGED <<eventVars, queueVars, consumerVars, timed, exitFlag, mpc,
                   historyVars>>

(* ... and down again; an app that failed to start leaves without a signal. *)
AppCreateDone ==
    /\ creator = "creating"
    /\ creator' \in {"signal", "idle"}
    /\ UNCHANGED <<eventVars, queueVars, consumerVars, timed, exitFlag, mpc,
                   creationsLeft, historyVars>>

(* The queue's event is signalled, if the owner has not withdrawn the queue. *)
AppCreateSignal ==
    /\ creator = "signal" /\ creator' = "idle"
    /\ IF Usable THEN EventSet ELSE UNCHANGED eventVars
    /\ UNCHANGED <<queueVars, consumerVars, timed, exitFlag, mpc, creationsLeft,
                   historyVars>>

(* EsifEventMgr_Disable, EsifAppMgr_Stop: flag, signal, join. *)
StopFlag ==
    /\ mpc = "up" /\ mpc' = "signal"
    /\ exitFlag' = TRUE
    /\ UNCHANGED <<eventVars, queueVars, consumerVars, timed, creator,
                   creationsLeft, historyVars>>

(* Fault: the thread is joined without being woken. *)
StopSignal_M ==
    /\ mpc = "signal" /\ mpc' = "join"
    /\ UNCHANGED <<eventVars, queueVars, consumerVars, timed, exitFlag, creator,
                   creationsLeft, historyVars>>

StopSignal ==
    /\ mpc = "signal" /\ mpc' = "join"
    /\ EventSet
    /\ UNCHANGED <<queueVars, consumerVars, timed, exitFlag, creator, creationsLeft,
                   historyVars>>

StopJoin ==
    /\ mpc = "join" /\ cpc = "exited" /\ mpc' = "drain"
    /\ UNCHANGED <<eventVars, queueVars, consumerVars, timed, exitFlag, creator,
                   creationsLeft, historyVars>>

(* esif_queue_destroy: the items go to the destroy callback one by one ... *)
DestroyItem ==
    /\ mpc = "drain" /\ list # <<>>
    /\ destroyed' = destroyed \cup {Head(list)}
    /\ Dequeue
    /\ UNCHANGED <<consumerVars, ownerVars, next, served, lost>>

(* ... then the event is uninitialised and everything is freed. *)
DestroyQueue ==
    /\ mpc = "drain" /\ list = <<>> /\ EventUnlocked
    /\ mpc' = "gone"
    /\ signaled' = TRUE
    /\ sem' = sem + waiters
    /\ waiters' = 0
    /\ UNCHANGED <<sigChanged, queueVars, consumerVars, timed, exitFlag, creator,
                   creationsLeft, historyVars>>

----------------------------------------------------------------------------
ConsumerStep ==
    \/ ConsumerCheck \/ ConsumerWait \/ ConsumerDown \/ ConsumerTimeout
    \/ ConsumerRelock \/ ConsumerLateDown \/ ConsumerDequeue \/ ConsumerProcess
    \/ ConsumerRequeue

StopStep == StopSignal \/ StopJoin \/ DestroyItem \/ DestroyQueue

Next ==
    \/ Enqueue
    \/ ConsumerStep
    \/ AppCreateStart \/ AppCreateDone \/ AppCreateSignal
    \/ StopFlag \/ StopStep

Spec == Init /\ [][Next]_vars

(* Fairness: threads that are not blocked proceed, and an app creation      *)
(* ends.  Nobody is obliged to enqueue, create apps or stop.                *)
Fairness ==
    /\ WF_vars(ConsumerStep) /\ WF_vars(StopStep)
    /\ WF_vars(AppCreateDone \/ AppCreateSignal)

FairSpec == Spec /\ Fairness

----------------------------------------------------------------------------
(* Properties *)

(* A consumer that sleeps on the semaphore is counted as a waiter or has    *)
(* been given its token, and nobody else is: no wait falls through on a     *)
(* leftover token and none is forgotten, also when a timeout races with the *)
(* event being set.                                                         *)
TokensMatchWaiters ==
    waiters + sem =
        IF \/ cpc \in {"down", "lateDown"}
           \/ cpc = "relock" /\ (timedOut \/ ~sigChanged)
          THEN 1 ELSE 0

(* "We have to wait on the semaphore again, which will fall through": the   *)
(* wait made under the event's state lock never blocks.                     *)
LateDownFallsThrough == cpc = "lateDown" => sem > 0

(* The size that decides about full, and about the reset, is the length. *)
SizeMatchesList == currentSize = Len(list) /\ currentSize <= MaxSize

(* No wakeup is lost: while the consumer sleeps, a queue with items has     *)
(* given it its token; while it is about to, the event is set.              *)
NoLostWakeup ==
    list # <<>> /\ mpc # "gone" =>
        signaled /\ (cpc = "down" => sem > 0)

(* A consumer that sleeps after the owner's signal has its token, so the    *)
(* join cannot hang on a wakeup that a concurrent dequeue has reset.        *)
StopReachesConsumer == mpc = "join" /\ cpc = "down" => sem > 0

(* The queue is first in first out, and putting an item back keeps its      *)
(* turn: what the consumer holds came before all that is queued, in order.  *)
FifoOrder ==
    /\ \A j, k \in DOMAIN list : j < k => list[j] < list[k]
    /\ item # 0 => \A k \in DOMAIN list : item < list[k]

(* The queue and its consumer implement a bounded first-in first-out queue  *)
(* in which an item is pending until it is handled, lost or destroyed: the  *)
(* item the consumer holds is the first, and taking it out or putting it    *)
(* back is no step.                                                         *)
Pending == IF item = 0 THEN list ELSE <<item>> \o list

Fifo == INSTANCE BoundedFifo
    WITH Capacity <- MaxSize + 1, pending <- Pending,
         delivered <- served, discarded <- lost \cup destroyed

ImplementsFifo == Fifo!Spec

(* Every item that was enqueued is in the queue, with the consumer, served, *)
(* destroyed, or lost in a failed requeue, and in only one of these.        *)
ItemsAccounted ==
    LET places == <<ToSet(list), {item} \ {0}, served, lost, destroyed>> IN
    /\ \A k \in 1 .. next - 1 : \E p \in DOMAIN places : k \in places[p]
    /\ \A p, q \in DOMAIN places : p # q => places[p] \cap places[q] = {}

(* esif_ccb_event_uninit asserts that it finds no waiters. *)
NoWaitersAtDestroy == mpc = "drain" => waiters = 0 /\ cpc = "exited"

(* The inductive invariant behind the properties above. *)

(* A waiting consumer's token has been given exactly when the event was set *)
(* since the wait began; one that came back in time has taken it.           *)
TokenGivenBySet ==
    /\ cpc = "down" \/ (cpc = "relock" /\ timedOut) =>
         sem = IF sigChanged THEN 1 ELSE 0
    /\ cpc = "relock" /\ ~timedOut => sigChanged

(* The consumer handles an item it holds, numbered before the next one. *)
HeldItemIsReal ==
    /\ cpc \in {"process", "requeue"} <=> item # 0
    /\ item < next /\ \A k \in DOMAIN list : list[k] < next

(* From the owner's signal on, a consumer that has not seen the flag yet    *)
(* finds the event set; the queue is taken down only after it has exited.   *)
StopIsOrderly ==
    /\ mpc # "up" => exitFlag
    /\ mpc = "join" /\ cpc = "wait" => signaled
    /\ mpc \in {"drain", "gone"} => cpc = "exited"
    /\ mpc = "gone" => list = <<>>

QueueInvariant ==
    /\ TokensMatchWaiters /\ LateDownFallsThrough /\ TokenGivenBySet
    /\ SizeMatchesList /\ NoLostWakeup
    /\ StopReachesConsumer /\ StopIsOrderly /\ NoWaitersAtDestroy
    /\ HeldItemIsReal /\ FifoOrder

(* Every item is eventually taken out of the queue for good, unless the     *)
(* queue is stopped.                                                        *)
ItemsDelivered ==
    \A k \in Items :
        k \in ToSet(list) ~> k \in served \cup lost \cup destroyed \/ exitFlag

(* A stop terminates, and leaves nothing in the queue. *)
StopCompletes == exitFlag ~> mpc = "gone" /\ list = <<>>
====
