---- MODULE PrimitiveQueue ----
(***************************************************************************)
(* The primitive queue of the arbitration manager (esif_uf_arbmgr.c).      *)
(*                                                                         *)
(* A SET that wins its arbitration is not executed at once: it is queued,  *)
(* and one thread executes the queued requests.  A GET of the same         *)
(* primitive must not overtake it, so it looks through the queue and, if   *)
(* such a SET is there, goes into the queue as well and waits.  A copy of  *)
(* the SET (a dummy request) follows it in the queue, so that it is seen   *)
(* there also while it is being executed.                                  *)
(*                                                                         *)
(* Producers hold primitiveQueueLock; the executing thread takes only the  *)
(* queue's own lock when it pulls, so it can come between a request and    *)
(* its dummy, and between the steps of a walk through the list.  The       *)
(* queue's event is the flag that EsifQueue shows it to be for a single    *)
(* consumer.  The queue is never full (its depth is 2^32 - 1).             *)
(***************************************************************************)
EXTENDS Naturals, Sequences, SequencesExt, FiniteSets

CONSTANTS
    Threads,      \* threads that execute primitives
    Prims,        \* primitives, each with its SET and its GET
    MaxRequests,  \* bound: requests created
    MayFail,      \* whether allocations may fail
    None

(* EsifArbPrimReq.  id is the order of creation; caller is the owner of the *)
(* completion event, or None.                                               *)
Request == [id : 1 .. MaxRequests, prim : Prims, set : BOOLEAN, delay : BOOLEAN,
            caller : Threads \cup {None}, dummy : BOOLEAN]

ASSUME PrimitiveQueueAssumption ==
    /\ MaxRequests \in Nat /\ MayFail \in BOOLEAN
    /\ None \notin Threads \cup Prims /\ None \notin Request

VARIABLES
    queue,          \* primitiveQueuePtr's list; None is a NULL request
    event,          \* its event
    lock,           \* holder of primitiveQueueLock, across actions
    exitFlag,       \* primitiveQueueExitFlag
    xpc, current,   \* executing thread: position and primReqPtr
    pc, arg,        \* per thread: position and arguments of its call
    completed,      \* threads whose completion event is set
    opc,            \* EsifArbMgr_Stop and _Exit: position
    created,        \* requests created
    raced,          \* the list changed under the walk in progress
    exempt,         \* history: threads whose GET was not, or not reliably, checked
    unmarked,       \* history: queued SETs without a dummy for want of memory
    lost,           \* history: requests that were never, or are no longer, queued
                    \* for want of memory
    before          \* history: per GET, the SETs queued before it was called

queueVars == <<queue, event>>
execVars  == <<xpc, current>>
callVars  == <<pc, arg, completed>>
ghosts    == <<exempt, unmarked, lost, before>>
vars == <<queueVars, lock, exitFlag, execVars, callVars, opc, created, raced, ghosts>>

TypeOK ==
    /\ event \in BOOLEAN /\ exitFlag \in BOOLEAN /\ raced \in BOOLEAN
    /\ queue \in Seq(Request \cup {None})
    /\ lock \in Threads \cup {None}
    /\ xpc \in {"loop", "wait", "dequeue", "execute", "cleanup", "destroy", "exited"}
    /\ current \in Request \cup {None}
    /\ pc \in [Threads -> {"idle", "check", "walk", "dummy", "wait", "direct"}]
    /\ arg \in [Threads -> [prim : Prims, set : BOOLEAN] \cup Request \cup {None}]
    /\ completed \subseteq Threads
    /\ opc \in {"running", "flagged", "join", "stopped", "destroyed"}
    /\ created \in 0 .. MaxRequests
    /\ exempt \subseteq Threads /\ unmarked \subseteq 1 .. MaxRequests
    /\ lost \subseteq Request
    /\ before \in [Threads -> SUBSET (1 .. MaxRequests)]

Init ==
    /\ queue = <<>> /\ event = FALSE /\ lock = None
    /\ exitFlag = FALSE /\ xpc = "loop" /\ current = None
    /\ pc = [t \in Threads |-> "idle"] /\ arg = [t \in Threads |-> None]
    /\ completed = {} /\ opc = "running" /\ created = 0 /\ raced = FALSE
    /\ exempt = {} /\ unmarked = {} /\ lost = {} /\ before = [t \in Threads |-> {}]

----------------------------------------------------------------------------
IsReal(r) == r # None /\ ~r.dummy

(* Delaying SETs of p that have been queued and not yet executed. *)
Pending(p) ==
    {r.id : r \in {q \in ToSet(queue) : IsReal(q) /\ q.delay /\ q.prim = p}}
    \cup (IF xpc = "execute" /\ current.delay /\ current.prim = p THEN {current.id} ELSE {})

NewRequest(p, set, delay, caller) ==
    [id |-> created + 1, prim |-> p, set |-> set, delay |-> delay, caller |-> caller,
     dummy |-> FALSE]

(* esif_queue_enqueue *)
Enqueue(r) == queue' = Append(queue, r) /\ event' = TRUE

Go(t, where, a) == pc' = [pc EXCEPT ![t] = where] /\ arg' = [arg EXCEPT ![t] = a]

(* The manager is there until EsifArbMgr_Exit. *)
MayCall(t) == pc[t] = "idle" /\ opc # "destroyed"

(* Bound: a call with n requests leaves room for the calls in progress. *)
Callers == {t \in Threads : pc[t] \in {"check", "walk"}}
Room(n) == created + Cardinality(Callers) + n <= MaxRequests

----------------------------------------------------------------------------
(* Fault: the dummy is queued after the lock was released. *)
QueueSet_Unlocked(t, p, delay) ==
    /\ MayCall(t) /\ lock = None /\ Room(1)
    /\ LET r == NewRequest(p, TRUE, delay, None) IN
       /\ Enqueue(r)
       /\ IF delay THEN Go(t, "dummy", r) ELSE UNCHANGED <<pc, arg>>
    /\ created' = created + 1
    /\ UNCHANGED <<lock, exitFlag, execVars, completed, opc, raced, ghosts>>

(* EsifArbEntry_QueueLimitedPrimitiveRequest_Locked: a new winner delays    *)
(* the GETs of its primitive, new limits and the like do not.  In           *)
(* QueuePrimitiveRequest_Locked the request is read again after it was      *)
(* queued, when the executing thread may already have it.                   *)
QueueSet(t, p, delay) ==
    /\ MayCall(t) /\ lock = None /\ Room(1)
    /\ LET r == NewRequest(p, TRUE, delay, None) IN
       /\ Enqueue(r)
       /\ IF delay THEN lock' = t /\ Go(t, "dummy", r)
                   ELSE UNCHANGED <<lock, pc, arg>>
    /\ created' = created + 1
    /\ UNCHANGED <<exitFlag, execVars, completed, opc, raced, ghosts>>

QueueDummy(t) ==
    /\ pc[t] = "dummy"
    /\ \/ Enqueue([arg[t] EXCEPT !.dummy = TRUE]) /\ UNCHANGED unmarked
       \/ MayFail /\ unmarked' = unmarked \cup {arg[t].id} /\ UNCHANGED queueVars
    /\ lock' = None
    /\ Go(t, "idle", None)
    /\ UNCHANGED <<exitFlag, execVars, completed, opc, created, raced, exempt, lost,
                   before>>

(* A winner that cannot be queued is executed by its caller, unarbitrated.  *)
(* If the request is there and only its place in the queue cannot be        *)
(* allocated, its dummy is queued all the same.                             *)
QueueSetFails(t, p) ==
    /\ MayCall(t) /\ lock = None /\ MayFail
    /\ Go(t, "check", [prim |-> p, set |-> TRUE])
    /\ \/ Room(1) /\ UNCHANGED <<queueVars, created, lost>>
       \/ LET r == NewRequest(p, TRUE, TRUE, None) IN
          /\ Room(2)
          /\ Enqueue([r EXCEPT !.dummy = TRUE])
          /\ created' = created + 1
          /\ lost' = lost \cup {r}
    /\ UNCHANGED <<lock, exitFlag, execVars, completed, opc, raced, exempt, unmarked,
                   before>>

----------------------------------------------------------------------------
(* EsifArbMgr_ExecuteUnarbitratedPrimitive *)
ExecuteGet(t, p) ==
    /\ MayCall(t) /\ Room(1)
    /\ Go(t, "check", [prim |-> p, set |-> FALSE])
    /\ before' = [before EXCEPT ![t] = Pending(p)]
    /\ UNCHANGED <<queueVars, lock, exitFlag, execVars, completed, opc, created,
                   raced, exempt, unmarked, lost>>

(* Arbitration is off, or else the walk through the list begins.  The shell *)
(* sets g_arbMgr.arbitrationEnabled at any time, so its value is left open. *)
Check(t) ==
    /\ pc[t] = "check"
    /\ \/ /\ pc' = [pc EXCEPT ![t] = "direct"]
          /\ exempt' = exempt \cup {t}
          /\ UNCHANGED lock
       \/ /\ lock = None
          /\ pc' = [pc EXCEPT ![t] = "walk"]
          /\ lock' = t
          /\ UNCHANGED exempt
    /\ UNCHANGED <<queueVars, exitFlag, execVars, arg, completed, opc, created,
                   raced, unmarked, lost, before>>

(* Fault: dummy requests are not looked at. *)
MustDelay_NoDummy(a) ==
    ~a.set /\ \E r \in ToSet(queue) : IsReal(r) /\ r.delay /\ r.prim = a.prim

(* EsifArbMgr_MustDelayPrimitive_Locked: delayedPrimitiveId is that of a GET. *)
MustDelay(a) ==
    ~a.set /\ \E r \in ToSet(queue) : r # None /\ r.delay /\ r.prim = a.prim

(* The walk ends and the request is queued, if it must be delayed and can   *)
(* be allocated.  A walk that met the executing thread's removal of a node  *)
(* has read freed memory and may have found anything.                       *)
WalkEnd(t) ==
    /\ pc[t] = "walk"
    /\ lock' = None /\ raced' = FALSE
    /\ exempt' = IF raced THEN exempt \cup {t} ELSE exempt
    /\ \/ /\ MustDelay(arg[t]) \/ raced
          /\ Enqueue(NewRequest(arg[t].prim, arg[t].set, FALSE, t))
          /\ created' = created + 1
          /\ pc' = [pc EXCEPT ![t] = "wait"]
       \/ /\ ~MustDelay(arg[t]) \/ raced
          /\ pc' = [pc EXCEPT ![t] = "direct"]
          /\ UNCHANGED <<queueVars, created>>
    /\ UNCHANGED <<exitFlag, execVars, arg, completed, opc, unmarked, lost, before>>

(* The request that should be delayed cannot be allocated. *)
WalkEndFails(t) ==
    /\ pc[t] = "walk" /\ MayFail /\ MustDelay(arg[t])
    /\ lock' = None /\ raced' = FALSE
    /\ exempt' = exempt \cup {t}
    /\ pc' = [pc EXCEPT ![t] = "direct"]
    /\ UNCHANGED <<queueVars, exitFlag, execVars, arg, completed, opc, created,
                   unmarked, lost, before>>

(* The call returns; its history ends. *)
Return(t) ==
    /\ Go(t, "idle", None)
    /\ exempt' = exempt \ {t}
    /\ before' = [before EXCEPT ![t] = {}]

(* EsifUp_ExecutePrimitive by the caller itself. *)
Direct(t) ==
    /\ pc[t] = "direct"
    /\ Return(t)
    /\ UNCHANGED <<queueVars, lock, exitFlag, execVars, completed, opc, created, raced,
                   unmarked, lost>>

(* The completion event is set: the wait ends. *)
WaitReturns(t) ==
    /\ pc[t] = "wait" /\ t \in completed
    /\ completed' = completed \ {t}
    /\ Return(t)
    /\ UNCHANGED <<queueVars, lock, exitFlag, execVars, opc, created, raced, unmarked,
                   lost>>

----------------------------------------------------------------------------
(* EsifArbMgr_PrimitiveQueueExecutionThread *)

XLoop ==
    /\ xpc = "loop"
    /\ xpc' = IF exitFlag THEN "exited" ELSE "wait"
    /\ UNCHANGED <<queueVars, lock, exitFlag, current, callVars, opc, created, raced,
                   ghosts>>

XWait ==
    /\ xpc = "wait" /\ event
    /\ xpc' = "dequeue"
    /\ UNCHANGED <<queueVars, lock, exitFlag, current, callVars, opc, created, raced,
                   ghosts>>

(* esif_queue_dequeue, which resets the event when the queue is empty. *)
Dequeue(rest) == queue' = rest /\ event' = (event /\ rest # <<>>)

(* The end of esif_queue_pull.  NULL and dummy requests are passed over. *)
XDequeue ==
    /\ xpc = "dequeue"
    /\ IF queue # <<>> /\ IsReal(Head(queue))
         THEN xpc' = "execute" /\ current' = Head(queue)
         ELSE xpc' = "loop" /\ UNCHANGED current
    /\ Dequeue(IF queue = <<>> THEN queue ELSE Tail(queue))
    /\ raced' = (raced \/ (queue # <<>> /\ \E t \in Threads : pc[t] = "walk"))
    /\ UNCHANGED <<lock, exitFlag, callVars, opc, created, ghosts>>

XExecute ==
    /\ xpc = "execute"
    /\ xpc' = "cleanup"
    /\ unmarked' = unmarked \ {current.id}
    /\ UNCHANGED <<queueVars, lock, exitFlag, current, callVars, opc, created, raced,
                   exempt, lost, before>>

(* What esif_queue_dequeue returns. *)
FrontRequest == IF queue = <<>> THEN None ELSE Head(queue)

(* Under the lock the next request is taken from the queue: the dummy of    *)
(* this one is freed, any other goes back to the front - also a NULL, when  *)
(* the queue was empty - with the event set, also if there is no memory to  *)
(* put it back and it is lost.                                              *)
XCleanup ==
    /\ xpc = "cleanup" /\ lock = None
    /\ xpc' = "destroy"
    /\ IF /\ FrontRequest # None /\ FrontRequest.dummy
          /\ FrontRequest.prim = current.prim /\ FrontRequest.set = current.set
         THEN Dequeue(Tail(queue)) /\ UNCHANGED lost
         ELSE /\ event' = TRUE
              /\ \/ /\ queue' = IF queue = <<>> THEN <<None>> ELSE queue
                    /\ UNCHANGED lost
                 \/ /\ MayFail
                    /\ queue' = IF queue = <<>> THEN queue ELSE Tail(queue)
                    /\ lost' = IF IsReal(FrontRequest) THEN lost \cup {FrontRequest} ELSE lost
    /\ UNCHANGED <<lock, exitFlag, current, callVars, opc, created, raced, exempt,
                   unmarked, before>>

(* Fault: the completion event of a delayed request is not set. *)
Release_Never(r) == UNCHANGED completed

(* EsifArbPrimReq_Destroy sets the completion event. *)
Release(r) == completed' = completed \cup ({r.caller} \ {None})

XDestroy ==
    /\ xpc = "destroy"
    /\ Release(current)
    /\ xpc' = "loop" /\ current' = None
    /\ UNCHANGED <<queueVars, lock, exitFlag, pc, arg, opc, created, raced, ghosts>>

----------------------------------------------------------------------------
(* EsifArbMgr_Stop: flag, event, join; then EsifArbMgr_Exit *)

StopFlag ==
    /\ opc = "running" /\ opc' = "flagged"
    /\ exitFlag' = TRUE
    /\ UNCHANGED <<queueVars, lock, execVars, callVars, created, raced, ghosts>>

(* Fault: the waiting thread is not woken. *)
StopSignal_NoEvent ==
    /\ opc = "flagged" /\ opc' = "join"
    /\ UNCHANGED <<queueVars, lock, exitFlag, execVars, callVars, created, raced, ghosts>>

StopSignal ==
    /\ opc = "flagged" /\ opc' = "join"
    /\ event' = TRUE
    /\ UNCHANGED <<queue, lock, exitFlag, execVars, callVars, created, raced, ghosts>>

StopJoin ==
    /\ opc = "join" /\ xpc = "exited" /\ opc' = "stopped"
    /\ UNCHANGED <<queueVars, lock, exitFlag, execVars, callVars, created, raced, ghosts>>

(* esif_queue_destroy destroys the requests up to the first NULL.  Nobody   *)
(* is between the locks of a call when the manager exits.                   *)
Exit ==
    LET nulls == {i \in DOMAIN queue : queue[i] = None}
        n     == IF nulls = {} THEN Len(queue)
                 ELSE (CHOOSE i \in nulls : \A j \in nulls : i <= j) - 1
    IN
    /\ opc = "stopped" /\ lock = None /\ opc' = "destroyed"
    /\ \A t \in Threads : pc[t] \in {"idle", "wait"}
    /\ completed' = completed \cup ({queue[i].caller : i \in 1 .. n} \ {None})
    /\ queue' = <<>>
    /\ UNCHANGED <<event, lock, exitFlag, execVars, pc, arg, created, raced, ghosts>>

----------------------------------------------------------------------------
CallStep(t) ==
    \/ QueueDummy(t) \/ Check(t) \/ WalkEnd(t) \/ WalkEndFails(t)
    \/ Direct(t) \/ WaitReturns(t)

Call(t) ==
    \E p \in Prims : \/ ExecuteGet(t, p) \/ QueueSetFails(t, p)
                     \/ \E delay \in BOOLEAN : QueueSet(t, p, delay)

ExecStep == XLoop \/ XWait \/ XDequeue \/ XExecute \/ XCleanup \/ XDestroy

StopStep == StopSignal \/ StopJoin

Next ==
    \/ \E t \in Threads : Call(t) \/ CallStep(t)
    \/ ExecStep
    \/ StopFlag \/ StopStep \/ Exit

Spec == Init /\ [][Next]_vars

(* Fairness: the executing thread, a call and a stop that have begun proceed *)
(* when nothing blocks them; the lock is given to the executing thread in    *)
(* the end (strong fairness).  Nobody is obliged to call or to stop.         *)
Fairness ==
    /\ SF_vars(ExecStep)
    /\ WF_vars(StopStep)
    /\ \A t \in Threads : WF_vars(CallStep(t))

FairSpec == Spec /\ Fairness

----------------------------------------------------------------------------
(* Properties *)

(* Until a delaying SET has been executed, its dummy is in the queue, or    *)
(* about to be put there by whoever holds the lock.                         *)
Marked ==
    \A p \in Prims : \A id \in Pending(p) :
        \/ id \in unmarked
        \/ \E r \in ToSet(queue) : r # None /\ r.dummy /\ r.id = id
        \/ lock # None /\ pc[lock] = "dummy" /\ arg[lock].id = id

(* A dummy always stands behind its SET, or first in the queue while that   *)
(* one is executed and cleaned up, unless there was no memory to queue its  *)
(* SET or to put it back.                                                   *)
DummyBehind ==
    \A i \in DOMAIN queue : queue[i] # None /\ queue[i].dummy =>
        LET real == [queue[i] EXCEPT !.dummy = FALSE] IN
        \/ i > 1 /\ queue[i - 1] = real
        \/ i = 1 /\ current = real /\ xpc \in {"execute", "cleanup"}
        \/ real \in lost

(* "so that primitives requiring delay can detect the case when the request *)
(* has been removed from the queue, but has not been processed yet": every  *)
(* delaying SET that is not yet executed can be seen in the queue, and no   *)
(* dummy is left over there but those of SETs lost for want of memory.      *)
DummyMarksRequest == Marked /\ DummyBehind

Unseen(t) == before[t] \cap Pending(arg[t].prim)

(* A GET is executed after every delaying SET of its primitive that had been *)
(* queued when it was called, whether it executes at once or waits in the    *)
(* queue - unless arbitration was off, memory was short, or its walk raced   *)
(* with the executing thread.                                                *)
ReadsSeeWrites ==
    \A t \in Threads \ exempt :
        \/ pc[t] = "direct" /\ ~arg[t].set
        \/ xpc = "execute" /\ current.caller = t
        => Unseen(t) \subseteq unmarked

(* A delayed primitive returns to its caller, as long as the manager runs,  *)
(* unless its request was lost when there was no memory to put it back.     *)
DelayedReturns ==
    \A t \in Threads : pc[t] = "wait" ~> \/ pc[t] # "wait" \/ opc # "running"
                                         \/ \E r \in lost : r.caller = t

(* EsifArbMgr_Stop returns: the executing thread cannot miss the flag. *)
StopCompletes == opc # "running" ~> opc \in {"stopped", "destroyed"}

----------------------------------------------------------------------------
(* The inductive invariant behind DummyMarksRequest and ReadsSeeWrites.      *)

(* Requests that are queued or in the hands of the executing thread. *)
Busy == xpc \in {"execute", "cleanup", "destroy"}
Outstanding ==
    {r \in ToSet(queue) : IsReal(r)} \cup (IF Busy THEN {current} ELSE {})

(* Who is where: the holder of the lock walks or owes a dummy; calls have    *)
(* their arguments; the executing thread is gone when the stop has joined it. *)
PositionsOK ==
    /\ \A t \in Threads :
         /\ pc[t] \in {"dummy", "walk"} => lock = t
         /\ pc[t] \in {"check", "walk", "direct"} => arg[t] \in [prim : Prims, set : BOOLEAN]
    /\ Busy => current \in Request /\ ~current.dummy
    /\ opc \in {"stopped", "destroyed"} => xpc = "exited"

(* The requests that calls in progress may still create stay in the bound. *)
BoundOK == IsFiniteSet(Callers) /\ created + Cardinality(Callers) <= MaxRequests

(* The request whose dummy is owed is the last in the queue, or already in   *)
(* the hands of the executing thread, which then waits for the lock.         *)
DummyOwed ==
    \A t \in Threads : pc[t] = "dummy" =>
        /\ arg[t] \in Request /\ ~arg[t].dummy /\ arg[t].caller = None
        /\ IF queue = <<>> THEN current = arg[t] /\ xpc \in {"execute", "cleanup"}
                           ELSE queue[Len(queue)] = arg[t]

(* Requests are executed in the order of their creation. *)
OrderOK ==
    /\ \A i, j \in DOMAIN queue :
         i < j /\ IsReal(queue[i]) /\ IsReal(queue[j]) => queue[i].id < queue[j].id
    /\ \A i \in DOMAIN queue : Busy /\ IsReal(queue[i]) => current.id < queue[i].id
    /\ \A r \in Outstanding : r.id <= created
    /\ \A t \in Threads : \A id \in before[t] : id <= created

(* A request with a caller is the only one of a call that waits for it, and  *)
(* was created after all that had been queued before that call.  Dummies     *)
(* have no caller.                                                           *)
WaitersOK ==
    /\ \A t \in completed : pc[t] = "wait"
    /\ \A r \in Outstanding : r.caller # None =>
         /\ ~r.delay /\ pc[r.caller] = "wait" /\ r.caller \notin completed
         /\ \A id \in before[r.caller] : id < r.id
    /\ \A r, q \in Outstanding : r.caller # None /\ r.caller = q.caller => r.id = q.id
    /\ \A r \in ToSet(queue) : r # None /\ r.dummy => r.caller = None

(* The part of ReadsSeeWrites about GETs that execute at once; the rest      *)
(* follows from the order.                                                   *)
DirectReads ==
    \A t \in Threads \ exempt :
        pc[t] = "direct" /\ ~arg[t].set => Unseen(t) \subseteq unmarked

(* The number of a lost request is not that of an outstanding one. *)
LostOK == \A l \in lost : l.id <= created /\ \A r \in Outstanding : r.id # l.id

(* Nothing is lost or unmarked while there is memory. *)
MemoryOK == ~MayFail => lost = {} /\ unmarked = {}

PrimitiveQueueInvariant ==
    /\ PositionsOK /\ BoundOK /\ DummyOwed /\ OrderOK /\ WaitersOK
    /\ Marked /\ DummyBehind /\ DirectReads
    /\ LostOK /\ MemoryOK

====
