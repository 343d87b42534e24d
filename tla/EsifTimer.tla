---- MODULE EsifTimer ----
(***************************************************************************)
(* The CCB timer manager: Common/esif_ccb_timer.c with its Linux           *)
(* implementation (Common/esif_ccb_timer_lin_user.h) and the pool of       *)
(* threads that deliver expired timers (ESIF_UF lin/main.c).               *)
(*                                                                         *)
(* An expired POSIX timer queues a SIGRTMIN that carries the callback      *)
(* handle of the "set" that armed it.  Any worker thread takes the signal  *)
(* and looks the callback handle up; the callback then runs with the       *)
(* manager lock released, while other threads set, kill and create timers. *)
(*                                                                         *)
(* Every section under g_tmrm.mgr_lock is one action.  An item is one      *)
(* esif_tmrm_item allocation and is used once, so a pointer that outlives  *)
(* its item shows as a reference to an item that is "freed".               *)
(***************************************************************************)
EXTENDS Naturals

CONSTANTS
    Items,           \* esif_tmrm_item allocations: bounds the timers created
    Clients,         \* threads calling the interface outside any callback
    Workers,         \* sigrtmin_worker_thread instances
    Exiter,          \* the thread that runs esif_ccb_tmrm_exit
    None,            \* "no item" (NULL)
    HandleModulus,   \* g_next_timer_handle counts modulo this (2^32)
    HandleRetries,   \* ESIF_CNT_HNDL_RETRIES_MAX
    MaxSets,         \* bound on successful set calls, below the wrap of the u32
                     \* g_next_timer_cb_handle
    CallbackMayWait  \* whether callbacks may call esif_ccb_timer_kill_w_wait

Threads == Clients \cup Workers \cup {Exiter}

ASSUME ConstantsAssumption ==
    /\ None \notin Items
    /\ Clients \cap Workers = {}
    /\ Exiter \notin Clients \cup Workers
    /\ HandleModulus \in Nat \ {0}
    /\ HandleRetries \in Nat \ {0}
    /\ MaxSets \in Nat
    /\ CallbackMayWait \in BOOLEAN

VARIABLES
    \* g_tmrm
    enabled, mgrMarked,
    \* g_next_timer_handle, g_next_timer_cb_handle
    nextHandle, nextCb,
    \* struct esif_tmrm_item, per item
    status,        \* life of the allocation: unborn, created, listed, freed
    handle, cbHandle, inCb, marked, destroyList,
    \* struct esif_timer_obj, per item
    setIsPending, objCb,
    armed,         \* cb handle the running OS timer will deliver, 0 = none
    armFailed,     \* result of the last attempt to arm it
    \* SIGRTMIN signals queued by the kernel, as the cb handles they carry
    signals,
    \* threads
    cbItem,        \* per worker: the item whose callback it runs, or None
    op,            \* per thread: the interface call it is inside
    opItem,        \* per thread: the item of that call, or None
    eventSet,      \* per thread: state of kill_w_wait's kill_event
    xpc, xHandle   \* esif_ccb_tmrm_exit: its position and cur_timer

mgrVars    == <<enabled, mgrMarked, nextHandle, nextCb>>
itemVars   == <<status, handle, cbHandle, inCb, marked, destroyList>>
objVars    == <<setIsPending, objCb, armed, armFailed>>
threadVars == <<cbItem, op, opItem, eventSet>>
exitVars   == <<xpc, xHandle>>
vars == <<mgrVars, itemVars, objVars, signals, threadVars, exitVars>>

Handles == 0 .. HandleModulus - 1

TypeOK ==
    /\ enabled \in BOOLEAN /\ mgrMarked \in BOOLEAN
    /\ nextHandle \in Handles /\ nextCb \in 0 .. MaxSets
    /\ status \in [Items -> {"unborn", "created", "listed", "freed"}]
    /\ handle \in [Items -> Handles]
    /\ cbHandle \in [Items -> 0 .. MaxSets]
    /\ inCb \in [Items -> BOOLEAN]
    /\ marked \in [Items -> BOOLEAN]
    /\ destroyList \in [Items -> SUBSET Threads]
    /\ setIsPending \in [Items -> BOOLEAN]
    /\ objCb \in [Items -> 0 .. MaxSets]
    /\ armed \in [Items -> 0 .. MaxSets]
    /\ armFailed \in [Items -> BOOLEAN]
    /\ signals \in SUBSET (1 .. MaxSets)
    /\ cbItem \in [Workers -> Items \cup {None}]
    /\ op \in [Threads -> {"none", "init", "kill_w_wait"}]
    /\ opItem \in [Threads -> Items \cup {None}]
    /\ eventSet \in [Threads -> BOOLEAN]
    /\ xpc \in {"off", "loop", "kill", "wait", "sleep"}
    /\ xHandle \in Handles

(* Module load: everything zero, the manager not yet initialised. *)
Init ==
    /\ enabled = FALSE /\ mgrMarked = FALSE
    /\ nextHandle = 0 /\ nextCb = 0
    /\ status = [i \in Items |-> "unborn"]
    /\ handle = [i \in Items |-> 0]
    /\ cbHandle = [i \in Items |-> 0]
    /\ inCb = [i \in Items |-> FALSE]
    /\ marked = [i \in Items |-> FALSE]
    /\ destroyList = [i \in Items |-> {}]
    /\ setIsPending = [i \in Items |-> FALSE]
    /\ objCb = [i \in Items |-> 0]
    /\ armed = [i \in Items |-> 0]
    /\ armFailed = [i \in Items |-> FALSE]
    /\ signals = {}
    /\ cbItem = [w \in Workers |-> None]
    /\ op = [t \in Threads |-> "none"]
    /\ opItem = [t \in Threads |-> None]
    /\ eventSet = [t \in Threads |-> FALSE]
    /\ xpc = "off" /\ xHandle = 0

----------------------------------------------------------------------------
(* Helpers *)

Listed == {i \in Items : status[i] = "listed"}

(* esif_ccb_tmrm_find_timer_node_wlock: the list walk by timer handle. *)
FindByHandle(h) == {i \in Listed : handle[i] = h}

(* esif_ccb_tmrm_find_timer_node_by_cb_wlock: the walk by callback handle. *)
FindByCb(c) == {i \in Listed : cbHandle[i] = c}

(* A thread that can enter the interface: a client between two calls, or a *)
(* worker from inside the callback it is running.                          *)
MayCall(t) ==
    /\ op[t] = "none"
    /\ t \in Clients \/ (t \in Workers /\ cbItem[t] # None)

(* esif_ccb_tmrm_destroy_timer_node_wlock, destroy_tmrm_item and           *)
(* timer_obj_destroy: the waiters in `wake' are signalled, the OS timer is *)
(* deleted and the node is unlinked and freed.                             *)
DestroyNode(i, wake) ==
    /\ status' = [status EXCEPT ![i] = "freed"]
    /\ destroyList' = [destroyList EXCEPT ![i] = {}]
    /\ armed' = [armed EXCEPT ![i] = 0]
    /\ eventSet' = [t \in Threads |-> eventSet[t] \/ t \in wake]

(* timer_obj_enable_timer arms the OS timer with the object's cb handle, or *)
(* fails in timer_create/timer_settime after deleting the previous timer.   *)
EnableTimer(i, c) ==
    \E fails \in BOOLEAN :
        /\ armFailed' = [armFailed EXCEPT ![i] = fails]
        /\ armed' = [armed EXCEPT ![i] = IF fails THEN 0 ELSE c]

----------------------------------------------------------------------------
(* Interface *)

(* esif_ccb_tmrm_init, also reached from is_ready on the first timer_init. *)
TmrmInit ==
    /\ ~enabled /\ ~mgrMarked
    /\ enabled' = TRUE
    /\ UNCHANGED <<mgrMarked, nextHandle, nextCb, itemVars, objVars, signals,
                   threadVars, exitVars>>

HandleInUse(h) == FindByHandle(h) # {}

(* The k-th candidate of the do-while in esif_ccb_tmrm_get_next_handle. *)
Candidate(k) == (nextHandle + k) % HandleModulus

(* timer_init up to and including get_next_handle, which takes and releases *)
(* the lock before the item is put on the list.  Bound: fewer than          *)
(* HandleModulus (2^32) handles are drawn while one timer_init is between   *)
(* the two, so the new handle is not one that another init is carrying.     *)
TimerInitGetHandle(t, i) ==
    /\ MayCall(t) /\ enabled /\ ~mgrMarked
    /\ status[i] = "unborn"
    /\ \/ \E k \in 1 .. HandleRetries :
            /\ ~HandleInUse(Candidate(k))
            /\ \A j \in 1 .. k - 1 : HandleInUse(Candidate(j))
            /\ \A u \in Threads :
                 op[u] = "init" => handle[opItem[u]] # Candidate(k)
            /\ nextHandle' = Candidate(k)
            /\ handle' = [handle EXCEPT ![i] = Candidate(k)]
            /\ status' = [status EXCEPT ![i] = "created"]
            /\ op' = [op EXCEPT ![t] = "init"]
            /\ opItem' = [opItem EXCEPT ![t] = i]
       \/ /\ \A k \in 1 .. HandleRetries : HandleInUse(Candidate(k))
          /\ nextHandle' = Candidate(HandleRetries)
          /\ status' = [status EXCEPT ![i] = "freed"]
          /\ UNCHANGED <<handle, op, opItem>>
    /\ UNCHANGED <<enabled, mgrMarked, nextCb, cbHandle, inCb, marked,
                   destroyList, objVars, signals, cbItem, eventSet, exitVars>>

(* The rest of timer_init: the item goes on the list, or is destroyed when *)
(* the list or its node cannot be allocated.                               *)
TimerInitAdd(t) ==
    /\ op[t] = "init"
    /\ \E s \in {"listed", "freed"} :
         status' = [status EXCEPT ![opItem[t]] = s]
    /\ op' = [op EXCEPT ![t] = "none"]
    /\ opItem' = [opItem EXCEPT ![t] = None]
    /\ UNCHANGED <<mgrVars, handle, cbHandle, inCb, marked, destroyList,
                   objVars, signals, cbItem, eventSet, exitVars>>

(* Fault: the event is not put on the list. *)
KillFound_NoWaiter(i, waiter) ==
    /\ marked' = [marked EXCEPT ![i] = TRUE]
    /\ IF inCb[i]
         THEN UNCHANGED <<status, destroyList, armed, eventSet>>
         ELSE DestroyNode(i, destroyList[i] \cup waiter)

(* Fault: the event is set without waiting. *)
KillFound_SignalEarly(i, waiter) ==
    /\ marked' = [marked EXCEPT ![i] = TRUE]
    /\ IF inCb[i]
         THEN /\ eventSet' = [t \in Threads |-> eventSet[t] \/ t \in waiter]
              /\ UNCHANGED <<status, armed, destroyList>>
         ELSE DestroyNode(i, destroyList[i] \cup waiter)

(* The body of kill_w_event for a timer that was found; `waiter' is the set *)
(* holding the thread whose kill_event is passed, empty for a plain kill.   *)
KillFound(i, waiter) ==
    /\ marked' = [marked EXCEPT ![i] = TRUE]
    /\ IF inCb[i]
         THEN /\ destroyList' = [destroyList EXCEPT ![i] = @ \cup waiter]
              /\ UNCHANGED <<status, armed, eventSet>>
         ELSE DestroyNode(i, destroyList[i] \cup waiter)

(* esif_ccb_timer_kill.  A handle that is not found changes nothing. *)
TimerKill(t, h) ==
    /\ MayCall(t) /\ enabled
    /\ \E i \in FindByHandle(h) : KillFound(i, {})
    /\ UNCHANGED <<mgrVars, handle, cbHandle, inCb, setIsPending, objCb,
                   armFailed, signals, cbItem, op, opItem, exitVars>>

(* esif_ccb_timer_kill_w_wait up to its wait on kill_event.  When the       *)
(* manager is disabled or the handle is not found, kill_w_event itself sets *)
(* the event.                                                               *)
KillWaitCall(t, h) ==
    /\ op' = [op EXCEPT ![t] = "kill_w_wait"]
    /\ \/ \E i \in FindByHandle(h) :
            /\ enabled
            /\ KillFound(i, {t})
            /\ opItem' = [opItem EXCEPT ![t] = i]
       \/ /\ ~enabled \/ FindByHandle(h) = {}
          /\ eventSet' = [eventSet EXCEPT ![t] = TRUE]
          /\ UNCHANGED <<opItem, marked, status, destroyList, armed>>
    /\ UNCHANGED <<mgrVars, handle, cbHandle, inCb, setIsPending, objCb,
                   armFailed, signals, cbItem>>

(* Its wait ends and the event is uninitialised. *)
KillWaitReturn(t) ==
    /\ op[t] = "kill_w_wait" /\ eventSet[t]
    /\ op' = [op EXCEPT ![t] = "none"]
    /\ opItem' = [opItem EXCEPT ![t] = None]
    /\ eventSet' = [eventSet EXCEPT ![t] = FALSE]
    /\ UNCHANGED <<mgrVars, itemVars, objVars, signals, cbItem>>

TimerKillWait(t, h) ==
    /\ MayCall(t)
    /\ t \in Workers => CallbackMayWait
    /\ KillWaitCall(t, h)
    /\ UNCHANGED exitVars

TimerKillWaitReturn(t) ==
    /\ t # Exiter
    /\ KillWaitReturn(t)
    /\ UNCHANGED exitVars

(* Fault: a set that replaces another keeps its cb handle. *)
TimerSet_SameCb(t, h) ==
    /\ MayCall(t) /\ enabled /\ nextCb < MaxSets
    /\ \E i \in FindByHandle(h) : LET c == IF cbHandle[i] = 0 THEN nextCb + 1 ELSE cbHandle[i] IN
         /\ ~marked[i]
         /\ nextCb' = IF cbHandle[i] = 0 THEN c ELSE nextCb
         /\ cbHandle' = [cbHandle EXCEPT ![i] = c]
         /\ objCb' = [objCb EXCEPT ![i] = c]
         /\ setIsPending' = [setIsPending EXCEPT ![i] = inCb[i]]
         /\ IF inCb[i] THEN UNCHANGED <<armed, armFailed>> ELSE EnableTimer(i, c)
    /\ UNCHANGED <<enabled, mgrMarked, nextHandle, status, handle, inCb, marked,
                   destroyList, signals, threadVars, exitVars>>

(* esif_ccb_timer_set_msec with a valid timeout: a new cb handle makes any  *)
(* earlier expiry stale; the OS timer is armed now, or left pending for the *)
(* end of the callback.  Bound: MaxSets calls.                              *)
TimerSet(t, h) ==
    /\ MayCall(t) /\ enabled /\ nextCb < MaxSets
    /\ nextCb' = nextCb + 1
    /\ \E i \in FindByHandle(h) :
         /\ ~marked[i]
         /\ cbHandle' = [cbHandle EXCEPT ![i] = nextCb + 1]
         /\ objCb' = [objCb EXCEPT ![i] = nextCb + 1]
         /\ setIsPending' = [setIsPending EXCEPT ![i] = inCb[i]]
         /\ IF inCb[i] THEN UNCHANGED <<armed, armFailed>> ELSE EnableTimer(i, nextCb + 1)
    /\ UNCHANGED <<enabled, mgrMarked, nextHandle, status, handle, inCb, marked,
                   destroyList, signals, threadVars, exitVars>>

----------------------------------------------------------------------------
(* Expiry and callback *)

(* The kernel: the one-shot timer expires and queues its signal, which      *)
(* stays queued even when the timer is deleted afterwards.                  *)
Expire(i) ==
    /\ armed[i] # 0
    /\ signals' = signals \cup {armed[i]}
    /\ armed' = [armed EXCEPT ![i] = 0]
    /\ UNCHANGED <<mgrVars, itemVars, setIsPending, objCb, armFailed, threadVars,
                   exitVars>>

(* sigrtmin_worker_thread takes a signal and esif_ccb_tmrm_callback finds   *)
(* the set it belongs to: the callback starts, the lock is released.        *)
CallbackEnter(w, c) ==
    /\ cbItem[w] = None /\ c \in signals
    /\ signals' = signals \ {c}
    /\ \E i \in FindByCb(c) :
         /\ cbHandle' = [cbHandle EXCEPT ![i] = 0]
         /\ inCb' = [inCb EXCEPT ![i] = TRUE]
         /\ cbItem' = [cbItem EXCEPT ![w] = i]
    /\ UNCHANGED <<mgrVars, status, handle, marked, destroyList, objVars, op,
                   opItem, eventSet, exitVars>>

(* The same with no match: the timer was set again, or killed. *)
CallbackStale(w, c) ==
    /\ cbItem[w] = None /\ c \in signals
    /\ FindByCb(c) = {}
    /\ signals' = signals \ {c}
    /\ UNCHANGED <<mgrVars, itemVars, objVars, threadVars, exitVars>>

(* Fault: a pending set is forgotten. *)
CallbackExit_NoPending(w) ==
    /\ cbItem[w] # None /\ op[w] = "none"
    /\ LET i == cbItem[w] IN
       /\ inCb' = [inCb EXCEPT ![i] = FALSE]
       /\ cbItem' = [cbItem EXCEPT ![w] = None]
       /\ IF marked[i]
            THEN DestroyNode(i, destroyList[i]) /\ UNCHANGED <<setIsPending, armFailed>>
            ELSE /\ setIsPending' = [setIsPending EXCEPT ![i] = FALSE]
                 /\ UNCHANGED <<status, destroyList, eventSet, armed, armFailed>>
    /\ UNCHANGED <<mgrVars, handle, cbHandle, marked, objCb, signals, op,
                   opItem, exitVars>>

(* Fault: the delete mark is not looked at. *)
CallbackExit_NoDestroy(w) ==
    /\ cbItem[w] # None /\ op[w] = "none"
    /\ LET i == cbItem[w] IN
       /\ inCb' = [inCb EXCEPT ![i] = FALSE]
       /\ cbItem' = [cbItem EXCEPT ![w] = None]
    /\ UNCHANGED <<mgrVars, status, handle, cbHandle, marked, destroyList,
                   objVars, signals, op, opItem, eventSet, exitVars>>

(* The callback returned; the second locked section of tmrm_callback. *)
CallbackExit(w) ==
    /\ cbItem[w] # None /\ op[w] = "none"
    /\ LET i == cbItem[w] IN
       /\ inCb' = [inCb EXCEPT ![i] = FALSE]
       /\ cbItem' = [cbItem EXCEPT ![w] = None]
       /\ IF marked[i]
            THEN DestroyNode(i, destroyList[i]) /\ UNCHANGED <<setIsPending, armFailed>>
            ELSE /\ setIsPending' = [setIsPending EXCEPT ![i] = FALSE]
                 /\ IF setIsPending[i] THEN EnableTimer(i, objCb[i])
                                       ELSE UNCHANGED <<armed, armFailed>>
                 /\ UNCHANGED <<status, destroyList, eventSet>>
    /\ UNCHANGED <<mgrVars, handle, cbHandle, marked, objCb, signals, op,
                   opItem, exitVars>>

----------------------------------------------------------------------------
(* esif_ccb_tmrm_exit.  Its comment requires that no timer_init is in      *)
(* flight when it is called.                                               *)
TmrmExit ==
    /\ xpc = "off" /\ enabled
    /\ \A t \in Threads : op[t] # "init"
    /\ mgrMarked' = TRUE
    /\ xpc' = "loop"
    /\ UNCHANGED <<enabled, nextHandle, nextCb, itemVars, objVars, signals,
                   threadVars, xHandle>>

(* esif_ccb_tmrm_get_first_timer; which timer is at the head is left open. *)
ExitGetFirst ==
    /\ xpc = "loop"
    /\ \/ \E i \in Listed : xHandle' = handle[i] /\ xpc' = "kill"
       \/ Listed = {} /\ xpc' = "sleep" /\ UNCHANGED xHandle
    /\ UNCHANGED <<mgrVars, itemVars, objVars, signals, threadVars>>

ExitKill ==
    /\ xpc = "kill" /\ xpc' = "wait"
    /\ KillWaitCall(Exiter, xHandle)
    /\ UNCHANGED xHandle

ExitKillReturn ==
    /\ xpc = "wait" /\ xpc' = "loop"
    /\ KillWaitReturn(Exiter)
    /\ UNCHANGED xHandle

(* The end of tmrm_exit destroys the lock.  ESIF_TIMER_DISABLE_DELAY is     *)
(* taken as long enough for the queued signals to be consumed, as its       *)
(* comment intends.                                                         *)
ExitFinish ==
    /\ xpc = "sleep" /\ signals = {}
    /\ enabled' = FALSE /\ mgrMarked' = FALSE
    /\ xpc' = "off"
    /\ UNCHANGED <<nextHandle, nextCb, itemVars, objVars, signals, threadVars,
                   xHandle>>

----------------------------------------------------------------------------
Callers == Clients \cup Workers

(* The allocation the next timer_init gets.  Allocations differ in nothing, *)
(* so it does not matter which of the unused ones it is.                    *)
NextItem == IF \E i \in Items : status[i] = "unborn"
              THEN CHOOSE i \in Items : status[i] = "unborn" ELSE None

Next ==
    \/ TmrmInit
    \/ \E t \in Callers, i \in Items : i = NextItem /\ TimerInitGetHandle(t, i)
    \/ \E t \in Callers : TimerInitAdd(t) \/ TimerKillWaitReturn(t)
    \/ \E t \in Callers, h \in Handles :
         TimerKill(t, h) \/ TimerKillWait(t, h) \/ TimerSet(t, h)
    \/ \E i \in Items : Expire(i)
    \/ \E w \in Workers, c \in 1 .. MaxSets : CallbackEnter(w, c) \/ CallbackStale(w, c)
    \/ \E w \in Workers : CallbackExit(w)
    \/ TmrmExit \/ ExitGetFirst \/ ExitKill \/ ExitKillReturn \/ ExitFinish

Spec == Init /\ [][Next]_vars

(* Fairness: the kernel fires armed timers and some worker takes each       *)
(* queued signal; callbacks terminate and threads that are not blocked      *)
(* proceed.  Clients are never obliged to call anything.                    *)
Fairness ==
    /\ \A i \in Items : WF_vars(Expire(i))
    /\ \A c \in 1 .. MaxSets :
         WF_vars(\E w \in Workers : CallbackEnter(w, c) \/ CallbackStale(w, c))
    /\ \A w \in Workers : WF_vars(CallbackExit(w))
    /\ \A t \in Callers : WF_vars(TimerInitAdd(t)) /\ WF_vars(TimerKillWaitReturn(t))
    /\ WF_vars(ExitGetFirst \/ ExitKill \/ ExitKillReturn \/ ExitFinish)

FairSpec == Spec /\ Fairness

----------------------------------------------------------------------------
(* Properties *)

(* No timer's callback is run by two worker threads at once, although a     *)
(* timer can be re-armed while its callback runs and expiries that could    *)
(* not be cancelled are still delivered ("so that you do not handle         *)
(* multiple threads associated with a single timer").                       *)
OneCallbackPerTimer ==
    \A v, w \in Workers : v # w /\ cbItem[v] # None => cbItem[v] # cbItem[w]

(* "The item and node pointers will still be valid as the node will not be  *)
(* removed while in the callback function": the item a worker will touch    *)
(* when its callback returns has not been freed by a kill meanwhile.        *)
CallbackItemLive ==
    \A w \in Workers : cbItem[w] # None => status[cbItem[w]] = "listed"

(* kill_w_wait "does not return until the callback is complete or timer is  *)
(* cancelled": once the caller's event is set, the timer it killed is gone, *)
(* no worker is in its callback and no OS timer is armed for it.            *)
KillWaitIsSynchronous ==
    \A t \in Threads : eventSet[t] /\ opItem[t] # None =>
        /\ status[opItem[t]] = "freed"
        /\ \A w \in Workers : cbItem[w] # opItem[t]
        /\ armed[opItem[t]] = 0

(* A thread blocked in kill_w_wait is on the destroy list of a timer that   *)
(* some worker is running, so the end of that callback will release it.     *)
WaitersWillBeSignalled ==
    \A t \in Threads : op[t] = "kill_w_wait" /\ ~eventSet[t] =>
        /\ t \in destroyList[opItem[t]]
        /\ marked[opItem[t]]
        /\ \E w \in Workers : cbItem[w] = opItem[t]

(* An event on a destroy list is the kill_event of a kill_w_wait that is    *)
(* still blocked on this timer: the list never keeps a pointer into the     *)
(* stack frame of a call that has returned, and no event is set twice.      *)
DestroyListValid ==
    \A i \in Items : \A t \in destroyList[i] :
        op[t] = "kill_w_wait" /\ opItem[t] = i /\ ~eventSet[t]

(* Two live timers never have the same handle, even after the 32-bit        *)
(* counter has wrapped around to the handle of a long-lived timer.          *)
HandlesUnique ==
    \A i, j \in Listed : handle[i] = handle[j] => i = j

(* A signal that a worker acts on is the latest set of its timer: a callback *)
(* starts only for a timer that is not marked for delete, not already in its *)
(* callback and not armed for a later expiry.                                *)
CallbackStartsFresh ==
    [][\A w \in Workers : cbItem[w] = None /\ cbItem'[w] # None =>
         LET i == cbItem'[w] IN
         ~marked[i] /\ ~inCb[i] /\ armed[i] = 0 /\ ~setIsPending[i]]_vars

(* A set is never lost: until its callback starts, a timer that was set and *)
(* not killed is armed for exactly that set, or has its signal queued, or   *)
(* is in its callback with the set left pending for when it returns; only   *)
(* the operating system's refusal to arm the timer loses it.                *)
SetIsNotLost ==
    \A i \in Listed : cbHandle[i] # 0 =>
        IF inCb[i] THEN setIsPending[i] /\ objCb[i] = cbHandle[i]
                   ELSE armFailed[i] \/ armed[i] = cbHandle[i] \/ cbHandle[i] \in signals

(* The inductive invariant behind the properties above. *)

(* An item that is not on the list yet is blank. *)
UnlistedIsBlank ==
    \A i \in Items : status[i] \in {"unborn", "created"} =>
        /\ cbHandle[i] = 0 /\ ~inCb[i] /\ ~marked[i]
        /\ destroyList[i] = {} /\ ~setIsPending[i]

(* is_in_cb is set exactly while a worker is in the callback. *)
InCbMeansWorker ==
    /\ \A w \in Workers : cbItem[w] # None => inCb[cbItem[w]]
    /\ \A i \in Items : inCb[i] => \E w \in Workers : cbItem[w] = i

(* Callback handles are issued once and identify one set of one timer. *)
CbHandlesFresh ==
    /\ \A i \in Items : cbHandle[i] <= nextCb
    /\ \A c \in signals : c <= nextCb
    /\ \A i, j \in Items : cbHandle[i] # 0 /\ cbHandle[i] = cbHandle[j] => i = j

(* A running OS timer belongs to the latest set of a live timer outside its *)
(* callback, and that set's signal is not queued as well.                   *)
ArmedForLatestSet ==
    \A i \in Items : armed[i] # 0 =>
        /\ status[i] = "listed" /\ ~inCb[i]
        /\ armed[i] = cbHandle[i] /\ armed[i] \notin signals

(* What a timer in its callback may look like; nobody else is pending or    *)
(* marked.                                                                  *)
PendingOnlyInCallback ==
    \A i \in Items :
        /\ inCb[i] => cbHandle[i] \notin signals
        /\ status[i] = "listed" /\ marked[i] => inCb[i]
        /\ status[i] = "listed" /\ setIsPending[i] => inCb[i] /\ cbHandle[i] # 0

(* A thread outside any call holds no item and no set event. *)
IdleCallsClean ==
    \A t \in Threads : op[t] = "none" => opItem[t] = None /\ ~eventSet[t]

(* A timer_init in progress carries an item that is not on the list, and    *)
(* every such item is carried by one.                                       *)
InitCallsCarryItem ==
    /\ \A t \in Threads : op[t] = "init" =>
         opItem[t] \in Items /\ status[opItem[t]] = "created" /\ ~eventSet[t]
    /\ \A t, u \in Threads :
         op[t] = "init" /\ op[u] = "init" /\ opItem[t] = opItem[u] => t = u
    /\ \A i \in Items : status[i] = "created" =>
         \E t \in Threads : op[t] = "init" /\ opItem[t] = i

(* A kill_w_wait has been signalled and its timer is gone, or it is on the  *)
(* destroy list of a marked timer in its callback.                          *)
WaitCallsOnList ==
    \A t \in Threads : op[t] = "kill_w_wait" =>
        IF eventSet[t]
          THEN opItem[t] # None => status[opItem[t]] = "freed"
          ELSE /\ opItem[t] \in Items
               /\ status[opItem[t]] = "listed"
               /\ t \in destroyList[opItem[t]]
               /\ marked[opItem[t]] /\ inCb[opItem[t]]

(* The exiting thread is inside kill_w_wait exactly at its wait. *)
ExiterCalls == op[Exiter] = IF xpc = "wait" THEN "kill_w_wait" ELSE "none"

(* Handles of live timers and of timers being created are distinct. *)
LiveHandlesUnique ==
    \A i, j \in Items :
        /\ status[i] \in {"created", "listed"}
        /\ status[j] \in {"created", "listed"}
        /\ handle[i] = handle[j]
        => i = j

TimerInvariant ==
    /\ OneCallbackPerTimer /\ CallbackItemLive
    /\ UnlistedIsBlank /\ InCbMeansWorker
    /\ CbHandlesFresh /\ ArmedForLatestSet /\ PendingOnlyInCallback
    /\ IdleCallsClean /\ InitCallsCarryItem /\ WaitCallsOnList /\ ExiterCalls
    /\ DestroyListValid
    /\ LiveHandlesUnique /\ SetIsNotLost

----------------------------------------------------------------------------
(* Callbacks that do not themselves wait for timers: one that waits for its *)
(* own timer, or for one whose callback waits for its, waits for ever.      *)
CallbacksDoNotWait == \A w \in Workers : op[w] # "kill_w_wait"

(* As long as no callback waits, every kill_w_wait returns. *)
KillWaitReturns ==
    []CallbacksDoNotWait =>
        \A t \in Threads : op[t] = "kill_w_wait" ~> op[t] # "kill_w_wait"

(* Under the same condition esif_ccb_tmrm_exit terminates, with every timer *)
(* destroyed.                                                               *)
ExitCompletes ==
    []CallbacksDoNotWait => (xpc # "off" ~> xpc = "off" /\ Listed = {})
====
