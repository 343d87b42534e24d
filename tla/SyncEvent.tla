---- MODULE SyncEvent ----
(***************************************************************************)
(* Synchronous events of the ESIF event manager (ESIF_UF,                  *)
(* esif_uf_eventmgr.c): EsifEventMgr_SignalSynchronousEvent queues an      *)
(* event with a context on the heap and waits on the context's completion  *)
(* event until the event thread has processed it or a timer expires        *)
(* (esif_uf_ccb_timedwait.h).  The signalling thread and the event thread  *)
(* share the context; the last one to finish with it frees it.  The timer  *)
(* callback uses it too, and is not part of that agreement.                *)
(*                                                                         *)
(* A call has its own context and signalling thread; the event thread      *)
(* takes the calls from one queue.  Sections under a lock are one action.  *)
(* No name is one of EventManager's, so that both can be extended together.*)
(***************************************************************************)
EXTENDS Integers, Sequences, SequencesExt

CONSTANTS
    Calls,     \* calls of EsifEventMgr_SignalSynchronousEvent
    NoCall

ASSUME SyncAssumption == NoCall \notin Calls

VARIABLES
    ctx, useComplete,        \* per call: memory of the context, its flag
    signaled, waiters, sem,  \* per call: completionEvent
    spc,                     \* per call: position of the signalling thread
    timer, fired,            \* per call: the wait timer; history: it has expired
    queue, loopPc, eCall     \* event queue; event thread

ctxVars == <<ctx, useComplete>>
completionVars == <<signaled, waiters, sem>>
timerVars == <<timer, fired>>
loopVars == <<queue, loopPc, eCall>>
syncVars == <<ctxVars, completionVars, spc, timerVars, loopVars>>

SyncTypeOK ==
    /\ ctx \in [Calls -> {"none", "live", "freed"}]
    /\ useComplete \in [Calls -> BOOLEAN]
    /\ signaled \in [Calls -> BOOLEAN]
    /\ waiters \in [Calls -> 0 .. 1] /\ sem \in [Calls -> 0 .. 1]
    /\ spc \in [Calls -> {"idle", "timer", "wait", "down", "kill", "destroy", "returned"}]
    /\ timer \in [Calls -> {"off", "armed", "callback"}]
    /\ fired \in [Calls -> BOOLEAN]
    /\ queue \in Seq(Calls)
    /\ loopPc \in {"idle", "process", "destroy", "stopped"}
    /\ eCall \in Calls \cup {NoCall}

SyncInit ==
    /\ ctx = [c \in Calls |-> "none"] /\ useComplete = [c \in Calls |-> FALSE]
    /\ signaled = [c \in Calls |-> FALSE]
    /\ waiters = [c \in Calls |-> 0] /\ sem = [c \in Calls |-> 0]
    /\ spc = [c \in Calls |-> "idle"]
    /\ timer = [c \in Calls |-> "off"] /\ fired = [c \in Calls |-> FALSE]
    /\ queue = <<>> /\ loopPc = "idle" /\ eCall = NoCall

----------------------------------------------------------------------------
(* Fault: the context is freed by the first to finish. *)
DestroyContext_First(c) ==
    /\ ctx' = [ctx EXCEPT ![c] = "freed"]
    /\ UNCHANGED useComplete

(* Fault: the first to finish does not say so. *)
DestroyContext_NoFlag(c) ==
    /\ ctx' = [ctx EXCEPT ![c] = IF useComplete[c] THEN "freed" ELSE @]
    /\ UNCHANGED useComplete

(* DestroySynchronizationContext: the first call leaves its mark, the second *)
(* one frees the context.                                                    *)
DestroyContext(c) ==
    /\ ctx' = [ctx EXCEPT ![c] = IF useComplete[c] THEN "freed" ELSE @]
    /\ useComplete' = [useComplete EXCEPT ![c] = TRUE]

(* Fault: the flag is set and the waiter forgotten. *)
EventSet_NoToken(c) ==
    /\ signaled' = [signaled EXCEPT ![c] = TRUE]
    /\ UNCHANGED <<sem, waiters>>

(* esif_ccb_event_set on the completion event. *)
EventSet(c) ==
    /\ signaled' = [signaled EXCEPT ![c] = TRUE]
    /\ sem' = [sem EXCEPT ![c] = @ + waiters[c]]
    /\ waiters' = [waiters EXCEPT ![c] = 0]

----------------------------------------------------------------------------
(* The signalling thread *)

(* The context is created and SignalEvent_Local queues the event; or it     *)
(* fails (the event is filtered, no memory), sets the event and gives up    *)
(* the event thread's share of the context.                                 *)
Signal(c) ==
    /\ spc[c] = "idle"
    /\ spc' = [spc EXCEPT ![c] = "timer"]
    /\ ctx' = [ctx EXCEPT ![c] = "live"]
    /\ \/ queue' = Append(queue, c) /\ UNCHANGED <<completionVars, useComplete>>
       \/ /\ EventSet(c)
          /\ useComplete' = [useComplete EXCEPT ![c] = TRUE]
          /\ UNCHANGED queue
    /\ UNCHANGED <<timerVars, loopPc, eCall>>

(* EsifTimedEventWait sets its timer; if it cannot, it does not wait. *)
SetTimer(c) ==
    /\ spc[c] = "timer"
    /\ \/ /\ timer' = [timer EXCEPT ![c] = "armed"]
          /\ spc' = [spc EXCEPT ![c] = "wait"]
       \/ spc' = [spc EXCEPT ![c] = "destroy"] /\ UNCHANGED timer
    /\ UNCHANGED <<ctxVars, completionVars, fired, loopVars>>

(* esif_ccb_event_wait: its locked section, then the semaphore. *)
Wait(c) ==
    /\ spc[c] = "wait"
    /\ IF signaled[c]
         THEN spc' = [spc EXCEPT ![c] = "kill"] /\ UNCHANGED waiters
         ELSE /\ spc' = [spc EXCEPT ![c] = "down"]
              /\ waiters' = [waiters EXCEPT ![c] = @ + 1]
    /\ UNCHANGED <<ctxVars, signaled, sem, timerVars, loopVars>>

Down(c) ==
    /\ spc[c] = "down" /\ sem[c] > 0
    /\ sem' = [sem EXCEPT ![c] = @ - 1]
    /\ spc' = [spc EXCEPT ![c] = "kill"]
    /\ UNCHANGED <<ctxVars, signaled, waiters, timerVars, loopVars>>

(* esif_ccb_timer_kill, which does not wait for a callback in progress. *)
KillTimer(c) ==
    /\ spc[c] = "kill"
    /\ timer' = [timer EXCEPT ![c] = IF @ = "callback" THEN @ ELSE "off"]
    /\ spc' = [spc EXCEPT ![c] = "destroy"]
    /\ UNCHANGED <<ctxVars, completionVars, fired, loopVars>>

Return(c) ==
    /\ spc[c] = "destroy"
    /\ DestroyContext(c)
    /\ spc' = [spc EXCEPT ![c] = "returned"]
    /\ UNCHANGED <<completionVars, timerVars, loopVars>>

----------------------------------------------------------------------------
(* The timer thread *)

TimerExpires(c) ==
    /\ timer[c] = "armed"
    /\ timer' = [timer EXCEPT ![c] = "callback"]
    /\ fired' = [fired EXCEPT ![c] = TRUE]
    /\ UNCHANGED <<ctxVars, completionVars, spc, loopVars>>

(* EsifTimedEventWaitTimerCb: esif_ccb_event_release_waiters. *)
TimerCallback(c) ==
    /\ timer[c] = "callback"
    /\ timer' = [timer EXCEPT ![c] = "off"]
    /\ sem' = [sem EXCEPT ![c] = @ + waiters[c]]
    /\ waiters' = [waiters EXCEPT ![c] = 0]
    /\ UNCHANGED <<ctxVars, signaled, spc, fired, loopVars>>

----------------------------------------------------------------------------
(* The event thread *)

EventDequeue ==
    /\ loopPc = "idle" /\ queue # <<>>
    /\ loopPc' = "process"
    /\ eCall' = Head(queue)
    /\ queue' = Tail(queue)
    /\ UNCHANGED <<ctxVars, completionVars, spc, timerVars>>

(* The event has been processed: the waiter is released ... *)
EventProcessed ==
    /\ loopPc = "process"
    /\ EventSet(eCall)
    /\ loopPc' = "destroy"
    /\ UNCHANGED <<ctxVars, spc, timerVars, queue, eCall>>

(* ... and the event thread's share of the context given up. *)
EventRelease ==
    /\ loopPc = "destroy"
    /\ DestroyContext(eCall)
    /\ loopPc' = "idle" /\ eCall' = NoCall
    /\ UNCHANGED <<completionVars, spc, timerVars, queue>>

(* EsifEventMgr_Disable: the thread leaves its loop; queued events are      *)
(* freed later by QueueDestroyCallback, which ignores their contexts.       *)
EventThreadStops ==
    /\ loopPc = "idle"
    /\ loopPc' = "stopped"
    /\ UNCHANGED <<ctxVars, completionVars, spc, timerVars, queue, eCall>>

QueueDestroy ==
    /\ loopPc = "stopped" /\ queue # <<>>
    /\ queue' = <<>>
    /\ UNCHANGED <<ctxVars, completionVars, spc, timerVars, loopPc, eCall>>

----------------------------------------------------------------------------
SignallerStep(c) == SetTimer(c) \/ Wait(c) \/ Down(c) \/ KillTimer(c) \/ Return(c)

TimerStep(c) == TimerExpires(c) \/ TimerCallback(c)

LoopStep == EventDequeue \/ EventProcessed \/ EventRelease \/ QueueDestroy

SyncNext ==
    \/ \E c \in Calls : Signal(c) \/ SignallerStep(c) \/ TimerStep(c)
    \/ LoopStep \/ EventThreadStops

SyncSpec == SyncInit /\ [][SyncNext]_syncVars

(* Fairness: threads that are not blocked proceed, observers return, timers *)
(* expire.                                                                  *)
SyncFairness ==
    /\ \A c \in Calls : WF_syncVars(SignallerStep(c)) /\ WF_syncVars(TimerStep(c))
    /\ WF_syncVars(LoopStep)

SyncFairSpec == SyncSpec /\ SyncFairness

----------------------------------------------------------------------------
(* Properties *)

(* The signalling thread between creating and giving up the context, and    *)
(* the event with it in the queue or in the event thread's hands.           *)
SignallerUses(c) == spc[c] \in {"timer", "wait", "down", "kill", "destroy"}
EventUses(c) == c \in ToSet(queue) \/ eCall = c

(* Neither thread finds the context freed by the other, in whatever order   *)
(* they finish.                                                             *)
UsersHaveContext ==
    \A c \in Calls : SignallerUses(c) \/ EventUses(c) => ctx[c] = "live"

(* When both have finished, the context has been freed. *)
ContextNotLeaked ==
    \A c \in Calls :
        ~SignallerUses(c) /\ ~EventUses(c) /\ loopPc # "stopped" => ctx[c] # "live"

(* The call stops waiting because the event was processed (or could not be  *)
(* queued), or because the time was up.                                     *)
ReturnsForAReason == \A c \in Calls : spc[c] = "kill" => signaled[c] \/ fired[c]

(* The inductive invariant behind the properties above. *)

(* A call is in the event thread's hands once: at one place of the queue,   *)
(* or being processed.                                                      *)
QueuedOnce ==
    /\ \A j, k \in DOMAIN queue : j # k => queue[j] # queue[k]
    /\ eCall \notin ToSet(queue)
    /\ eCall # NoCall <=> loopPc \in {"process", "destroy"}

(* The flag says that one of the two owners has finished and the other has  *)
(* not; a stopped event thread never gives its share up.                    *)
SharesAgree ==
    \A c \in Calls :
        /\ spc[c] = "idle" => ctx[c] = "none" /\ ~useComplete[c] /\ ~EventUses(c)
        /\ SignallerUses(c) =>
             /\ ctx[c] = "live"
             /\ useComplete[c] => ~EventUses(c)
             /\ ~EventUses(c) => useComplete[c] \/ loopPc = "stopped"
        /\ spc[c] = "returned" =>
             /\ EventUses(c) => ctx[c] = "live" /\ useComplete[c]
             /\ ~EventUses(c) => ctx[c] = "freed" \/ loopPc = "stopped"

(* A thread that sleeps on the semaphore, and no other, is counted as a     *)
(* waiter or has its token, which was given for a reason.                   *)
WaitsAgree ==
    \A c \in Calls :
        /\ waiters[c] + sem[c] = IF spc[c] = "down" THEN 1 ELSE 0
        /\ sem[c] > 0 => signaled[c] \/ fired[c]
        /\ timer[c] = "callback" => fired[c]

SyncInvariant == QueuedOnce /\ SharesAgree /\ WaitsAgree /\ ReturnsForAReason

(* The timer callback finds the context of the call that set the timer: the *)
(* plain kill used here makes no such promise, "if synchronous destruction  *)
(* is required, use esif_ccb_timer_kill_w_wait".                            *)
TimerFindsContext == \A c \in Calls : timer[c] = "callback" => ctx[c] = "live"

(* Every call returns - the event is processed "for up to the specified wait *)
(* time" - as long as the event thread runs.                                 *)
SignallerReturns ==
    \A c \in Calls : spc[c] # "idle" ~> spc[c] = "returned" \/ loopPc = "stopped"

(* Every context is freed in the end, as long as the event thread runs. *)
ContextsFreed ==
    \A c \in Calls : ctx[c] = "live" ~> ctx[c] = "freed" \/ loopPc = "stopped"
====
