---- MODULE EventManager ----
(***************************************************************************)
(* The observer registry of the ESIF event manager (ESIF_UF,               *)
(* esif_uf_eventmgr.c) for one event list: registration with reference     *)
(* counts, delivery by the event thread with the list lock released during *)
(* each callback, removal of a whole application, and the garbage list on  *)
(* which removed entries wait to be disabled and freed.                    *)
(*                                                                         *)
(* Every section under listLock is one action.  An entry is one allocation *)
(* with its list node and is used once.  Where the code would follow a     *)
(* pointer to a node or an entry that has been freed, the model sets       *)
(* `undefined' and stops.                                                  *)
(***************************************************************************)
EXTENDS Integers, Sequences, SequencesExt, FiniteSets

CONSTANTS
    Clients,          \* threads that register and unregister
    EventThread,      \* EsifEventMgr_EventQueueThread
    None,
    Entries,          \* EventMgrEntry allocations; bounds the registrations
    Observers,        \* (participant, domain, callback, context) registered
    AppObservers,     \* the ones with the callback and handle of one application
    MayUse,           \* per thread, the observers it registers
    MaxHeld,          \* bound on the registrations of one observer
    Disturbances      \* what may happen besides registering and releasing:
                      \* "app" (UnregisterAllForApp), "enable" (EnableEvent
                      \* fails)

Threads == Clients \cup {EventThread}

ASSUME EventManagerAssumption ==
    /\ EventThread \notin Clients /\ None \notin Entries \cup Observers
    /\ AppObservers \subseteq Observers
    /\ MayUse \in [Threads -> SUBSET Observers]
    /\ MaxHeld \in Nat
    /\ Disturbances \subseteq {"app", "enable"}

(* An observer is registered and released by the component whose callback it *)
(* is, from one thread.  (Two threads that register an unknown observer at   *)
(* the same time would both add an entry for it.)                            *)
ASSUME OneRegistrar ==
    \A t, u \in Threads : t # u => MayUse[t] \cap MayUse[u] = {}

VARIABLES
    list,              \* observerLists[i]: the entries, in order
    garbage,           \* garbageList
    obs, refCount, inUse, marked, mem,   \* EventMgrEntry, and its memory
    pc, tEntry, tObs,  \* per thread: position in a call, and its entry, observer
    epc, cur, dump,    \* ProcessEvent: position, nodePtr, shouldDumpGarbage
    undefined,         \* freed memory was used
    held,              \* history: registrations that returned and still count
    eligible, called   \* history: observers due this event, observers called

entryVars  == <<obs, refCount, inUse, marked, mem>>
callVars   == <<pc, tEntry, tObs>>
eventVars  == <<epc, cur, dump>>
ghostVars  == <<held, eligible, called>>
vars == <<list, garbage, entryVars, callVars, eventVars, undefined, ghostVars>>

TypeOK ==
    /\ list \in Seq(Entries) /\ garbage \in Seq(Entries)
    /\ obs \in [Entries -> Observers \cup {None}]
    /\ refCount \in [Entries -> 0 .. MaxHeld + 2]
    /\ inUse \in [Entries -> BOOLEAN] /\ marked \in [Entries -> BOOLEAN]
    /\ mem \in [Entries -> {"unborn", "live", "freed", "misfreed"}]
    /\ pc \in [Threads -> {"idle", "create", "enable", "failNew", "failOld", "dump",
                           "free"}]
    /\ tEntry \in [Threads -> Entries \cup {None}]
    /\ tObs \in [Threads -> Observers \cup {None}]
    /\ epc \in {"idle", "callback", "end"} /\ cur \in Entries \cup {None}
    /\ dump \in BOOLEAN /\ undefined \in BOOLEAN
    /\ held \in [Observers -> 0 .. MaxHeld]
    /\ eligible \subseteq Observers /\ called \subseteq Observers

Init ==
    /\ list = <<>> /\ garbage = <<>>
    /\ obs = [e \in Entries |-> None]
    /\ refCount = [e \in Entries |-> 0]
    /\ inUse = [e \in Entries |-> FALSE] /\ marked = [e \in Entries |-> FALSE]
    /\ mem = [e \in Entries |-> "unborn"]
    /\ pc = [t \in Threads |-> "idle"]
    /\ tEntry = [t \in Threads |-> None] /\ tObs = [t \in Threads |-> None]
    /\ epc = "idle" /\ cur = None /\ dump = FALSE
    /\ undefined = FALSE
    /\ held = [o \in Observers |-> 0]
    /\ eligible = {} /\ called = {}

----------------------------------------------------------------------------
(* A thread that can call the interface: a client between two calls, the    *)
(* event thread from inside a callback.                                     *)
MayCall(t) ==
    /\ pc[t] = "idle"
    /\ t = EventThread => epc = "callback"

Matches(o) == {e \in ToSet(list) : obs[e] = o}

(* The first match of the list walk, or None. *)
Find(o) ==
    LET hits == {k \in DOMAIN list : obs[list[k]] = o}
    IN  IF hits = {} THEN None ELSE list[CHOOSE k \in hits : \A j \in hits : k <= j]

(* The entries of S in a list, in its order: what a walk over it picks. *)
Among(s, S) ==
    LET picked[n \in 0 .. Len(s)] ==
            IF n = 0 THEN <<>>
            ELSE IF s[n] \notin S THEN picked[n - 1]
            ELSE Append(picked[n - 1], s[n])
    IN  picked[Len(s)]

Position(e) == CHOOSE k \in DOMAIN list : list[k] = e

Go(t, where, e) ==
    /\ pc' = [pc EXCEPT ![t] = where]
    /\ tEntry' = [tEntry EXCEPT ![t] = e]

(* What follows a use of freed memory is not modelled. *)
GoesWrong ==
    /\ undefined' = TRUE
    /\ UNCHANGED <<list, garbage, entryVars, callVars, eventVars, ghostVars>>

----------------------------------------------------------------------------
(* EsifEventMgr_AddEntry *)

(* The first locked section: a known observer is counted once more, or, when *)
(* marked for delete, the call will fail.                                    *)
RegisterKnown(t, o) ==
    /\ MayCall(t) /\ o \in MayUse[t] /\ held[o] < MaxHeld
    /\ Find(o) # None
    /\ \/ /\ ~marked[Find(o)]
          /\ refCount' = [refCount EXCEPT ![Find(o)] = @ + 1]
          /\ held' = [held EXCEPT ![o] = @ + 1]
          /\ UNCHANGED <<pc, tEntry>>
       \/ /\ marked[Find(o)]
          /\ Go(t, "failOld", Find(o))
          /\ UNCHANGED <<refCount, held>>
    /\ UNCHANGED <<list, garbage, obs, inUse, marked, mem, tObs, eventVars, undefined,
                   eligible, called>>

RegisterUnknown(t, o) ==
    /\ MayCall(t) /\ o \in MayUse[t] /\ held[o] < MaxHeld
    /\ Find(o) = None
    /\ pc' = [pc EXCEPT ![t] = "create"]
    /\ tObs' = [tObs EXCEPT ![t] = o]
    /\ UNCHANGED <<list, garbage, entryVars, tEntry, eventVars, undefined, ghostVars>>

(* A new entry goes on the list before its event is enabled. *)
RegisterAdd(t, e) ==
    /\ pc[t] = "create" /\ mem[e] = "unborn"
    /\ mem' = [mem EXCEPT ![e] = "live"]
    /\ obs' = [obs EXCEPT ![e] = tObs[t]]
    /\ refCount' = [refCount EXCEPT ![e] = 1]
    /\ list' = Append(list, e)
    /\ Go(t, "enable", e)
    /\ UNCHANGED <<garbage, inUse, marked, tObs, eventVars, undefined, ghostVars>>

(* No memory for the entry or its node. *)
RegisterNoMemory(t) ==
    /\ pc[t] = "create"
    /\ pc' = [pc EXCEPT ![t] = "idle"]
    /\ tObs' = [tObs EXCEPT ![t] = None]
    /\ UNCHANGED <<list, garbage, entryVars, tEntry, eventVars, undefined, ghostVars>>

(* EsifEventMgr_EnableEvent reads the entry, without the lock. *)
EnableEvent(t) ==
    /\ pc[t] = "enable"
    /\ \/ mem[tEntry[t]] # "live" /\ GoesWrong
       \/ /\ mem[tEntry[t]] = "live"
          /\ Go(t, "idle", None)
          /\ held' = [held EXCEPT ![tObs[t]] = @ + 1]
          /\ tObs' = [tObs EXCEPT ![t] = None]
          /\ UNCHANGED <<list, garbage, entryVars, eventVars, undefined, eligible,
                         called>>
       \/ /\ mem[tEntry[t]] = "live" /\ "enable" \in Disturbances
          /\ pc' = [pc EXCEPT ![t] = "failNew"]
          /\ UNCHANGED <<list, garbage, entryVars, tEntry, tObs, eventVars, undefined,
                         ghostVars>>

(* The error exit: the node is removed, if the walk of node_remove finds it  *)
(* (it compares addresses; the reuse of a freed node's address is left out), *)
(* and a new entry is freed - "misfreed" if it had been taken from the list  *)
(* before, with its application, so that the garbage or a thread that dumps  *)
(* it still leads there.                                                     *)
RegisterFail(t) ==
    LET e == tEntry[t] IN
    /\ pc[t] \in {"failNew", "failOld"}
    /\ \/ pc[t] = "failNew" /\ mem[e] # "live" /\ GoesWrong
       \/ /\ pc[t] = "failNew" => mem[e] = "live"
          /\ list' = Among(list, Entries \ {e})
          /\ mem' = IF pc[t] = "failOld" THEN mem
                    ELSE [mem EXCEPT ![e] = IF e \in ToSet(list) THEN "freed"
                                                                 ELSE "misfreed"]
          /\ Go(t, "idle", None)
          /\ tObs' = [tObs EXCEPT ![t] = None]
          /\ UNCHANGED <<garbage, obs, refCount, inUse, marked, eventVars, undefined,
                         ghostVars>>

----------------------------------------------------------------------------
(* Removal *)

(* Entries whose node is removed and which go to the garbage, in list order. *)
ToGarbage(S) ==
    /\ list' = Among(list, Entries \ S)
    /\ garbage' = garbage \o Among(list, S)

(* Fault: an entry in use is left for the end of the callback, uncounted. *)
Unregister_InUse(t, o) ==
    LET e == Find(o) IN
    /\ MayCall(t) /\ o \in MayUse[t] /\ held[o] > 0 /\ e # None
    /\ refCount' = [refCount EXCEPT ![e] = IF inUse[e] THEN @ ELSE @ - 1]
    /\ ToGarbage(IF refCount'[e] = 0 \/ marked[e] THEN {e} ELSE {})
    /\ held' = [held EXCEPT ![o] = @ - 1]
    /\ eligible' = IF held[o] = 1 THEN eligible \ {o} ELSE eligible
    /\ Go(t, "dump", None)
    /\ UNCHANGED <<obs, inUse, marked, mem, tObs, eventVars, undefined, called>>

(* EsifEventMgr_ReleaseEntry, called once for a registration that returned. *)
Unregister(t, o) ==
    LET e == Find(o) IN
    /\ MayCall(t) /\ o \in MayUse[t] /\ held[o] > 0
    /\ \/ /\ e # None
          /\ refCount' = [refCount EXCEPT ![e] = @ - 1]
          /\ ToGarbage(IF refCount'[e] = 0 \/ marked[e] THEN {e} ELSE {})
       \/ e = None /\ UNCHANGED <<refCount, list, garbage>>
    /\ held' = [held EXCEPT ![o] = @ - 1]
    /\ eligible' = IF held[o] = 1 THEN eligible \ {o} ELSE eligible
    /\ Go(t, "dump", None)
    /\ UNCHANGED <<obs, inUse, marked, mem, tObs, eventVars, undefined, called>>

(* EsifEventMgr_UnregisterApp: every entry of the application is marked, and *)
(* removed unless the event thread is in its callback.                       *)
UnregisterApp(t) ==
    LET S == {e \in ToSet(list) : obs[e] \in AppObservers} IN
    /\ "app" \in Disturbances /\ MayCall(t)
    /\ marked' = [e \in Entries |-> marked[e] \/ e \in S]
    /\ ToGarbage({e \in S : ~inUse[e]})
    /\ held' = [o \in Observers |-> IF o \in AppObservers THEN 0 ELSE held[o]]
    /\ eligible' = eligible \ AppObservers
    /\ Go(t, "dump", None)
    /\ UNCHANGED <<obs, refCount, inUse, mem, tObs, eventVars, undefined, called>>

(* Fault: the head is looked at but stays on the list while it is disabled. *)
DumpTake_Keep(t) ==
    /\ pc[t] = "dump"
    /\ IF garbage = <<>> THEN Go(t, "idle", None) ELSE Go(t, "free", Head(garbage))
    /\ UNCHANGED <<list, garbage, entryVars, tObs, eventVars, undefined, ghostVars>>

(* EsifEventMgr_DumpGarbage: the head leaves the garbage list under the lock *)
(* and is disabled and freed without it.                                     *)
DumpTake(t) ==
    /\ pc[t] = "dump"
    /\ IF garbage = <<>>
         THEN Go(t, "idle", None) /\ UNCHANGED garbage
         ELSE Go(t, "free", Head(garbage)) /\ garbage' = Tail(garbage)
    /\ UNCHANGED <<list, entryVars, tObs, eventVars, undefined, ghostVars>>

DumpFree(t) ==
    /\ pc[t] = "free"
    /\ \/ mem[tEntry[t]] # "live" /\ GoesWrong
       \/ /\ mem[tEntry[t]] = "live"
          /\ mem' = [mem EXCEPT ![tEntry[t]] = "freed"]
          /\ Go(t, "dump", None)
          /\ UNCHANGED <<list, garbage, obs, refCount, inUse, marked, tObs, eventVars,
                         undefined, ghostVars>>

----------------------------------------------------------------------------
(* EsifEventMgr_ProcessEvent *)

Deliverable(e) == refCount[e] > 0 /\ ~marked[e]

(* The walk from position k of the list to the next callback or the end; `n' *)
(* are the observers called before.                                          *)
WalkFrom(k, n) ==
    LET hits == {j \in DOMAIN list : j >= k /\ Deliverable(list[j])} IN
    \/ hits = {} /\ epc' = "end" /\ cur' = None /\ called' = n
    \/ \E j \in hits :
         /\ \A i \in hits : j <= i
         /\ epc' = "callback" /\ cur' = list[j]
         /\ called' = n \cup {obs[list[j]]}

(* Fault: the count is not raised for the callback. *)
Recount_NoInc(back) ==
    /\ refCount' = [e \in Entries |-> IF e = back /\ refCount[e] > 1 THEN refCount[e] - 1
                                                                    ELSE refCount[e]]
    /\ inUse' = [e \in Entries |-> e = cur']

(* The entry whose callback returned is counted down, the next one up. *)
Recount(back) ==
    /\ refCount' = [e \in Entries |-> refCount[e] + (IF e = cur' THEN 1 ELSE 0)
                                                  - (IF e = back THEN 1 ELSE 0)]
    /\ inUse' = [e \in Entries |-> e = cur']

(* An event is dequeued; the walk starts. *)
EventStart ==
    /\ epc = "idle"
    /\ WalkFrom(1, {})
    /\ Recount(None)
    /\ eligible' = {o \in Observers : held[o] > 0}
    /\ UNCHANGED <<list, garbage, obs, marked, mem, callVars, dump, undefined, held>>

(* Fault: the node after a removed one is skipped. *)
CallbackReturn_Skip ==
    LET k == Position(cur)
        gone == refCount[cur] = 1 \/ marked[cur]
    IN
    /\ epc = "callback" /\ pc[EventThread] = "idle"
    /\ cur \in ToSet(list)
    /\ WalkFrom(IF gone THEN k + 2 ELSE k + 1, called)
    /\ Recount(cur)
    /\ ToGarbage(IF gone THEN {cur} ELSE {})
    /\ dump' = (dump \/ gone)
    /\ UNCHANGED <<obs, marked, mem, callVars, undefined, held, eligible>>

(* Fault: the garbage is left for somebody else to dump. *)
CallbackReturn_NoDump ==
    LET k == Position(cur)
        gone == refCount[cur] = 1 \/ marked[cur]
    IN
    /\ epc = "callback" /\ pc[EventThread] = "idle"
    /\ cur \in ToSet(list)
    /\ WalkFrom(k + 1, called)
    /\ Recount(cur)
    /\ ToGarbage(IF gone THEN {cur} ELSE {})
    /\ UNCHANGED <<dump, obs, marked, mem, callVars, undefined, held, eligible>>

(* The callback returned: with the lock held again, the node's successor is  *)
(* read, the count goes down and a released entry goes to the garbage.       *)
CallbackReturn ==
    LET k == Position(cur)
        gone == refCount[cur] = 1 \/ marked[cur]
    IN
    /\ epc = "callback" /\ pc[EventThread] = "idle"
    /\ \/ cur \notin ToSet(list) /\ GoesWrong
       \/ /\ cur \in ToSet(list)
          /\ WalkFrom(k + 1, called)
          /\ Recount(cur)
          /\ ToGarbage(IF gone THEN {cur} ELSE {})
          /\ dump' = (dump \/ gone)
          /\ UNCHANGED <<obs, marked, mem, callVars, undefined, held, eligible>>

(* The end of ProcessEvent, which first dumps the garbage it has made. *)
EventDump ==
    /\ epc = "end" /\ pc[EventThread] = "idle" /\ dump
    /\ dump' = FALSE
    /\ Go(EventThread, "dump", None)
    /\ UNCHANGED <<list, garbage, entryVars, tObs, epc, cur, undefined, ghostVars>>

EventEnd ==
    /\ epc = "end" /\ pc[EventThread] = "idle" /\ ~dump
    /\ epc' = "idle"
    /\ eligible' = {} /\ called' = {}
    /\ UNCHANGED <<list, garbage, entryVars, callVars, cur, dump, undefined, held>>

----------------------------------------------------------------------------
Call(t) ==
    \/ \E o \in Observers : RegisterKnown(t, o) \/ RegisterUnknown(t, o)
    \/ \E o \in Observers : Unregister(t, o)
    \/ UnregisterApp(t)

(* The allocation the next new entry gets: any unused one, as they differ   *)
(* in nothing.                                                              *)
NextEntry == IF \E e \in Entries : mem[e] = "unborn"
               THEN CHOOSE e \in Entries : mem[e] = "unborn" ELSE None

CallStep(t) ==
    \/ \E e \in Entries : e = NextEntry /\ RegisterAdd(t, e)
    \/ RegisterNoMemory(t) \/ EnableEvent(t) \/ RegisterFail(t)
    \/ DumpTake(t) \/ DumpFree(t)

EventStep == CallbackReturn \/ EventDump \/ EventEnd

Next ==
    /\ ~undefined
    /\ \/ \E t \in Threads : Call(t) \/ CallStep(t)
       \/ EventStart \/ EventStep

Spec == Init /\ [][Next]_vars

(* Fairness: a call that was made goes on to its end, and a callback makes   *)
(* finitely many calls and returns (strong fairness, as its return is        *)
(* disabled while it is inside one); nobody is obliged to call, and no event *)
(* has to arrive.                                                            *)
Fairness ==
    /\ \A t \in Threads : WF_vars(~undefined /\ CallStep(t))
    /\ WF_vars(~undefined /\ (EventDump \/ EventEnd))
    /\ SF_vars(~undefined /\ CallbackReturn)

FairSpec == Spec /\ Fairness

----------------------------------------------------------------------------
(* Properties *)

(* "Before an observer is called, the reference count is incremented so that *)
(* the node is not removed while in use": the node the event thread will     *)
(* follow when the callback returns is still on the list.                    *)
InUseNodeStays == epc = "callback" => cur \in ToSet(list)

Registering(o) == {t \in Threads : pc[t] = "enable" /\ tObs[t] = o}

(* How many ways lead to an entry: the list, the garbage, a thread's hands. *)
Owners(e) ==
    Cardinality({k \in DOMAIN list : list[k] = e})
    + Cardinality({k \in DOMAIN garbage : garbage[k] = e})
    + Cardinality({t \in Threads : pc[t] = "free" /\ tEntry[t] = e})

(* An entry is reachable in at most one way, and in none once it is freed:   *)
(* it is not freed twice, and no list leads to freed memory.  The exception  *)
(* is a registration that fails after UnregisterApp has taken its entry: it  *)
(* frees what is also on the garbage list.                                   *)
NoDanglingEntry ==
    \A e \in Entries : Owners(e) <= IF mem[e] \in {"live", "misfreed"} THEN 1 ELSE 0

(* An observer that was registered when the event was dequeued and stays so  *)
(* has been called when the walk is over, however the callbacks and other    *)
(* threads have changed the list meanwhile.                                  *)
NoObserverSkipped == epc = "end" => eligible \subseteq called

(* A callback that starts is for an observer registered or being registered. *)
CalledIsRegistered ==
    cur' # cur /\ cur' # None => held[obs[cur']] > 0 \/ Registering(obs[cur']) # {}

(* "Events are only sent to observers with a positive reference count": no   *)
(* callback starts for an observer whose unregistration has taken effect.    *)
NoCallbackAfterUnregister == [][CalledIsRegistered]_vars

(* Removed entries are eventually disabled and freed, as long as no freed    *)
(* memory has been used.                                                     *)
GarbageReclaimed ==
    \A e \in Entries : e \in ToSet(garbage) ~> mem[e] = "freed" \/ undefined

----------------------------------------------------------------------------
(* The inductive invariant behind the safety properties *)

Injective(s) == \A j, k \in DOMAIN s : s[j] = s[k] => j = k

(* The ways to an entry: one at most, and only while it is allocated, or after *)
(* the failure that frees it too early.                                        *)
OwnedOnce ==
    /\ Injective(list) /\ Injective(garbage)
    /\ ToSet(list) \cap ToSet(garbage) = {}
    /\ \A e \in ToSet(list) : mem[e] = "live"
    /\ \A e \in ToSet(garbage) : mem[e] \in {"live", "misfreed"}
    /\ \A t \in Threads : pc[t] = "free" =>
         /\ tEntry[t] \in Entries \ (ToSet(list) \cup ToSet(garbage))
         /\ mem[tEntry[t]] \in {"live", "misfreed"}
         /\ \A u \in Threads \ {t} : pc[u] = "free" => tEntry[u] # tEntry[t]
    /\ \A e \in Entries : mem[e] = "misfreed" => {"app", "enable"} \subseteq Disturbances

(* A thread that has put its new entry on the list. *)
Adding(t) == pc[t] \in {"enable", "failNew"}

(* What a thread inside a registration holds, and how it can get there. *)
CallsOK ==
    \A t \in Threads :
        /\ pc[t] = "create" \/ Adding(t) =>
             tObs[t] \in MayUse[t] /\ held[tObs[t]] < MaxHeld
        /\ pc[t] = "create" => \A e \in ToSet(list) : obs[e] # tObs[t]
        /\ Adding(t) => /\ tEntry[t] \in Entries /\ mem[tEntry[t]] # "unborn"
                        /\ obs[tEntry[t]] = tObs[t]
        /\ pc[t] = "failNew" => "enable" \in Disturbances
        /\ pc[t] = "failOld" => "app" \in Disturbances /\ tEntry[t] \in Entries

(* The callback in progress, and the marks. *)
EventOK ==
    /\ cur # None <=> epc = "callback"
    /\ cur # None => mem[cur] # "unborn"
    /\ \A e \in Entries : (inUse[e] <=> e = cur) /\ (marked[e] => "app" \in Disturbances)

(* The uses of an entry that are known to its observer or to the manager:    *)
(* the registrations that returned, the one that has still to be enabled,    *)
(* and the callback.                                                         *)
Uses(e) ==
    held[obs[e]] + (IF \E t \in Threads : Adding(t) /\ tEntry[t] = e THEN 1 ELSE 0)
                 + (IF e = cur THEN 1 ELSE 0)

(* An observer has one entry on the list at most; its count is positive, and *)
(* it is the number of uses unless a whole application may go.               *)
CountsOK ==
    /\ \A e, f \in ToSet(list) : obs[e] = obs[f] => e = f
    /\ \A e \in ToSet(list) :
         /\ obs[e] \in Observers /\ refCount[e] > 0
         /\ ~marked[e] => refCount[e] <= Uses(e)
         /\ "app" \notin Disturbances => refCount[e] = Uses(e)

(* Unless a whole application may go, a registered observer has its entry,   *)
(* and a thread finds the entry it has added.                                *)
EntriesOK ==
    "app" \notin Disturbances =>
        /\ \A o \in Observers : held[o] > 0 => \E e \in ToSet(list) : obs[e] = o
        /\ \A t \in Threads : Adding(t) => /\ tEntry[t] \in ToSet(list)
                                           /\ held[tObs[t]] = 0

(* The entry in use is on the list, and every observer due this event has    *)
(* been called or comes later in it.                                         *)
WalkOK ==
    /\ Disturbances = {} /\ cur # None => cur \in ToSet(list)
    /\ \A o \in eligible : held[o] > 0
    /\ "app" \notin Disturbances /\ epc = "end" => eligible \subseteq called
    /\ "app" \notin Disturbances /\ cur # None =>
         \A j \in DOMAIN list : list[j] = cur =>
             \A o \in eligible \ called :
                 \E k \in DOMAIN list : k > j /\ obs[list[k]] = o

RegistryInvariant == OwnedOnce /\ CallsOK /\ EventOK /\ CountsOK /\ EntriesOK /\ WalkOK
====
