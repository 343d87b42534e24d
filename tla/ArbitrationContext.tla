------------------------- MODULE ArbitrationContext -------------------------
(***************************************************************************)
(* The arbitration context of one participant (esif_uf_arbmgr.c): a table  *)
(* of entries, one per arbitrated primitive, each with the requests of the *)
(* applications in order of priority, its limits, its arbitration function *)
(* and a reference count.  Applications execute primitives; the shell sets *)
(* limits, function and state and stops arbitration; the application       *)
(* manager removes an application that has stopped.                        *)
(*                                                                         *)
(* A section under ctxLock or under entryLock is one action.  The primitive *)
(* queue that an arbitrated value is handed to is module PrimitiveQueue;    *)
(* here only the last value handed over is kept (commanded).               *)
(***************************************************************************)
EXTENDS Integers, Sequences, SequencesExt, FiniteSets

CONSTANTS Apps,       \* application handles, one calling thread each
          Shell,      \* the shell; its commands are serialised by g_shellLock
          Remover,    \* the thread that removes stopped applications
          Prims,      \* arbitrated primitives of this participant
          Entries,    \* allocations of EsifArbEntry, each used once
          MaxValue,   \* request values and limits are 0..MaxValue
          Short,      \* a request shorter than a UInt32, which cannot be compared
          MaxCalls,   \* bound: calls started
          None

ASSUME ArbAssumption ==
    /\ MaxValue \in Nat /\ MaxCalls \in Nat
    /\ Short \notin 0..MaxValue
    /\ Shell \notin Apps /\ Remover \notin Apps \cup {Shell}
    /\ None \notin Apps \cup {Shell, Remover} \cup Prims \cup Entries \cup 0..MaxValue
    /\ None # Short
    \* the default table is a fixed array, and there is memory for it
    /\ IsFiniteSet(Prims)
    /\ \E f \in [Prims -> Entries] : IsInjective(f)

VARIABLES
    mgrEnabled, ctxEnabled,   \* arbitrationEnabled of manager and context
    context,                  \* the participant has its arbitration context
    table,                    \* entriesPtr[0 .. numEntries - 1]
    entry,                    \* the fields of each EsifArbEntry
    commanded,                \* last value queued for execution by each entry
    pc, arg,                  \* position and arguments of each thread's call
    ptr,                      \* the entry the thread has a pointer to
    index,                    \* EsifArbEntryIterator.index
    gone,                     \* applications removed
    shifted,                  \* history: the table moved under RemoveApp's iterator
    calls

vars == <<mgrEnabled, ctxEnabled, context, table, entry, commanded, pc, arg, ptr, index,
          gone, shifted, calls>>

Threads == Apps \cup {Shell, Remover}
Value == 0..MaxValue
Request == [app : Apps, val : Value \cup {Short}]
ArbType == {"invalid", "greater", "less"}

(***************************************************************************)
(* Arbitration of requests                                                 *)
(***************************************************************************)
\* EsifArbFunction_UInt32_GreaterThan, _LessThan: whether the new request goes before
\* the current one.  A request that is too short never does, and any other goes
\* before one that is.
Precedes(type, new, cur) ==
    /\ type # "invalid"
    /\ new # Short
    /\ \/ cur = Short
       \/ type = "greater" /\ new > cur
       \/ type = "less" /\ new < cur

\* Fault: the application's old request stays.
ArbitrateRequest_KeepsOld(list, type, req) ==
    LET worse  == {i \in DOMAIN list : Precedes(type, req.val, list[i].val)}
        place  == IF worse = {} THEN Len(list) + 1
                  ELSE CHOOSE i \in worse : \A j \in worse : i <= j
    IN  InsertAt(list, place, req)

\* Fault: only the winner's request is looked at.
WithoutApp_HeadOnly(reqs, a) ==
    IF reqs # <<>> /\ Head(reqs).app = a THEN Tail(reqs) ELSE reqs

\* The walk of EsifArbEntry_RemoveApp over the requests
WithoutApp(reqs, a) ==
    LET left[n \in 0 .. Len(reqs)] ==
            IF n = 0 THEN <<>>
            ELSE IF reqs[n].app = a THEN left[n - 1]
            ELSE Append(left[n - 1], reqs[n])
    IN  left[Len(reqs)]

\* EsifArbEntry_ArbitrateRequest_Locked: the application's old request goes, the new
\* one is put before the first that it precedes, else at the back.
ArbitrateRequest(list, type, req) ==
    LET others == WithoutApp(list, req.app)
        worse  == {i \in DOMAIN others : Precedes(type, req.val, others[i].val)}
        place  == IF worse = {} THEN Len(others) + 1
                  ELSE CHOOSE i \in worse : \A j \in worse : i <= j
    IN  InsertAt(others, place, req)

\* EsifArbEntry_RearbitrateRequests_Locked
RearbitrateRequests(list, type) ==
    LET again[n \in 0 .. Len(list)] ==
            IF n = 0 THEN <<>> ELSE ArbitrateRequest(again[n - 1], type, list[n])
    IN  again[Len(list)]

\* EsifArbEntry_CreateLimitedData_Locked
Limited(e, val) ==
    IF val = Short THEN Short
    ELSE LET raised == IF val < e.lower THEN e.lower ELSE val
         IN  IF raised > e.upper THEN e.upper ELSE raised

\* EsifArbEntry_QueueLimitedPrimitiveRequest_Locked for the winner of an entry; without
\* a request it queues nothing.
Commanded(e, old) == IF e.reqs = <<>> THEN old ELSE Limited(e, Head(e.reqs).val)

\* "curArbDataPtr && (curArbDataPtr != prevArbDataPtr)": a request is a new allocation,
\* so the winner has changed also if the same application asks for the same again.
WinnerChanged(prev, cur, newApp) ==
    /\ cur # <<>>
    /\ \/ prev = <<>>
       \/ Head(prev).app # Head(cur).app
       \/ Head(cur).app = newApp

-----------------------------------------------------------------------------
(***************************************************************************)
(* Entries and their references                                            *)
(***************************************************************************)
NewEntry(p, type) ==
    [state |-> "live", prim |-> p, type |-> type, upper |-> MaxValue, lower |-> 0,
     enabled |-> TRUE, reqs |-> <<>>, ref |-> 1, marked |-> FALSE, deleteEvent |-> FALSE]

Unused == [NewEntry(None, "invalid") EXCEPT !.state = "unused", !.ref = 0]

\* The default table created with the context (EsifArbCtx_PopulateDefaultArbitrationTable);
\* every primitive has an entry in it.
DefaultEntries == CHOOSE f \in [Prims -> Entries] : IsInjective(f)

\* Fault: the last reference does not set the delete event.
PutRef_NoEvent(e) == [e EXCEPT !.ref = @ - 1]

\* EsifArbEntry_PutRef
PutRef(e) ==
    [e EXCEPT !.ref = @ - 1, !.deleteEvent = @ \/ (e.ref = 1 /\ e.marked)]

\* EsifArbEntry_GetRef: refused once the entry is marked
CanGetRef(e) == ~entry[e].marked
GetRef(e) == [e EXCEPT !.ref = @ + 1]

\* EsifArbCtx_LookupArbEntry_Locked
Lookup(p) == {e \in Range(table) : entry[e].prim = p /\ CanGetRef(e)}

Goto(t, where) == pc' = [pc EXCEPT ![t] = where]
KeepEntries == UNCHANGED <<table, entry, commanded>>
KeepFlags == UNCHANGED <<mgrEnabled, ctxEnabled, context>>
KeepRemoval == UNCHANGED <<index, gone, shifted>>

Init ==
    /\ mgrEnabled = TRUE /\ ctxEnabled = TRUE
    /\ context = FALSE
    /\ table = <<>>
    /\ entry = [e \in Entries |-> Unused]
    /\ commanded = [e \in Entries |-> None]
    /\ pc = [t \in Threads |-> "idle"]
    /\ arg = [t \in Threads |-> None]
    /\ ptr = [t \in Threads |-> None]
    /\ index = [t \in Threads |-> 1]
    /\ gone = {}
    /\ shifted = FALSE
    /\ calls = 0

Start(t, where, a) ==
    /\ pc[t] = "idle"
    /\ calls < MaxCalls
    /\ calls' = calls + 1
    /\ Goto(t, where)
    /\ arg' = [arg EXCEPT ![t] = a]

-----------------------------------------------------------------------------
(***************************************************************************)
(* EsifArbMgr_CtxInst: the context is created outside the lock and thrown  *)
(* away if another thread has installed one meanwhile.                     *)
(***************************************************************************)
CtxInst(t, next) ==
    /\ pc[t] = "ctxInst"
    /\ IF context THEN Goto(t, next) ELSE Goto(t, "ctxCreated")
    /\ KeepFlags /\ KeepEntries /\ KeepRemoval /\ UNCHANGED <<arg, ptr, calls>>

CtxInstall(t, next) ==
    /\ pc[t] = "ctxCreated"
    /\ Goto(t, next)
    /\ context' = TRUE
    /\ IF context THEN UNCHANGED <<table, entry>>
       ELSE /\ table' = SetToSeq(Range(DefaultEntries))
            /\ entry' = [e \in Entries |->
                            IF \E p \in Prims : DefaultEntries[p] = e
                            THEN NewEntry(CHOOSE p \in Prims : DefaultEntries[p] = e, "less")
                            ELSE entry[e]]
    /\ UNCHANGED <<mgrEnabled, ctxEnabled, commanded, arg, ptr, calls>> /\ KeepRemoval

-----------------------------------------------------------------------------
(***************************************************************************)
(* EsifArbMgr_ExecutePrimitive, by an application                          *)
(***************************************************************************)
ExecutePrimitive(a, p, v) ==
    /\ a \notin gone
    /\ Start(a, IF mgrEnabled THEN "ctxInst" ELSE "direct", [prim |-> p, val |-> v])
    /\ KeepFlags /\ KeepEntries /\ KeepRemoval /\ UNCHANGED ptr

\* EsifArbCtx_ExecutePrimitive, the section under ctxLock
CtxLookup(a) ==
    /\ pc[a] = "lookup"
    /\ IF ctxEnabled /\ Lookup(arg[a].prim) # {}
       THEN \E e \in Lookup(arg[a].prim) :
                /\ entry' = [entry EXCEPT ![e] = GetRef(@)]
                /\ ptr' = [ptr EXCEPT ![a] = e]
                /\ Goto(a, "entry")
       ELSE Goto(a, "direct") /\ UNCHANGED <<entry, ptr>>
    /\ KeepFlags /\ KeepRemoval /\ UNCHANGED <<table, commanded, arg, calls>>

\* EsifArbEntry_ExecutePrimitive
EntryExecute(a) ==
    LET e    == ptr[a]
        old  == entry[e]
        reqs == ArbitrateRequest(old.reqs, old.type, [app |-> a, val |-> arg[a].val])
        new  == [old EXCEPT !.reqs = reqs]
    IN  /\ pc[a] = "entry"
        /\ IF old.enabled
           THEN /\ entry' = [entry EXCEPT ![e] = new]
                /\ commanded' = [commanded EXCEPT ![e] =
                                    IF WinnerChanged(old.reqs, reqs, a) THEN Commanded(new, @)
                                    ELSE @]
                /\ Goto(a, "put")
           ELSE Goto(a, "putDirect") /\ UNCHANGED <<entry, commanded>>
        /\ KeepFlags /\ KeepRemoval /\ UNCHANGED <<table, arg, ptr, calls>>

\* The caller's reference goes; a call that was not arbitrated is executed at once.
Put(t) ==
    /\ pc[t] \in {"put", "putDirect"}
    /\ entry' = [entry EXCEPT ![ptr[t]] = PutRef(@)]
    /\ ptr' = [ptr EXCEPT ![t] = None]
    /\ IF pc[t] = "putDirect" THEN Goto(t, "direct") /\ UNCHANGED arg
       ELSE Goto(t, "idle") /\ arg' = [arg EXCEPT ![t] = None]
    /\ KeepFlags /\ KeepRemoval /\ UNCHANGED <<table, commanded, calls>>

\* EsifArbMgr_ExecuteUnarbitratedPrimitive: see PrimitiveQueue
Direct(a) ==
    /\ pc[a] = "direct"
    /\ Goto(a, "idle")
    /\ arg' = [arg EXCEPT ![a] = None]
    /\ KeepFlags /\ KeepEntries /\ KeepRemoval /\ UNCHANGED <<ptr, calls>>

-----------------------------------------------------------------------------
Done(t) == Goto(t, "idle") /\ arg' = [arg EXCEPT ![t] = None]

(***************************************************************************)
(* The shell                                                               *)
(***************************************************************************)
Command(op) ==
    /\ Start(Shell, IF op.level = "manager" THEN "setManager" ELSE "ctxInst", op)
    /\ index' = [index EXCEPT ![Shell] = 1]
    /\ KeepFlags /\ KeepEntries /\ UNCHANGED <<ptr, gone, shifted>>

\* EsifArbCtx_PurgeRequests_Locked
Purged(ents) == [e \in Entries |-> IF e \in ents THEN [entry[e] EXCEPT !.reqs = <<>>] ELSE entry[e]]

\* EsifArbMgr_SetArbitrationState for all participants: flag, then purge
SetManagerState ==
    /\ pc[Shell] = "setManager"
    /\ mgrEnabled' = arg[Shell].on
    /\ IF arg[Shell].on THEN Done(Shell) ELSE Goto(Shell, "purge") /\ UNCHANGED arg
    /\ KeepEntries /\ KeepRemoval /\ UNCHANGED <<ctxEnabled, context, ptr, calls>>

PurgeAll ==
    /\ pc[Shell] = "purge"
    /\ entry' = Purged(Range(table))
    /\ Done(Shell)
    /\ KeepFlags /\ KeepRemoval /\ UNCHANGED <<table, commanded, ptr, calls>>

\* EsifArbCtx_SetArbitrationState, for the participant
SetContextState ==
    /\ pc[Shell] = "command" /\ arg[Shell].name = "state" /\ arg[Shell].level = "context"
    /\ ctxEnabled' = arg[Shell].on
    /\ mgrEnabled' = (mgrEnabled \/ arg[Shell].on)
    /\ entry' = IF arg[Shell].on THEN entry ELSE Purged(Range(table))
    /\ Done(Shell)
    /\ KeepRemoval /\ UNCHANGED <<context, table, commanded, ptr, calls>>

\* EsifArbEntry_SetArbitrationState
Switched(e, on) == [e EXCEPT !.enabled = on, !.reqs = IF on THEN e.reqs ELSE <<>>]

\* ... and for one entry, whose reference is given back after the lock; enabling enables
\* the levels above.
SetEntryState ==
    /\ pc[Shell] = "command" /\ arg[Shell].name = "state" /\ arg[Shell].level = "entry"
    /\ IF Lookup(arg[Shell].prim) = {} THEN Done(Shell) /\ KeepEntries /\ KeepFlags /\ UNCHANGED ptr
       ELSE \E e \in Lookup(arg[Shell].prim) :
                /\ entry' = [entry EXCEPT ![e] = GetRef(Switched(@, arg[Shell].on))]
                /\ ptr' = [ptr EXCEPT ![Shell] = e]
                /\ ctxEnabled' = (ctxEnabled \/ arg[Shell].on)
                /\ mgrEnabled' = (mgrEnabled \/ arg[Shell].on)
                /\ Goto(Shell, "put")
                /\ UNCHANGED <<arg, table, commanded, context>>
    /\ KeepRemoval /\ UNCHANGED calls

\* The entry of a primitive, created and inserted if there is none.  The section is under
\* ctxLock throughout, so the reference taken and given back in it does not show.
Target(p) == IF Lookup(p) # {} THEN Lookup(p) ELSE {e \in Entries : entry[e].state = "unused"}
Base(e, p, type) == IF entry[e].state = "unused" THEN NewEntry(p, type) ELSE entry[e]
Insert(e) == table' = IF e \in Range(table) THEN table ELSE Append(table, e)

\* There is none and it cannot be allocated: the call fails.
NoMemory ==
    /\ pc[Shell] = "command" /\ arg[Shell].name \in {"limits", "function"}
    /\ Lookup(arg[Shell].prim) = {}
    /\ Done(Shell)
    /\ KeepFlags /\ KeepEntries /\ KeepRemoval /\ UNCHANGED <<ptr, calls>>

\* Fault: new limits wait for the next request.
LimitsCommanded_Late(old, new, prev) == prev

\* The end of EsifArbEntry_SetLimits
LimitsCommanded(old, new, prev) == IF new # old THEN Commanded(new, prev) ELSE prev

\* EsifArbCtx_SetLimits and EsifArbEntry_SetLimits: limits that cross are refused, a
\* change is applied to the winner at once.
SetLimits ==
    /\ pc[Shell] = "command" /\ arg[Shell].name = "limits"
    /\ \E e \in Target(arg[Shell].prim) :
           LET old == Base(e, arg[Shell].prim, "invalid")
               new == IF arg[Shell].upper >= arg[Shell].lower
                      THEN [old EXCEPT !.upper = arg[Shell].upper, !.lower = arg[Shell].lower]
                      ELSE old
           IN  /\ Insert(e)
               /\ entry' = [entry EXCEPT ![e] = new]
               /\ commanded' = [commanded EXCEPT ![e] = LimitsCommanded(old, new, @)]
    /\ Done(Shell)
    /\ KeepFlags /\ KeepRemoval /\ UNCHANGED <<ptr, calls>>

\* EsifArbCtx_SetArbitrationFunction and EsifArbEntry_SetArbitrationFunction: the requests
\* are arbitrated again and the winner is queued if it is another one.
SetArbitrationFunction ==
    /\ pc[Shell] = "command" /\ arg[Shell].name = "function"
    /\ \E e \in Target(arg[Shell].prim) :
           LET old == Base(e, arg[Shell].prim, arg[Shell].type)
               new == [old EXCEPT !.type = arg[Shell].type,
                                  !.reqs = RearbitrateRequests(@, arg[Shell].type)]
           IN  /\ Insert(e)
               /\ entry' = [entry EXCEPT ![e] = new]
               /\ commanded' = [commanded EXCEPT ![e] =
                      IF WinnerChanged(old.reqs, new.reqs, None) THEN Commanded(new, @) ELSE @]
    /\ Done(Shell)
    /\ KeepFlags /\ KeepRemoval /\ UNCHANGED <<ptr, calls>>

-----------------------------------------------------------------------------
(***************************************************************************)
(* The iterator over the table, used by RemoveApp and StopArbitration: the *)
(* lock is released, with a reference held, while an entry is visited.     *)
(***************************************************************************)
\* EsifArbCtx_GetNextEntry, the section under ctxLock
IterNext(t) ==
    LET rest == {i \in DOMAIN table : i >= index[t] /\ CanGetRef(table[i])}
    IN  /\ pc[t] = "next"
        /\ IF rest = {} THEN Done(t) /\ UNCHANGED <<index, ptr, entry>>
           ELSE LET i == CHOOSE k \in rest : \A j \in rest : k <= j
                IN  /\ index' = [index EXCEPT ![t] = i]
                    /\ ptr' = [ptr EXCEPT ![t] = table[i]]
                    /\ entry' = [entry EXCEPT ![table[i]] = GetRef(@)]
                    /\ Goto(t, "visit")
                    /\ UNCHANGED arg
        /\ KeepFlags /\ UNCHANGED <<table, commanded, gone, shifted, calls>>

\* ... and its first part, which releases the entry visited last
IterPut(t) ==
    /\ pc[t] = "iterPut"
    /\ entry' = [entry EXCEPT ![ptr[t]] = PutRef(@)]
    /\ ptr' = [ptr EXCEPT ![t] = None]
    /\ index' = [index EXCEPT ![t] = @ + 1]
    /\ Goto(t, "next")
    /\ KeepFlags /\ UNCHANGED <<table, commanded, arg, gone, shifted, calls>>

\* EsifArbCtx_StopArbitration looks for the entry ...
StopVisit ==
    /\ pc[Shell] = "visit"
    /\ Goto(Shell, IF entry[ptr[Shell]].prim = arg[Shell].prim THEN "remove" ELSE "iterPut")
    /\ KeepFlags /\ KeepEntries /\ KeepRemoval /\ UNCHANGED <<arg, ptr, calls>>

\* ... removes it from the table (EsifArbCtx_RemoveArbEntry_Locked, which succeeds also if
\* the entry is no longer there) ...
StopRemove ==
    /\ pc[Shell] = "remove"
    /\ table' = IF ptr[Shell] \notin Range(table) THEN table
                ELSE RemoveAt(table, CHOOSE i \in DOMAIN table : table[i] = ptr[Shell])
    /\ shifted' = (shifted \/ (pc[Remover] # "idle" /\ table' # table))
    /\ Goto(Shell, "release")
    /\ KeepFlags /\ UNCHANGED <<entry, commanded, arg, ptr, index, gone, calls>>

\* ... releases the iterator's reference ...
StopRelease ==
    /\ pc[Shell] = "release"
    /\ entry' = [entry EXCEPT ![ptr[Shell]] = PutRef(@)]
    /\ Goto(Shell, "destroy")
    /\ KeepFlags /\ KeepRemoval /\ UNCHANGED <<table, commanded, arg, ptr, calls>>

\* ... and destroys it (EsifArbEntry_Destroy): marked, the table's reference given up,
EntryDestroy ==
    /\ pc[Shell] = "destroy"
    /\ entry' = [entry EXCEPT ![ptr[Shell]] = PutRef([@ EXCEPT !.marked = TRUE])]
    /\ Goto(Shell, "wait")
    /\ KeepFlags /\ KeepRemoval /\ UNCHANGED <<table, commanded, arg, ptr, calls>>

\* and freed when the last reference is gone.
EntryFree ==
    /\ pc[Shell] = "wait"
    /\ entry[ptr[Shell]].deleteEvent
    /\ entry' = [entry EXCEPT ![ptr[Shell]].state = "freed"]
    /\ ptr' = [ptr EXCEPT ![Shell] = None]
    /\ Done(Shell)
    /\ KeepFlags /\ KeepRemoval /\ UNCHANGED <<table, commanded, calls>>

-----------------------------------------------------------------------------
(***************************************************************************)
(* EsifArbMgr_RemoveApp, at the end of EsifApp_Stop: the application has   *)
(* been destroyed and calls no more.                                       *)
(***************************************************************************)
RemoveApp(a) ==
    /\ pc[Remover] = "idle" /\ pc[a] = "idle" /\ a \notin gone
    /\ gone' = gone \cup {a}
    /\ IF context
       THEN /\ Goto(Remover, "next")
            /\ arg' = [arg EXCEPT ![Remover] = a]
            /\ index' = [index EXCEPT ![Remover] = 1]
       ELSE UNCHANGED <<pc, arg, index>>
    /\ KeepFlags /\ KeepEntries /\ UNCHANGED <<ptr, shifted, calls>>

\* EsifArbEntry_RemoveApp: the next request takes the place of the winner's
EntryRemoveApp ==
    LET e    == ptr[Remover]
        old  == entry[e]
        new  == [old EXCEPT !.reqs = WithoutApp(@, arg[Remover])]
    IN  /\ pc[Remover] = "visit"
        /\ entry' = [entry EXCEPT ![e] = new]
        /\ commanded' = [commanded EXCEPT ![e] =
                IF WinnerChanged(old.reqs, new.reqs, None) THEN Commanded(new, @) ELSE @]
        /\ Goto(Remover, "iterPut")
        /\ KeepFlags /\ KeepRemoval /\ UNCHANGED <<table, arg, ptr, calls>>

-----------------------------------------------------------------------------
ShellCommands ==
    [name : {"state"}, level : {"manager", "context"}, on : BOOLEAN]
    \cup [name : {"state"}, level : {"entry"}, prim : Prims, on : BOOLEAN]
    \cup [name : {"limits"}, level : {"entry"}, prim : Prims, upper : Value, lower : Value]
    \cup [name : {"function"}, level : {"entry"}, prim : Prims, type : {"greater", "less"}]
    \cup [name : {"stop"}, level : {"entry"}, prim : Prims]

AfterCtx(t) == IF t \in Apps THEN "lookup"
               ELSE IF arg[t].name = "stop" THEN "next" ELSE "command"

AppStep(a) ==
    \/ CtxLookup(a) \/ EntryExecute(a) \/ Direct(a)

ShellStep ==
    \/ SetManagerState \/ PurgeAll \/ SetContextState \/ SetEntryState
    \/ SetLimits \/ SetArbitrationFunction \/ NoMemory
    \/ StopVisit \/ StopRemove \/ StopRelease \/ EntryDestroy \/ EntryFree

ThreadStep(t) ==
    \/ CtxInst(t, AfterCtx(t)) \/ CtxInstall(t, AfterCtx(t))
    \/ Put(t) \/ IterNext(t) \/ IterPut(t)

Next ==
    \/ \E a \in Apps : \/ AppStep(a)
                       \/ RemoveApp(a)
                       \/ \E p \in Prims, v \in Value \cup {Short} : ExecutePrimitive(a, p, v)
    \/ ShellStep \/ \E op \in ShellCommands : Command(op)
    \/ EntryRemoveApp
    \/ \E t \in Threads : ThreadStep(t)

Spec == Init /\ [][Next]_vars

-----------------------------------------------------------------------------
(***************************************************************************)
(* Properties                                                              *)
(***************************************************************************)
EntryType ==
    [state : {"unused", "live", "freed"}, prim : Prims \cup {None}, type : ArbType,
     upper : Value, lower : Value, enabled : BOOLEAN, reqs : Seq(Request), ref : Int,
     marked : BOOLEAN, deleteEvent : BOOLEAN]

AppCall == [prim : Prims, val : Value \cup {Short}]

TypeOK ==
    /\ mgrEnabled \in BOOLEAN /\ ctxEnabled \in BOOLEAN /\ context \in BOOLEAN
    /\ table \in Seq(Entries)
    /\ entry \in [Entries -> EntryType]
    /\ commanded \in [Entries -> Value \cup {Short, None}]
    /\ pc \in [Threads -> {"idle", "ctxInst", "ctxCreated", "lookup", "entry", "put",
                           "putDirect", "direct", "setManager", "purge", "command", "next",
                           "visit", "iterPut", "remove", "release", "destroy", "wait"}]
    /\ arg \in [Threads -> AppCall \cup ShellCommands \cup Apps \cup {None}]
    /\ ptr \in [Threads -> Entries \cup {None}]
    /\ index \in [Threads -> Nat]
    /\ gone \subseteq Apps
    /\ shifted \in BOOLEAN /\ calls \in Nat

Counted == {"entry", "put", "putDirect", "visit", "iterPut", "remove", "release"}
Holders(e) == {t \in Threads : ptr[t] = e /\ pc[t] \in Counted}

\* Whoever has a pointer to an entry (EsifArbEntry) finds it allocated, the table holds no
\* freed entry, and an entry's reference count is the number of calls that use it and one
\* for the table until EsifArbEntry_Destroy gives that up.  A thread in EsifArbEntry_Destroy
\* waits only while somebody else uses the entry.
EntryLifetime ==
    /\ \A t \in Threads : ptr[t] # None => entry[ptr[t]].state = "live"
    /\ \A e \in Range(table) : entry[e].state = "live" /\ ~entry[e].marked
    /\ \A e \in Entries : entry[e].state = "live" =>
           entry[e].ref = Cardinality(Holders(e)) + (IF entry[e].marked THEN 0 ELSE 1)
    /\ \A t \in Threads : pc[t] = "wait" =>
           entry[ptr[t]].deleteEvent \/ Holders(ptr[t]) # {}

\* No request stands behind one it precedes, and no application has two.
Arranged(list, type) ==
    \A i, j \in 1 .. Len(list) :
        i < j => list[i].app # list[j].app /\ ~Precedes(type, list[j].val, list[i].val)

\* An application has at most one request in an entry, no request stands behind one it
\* precedes (the head is the arbitration winner), and an entry whose arbitration is disabled has none.
RequestsOrdered ==
    \A e \in Entries : /\ Arranged(entry[e].reqs, entry[e].type)
                       /\ ~entry[e].enabled => entry[e].reqs = <<>>

\* While an entry has requests, the value queued last for execution is the winner's,
\* within the entry's limits of now: whatever changed winner or limits (a request, a new
\* function, new limits, an application that has gone) has queued it.
WinnerCommanded ==
    \A e \in Entries :
        entry[e].state = "live" /\ entry[e].reqs # <<>> =>
            commanded[e] = Limited(entry[e], Head(entry[e].reqs).val)

HasRequest(en, a) == \E i \in 1 .. Len(en.reqs) : en.reqs[i].app = a

\* When EsifArbMgr_RemoveApp has returned, no entry in the table has a request of the application - if
\* no entry was removed from the table during the walk, which moves the others under the
\* iterator's index.
GoneAppHasNoRequest ==
    \A a \in gone : (~shifted /\ arg[Remover] # a) =>
        \A e \in Range(table) : ~HasRequest(entry[e], a)

-----------------------------------------------------------------------------
(***************************************************************************)
(* The inductive invariant                                                 *)
(***************************************************************************)
\* Where a thread can be in a call, with which argument and with or without an entry.
\* Only EsifArbMgr_CtxInst and what goes round it runs without the context.
CallOK(t) ==
    /\ t \in Apps =>
           /\ pc[t] \in {"idle", "ctxInst", "ctxCreated", "lookup", "entry", "put",
                         "putDirect", "direct"}
           /\ pc[t] # "idle" => arg[t] \in AppCall /\ t \notin gone
    /\ t = Shell =>
           /\ pc[t] \in {"idle", "ctxInst", "ctxCreated", "setManager", "purge", "command", "put",
                         "next", "visit", "iterPut", "remove", "release", "destroy", "wait"}
           /\ pc[t] # "idle" =>
                  /\ arg[t] \in ShellCommands
                  /\ arg[t].level = "manager" <=> pc[t] \in {"setManager", "purge"}
                  /\ pc[t] \in {"command", "put"} => arg[t].name # "stop"
                  /\ pc[t] \in {"next", "visit", "iterPut", "remove", "release", "destroy",
                                "wait"} => arg[t].name = "stop"
    /\ t = Remover =>
           /\ pc[t] \in {"idle", "next", "visit", "iterPut"}
           /\ IF pc[t] = "idle" THEN arg[t] = None ELSE arg[t] \in gone
    /\ ptr[t] # None <=> pc[t] \in Counted \cup {"destroy", "wait"}
    /\ pc[t] \notin {"idle", "ctxInst", "ctxCreated", "direct", "setManager", "purge"} => context

CallsOK == \A t \in Threads : CallOK(t)

\* The table has an entry once, and only entries that can be found in it; an entry that
\* EsifArbCtx_StopArbitration has taken out of it is marked only by that call.
TableOK ==
    /\ ~context => table = <<>> /\ \A e \in Entries : entry[e] = Unused
    /\ \A i, j \in DOMAIN table : table[i] = table[j] => i = j
    /\ \A e \in Range(table) : entry[e].state = "live" /\ ~entry[e].marked
    /\ pc[Shell] \in {"release", "destroy", "wait"} => ptr[Shell] \notin Range(table)
    /\ ptr[Shell] # None => (entry[ptr[Shell]].marked <=> pc[Shell] = "wait")

\* The count of an entry in use, and its delete event: set once it is marked and nobody
\* uses it.
Accounted(en, holders) ==
    en.state = "live" =>
        /\ IsFiniteSet(holders)
        /\ en.ref = Cardinality(holders) + (IF en.marked THEN 0 ELSE 1)
        /\ en.deleteEvent <=> en.marked /\ holders = {}

LifeOK ==
    /\ \A t \in Threads : ptr[t] # None => entry[ptr[t]].state = "live"
    /\ \A e \in Entries : Accounted(entry[e], Holders(e))

\* As long as the table does not move under the iterator, the entries that the walk of
\* EsifArbMgr_RemoveApp has passed are free of the application's requests.
RemovalOK ==
    ~shifted =>
        /\ pc[Remover] \in {"visit", "iterPut"} =>
               index[Remover] \in DOMAIN table /\ ptr[Remover] = table[index[Remover]]
        /\ pc[Remover] # "idle" =>
               \A i \in DOMAIN table :
                   i < index[Remover] \/ (i = index[Remover] /\ pc[Remover] = "iterPut")
                       => ~HasRequest(entry[table[i]], arg[Remover])

ArbInvariant ==
    /\ CallsOK /\ TableOK /\ LifeOK
    /\ RequestsOrdered /\ WinnerCommanded
    /\ RemovalOK /\ GoneAppHasNoRequest
=============================================================================
