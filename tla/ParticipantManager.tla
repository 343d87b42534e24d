---- MODULE ParticipantManager ----
(***************************************************************************)
(* The participant manager of the upper framework (esif_uf_pm.c): the      *)
(* table of participants, registration with replacement and resumption,    *)
(* suspension, destruction by name and by instance; the life of a          *)
(* participant object (esif_uf_participant.c: reference count, mark,       *)
(* delete event); and the queue through which the application manager      *)
(* (esif_uf_appmgr.c, esif_uf_app.c) creates and destroys participants in  *)
(* a running application.                                                  *)
(*                                                                         *)
(* A section under g_uppMgr.fLock is one action.  The calls are made by    *)
(* several threads (events, shell, power management), and the queue is     *)
(* served by EsifAppMgr_PartQueueThread.  A call that finds nothing to do  *)
(* returns without a step.  Left out: the primary participant, which is    *)
(* neither suspended nor offered to applications; the table's entry count, *)
(* which only an error message reads; and starting or stopping the         *)
(* application.                                                            *)
(***************************************************************************)
EXTENDS Integers, Sequences, FiniteSets, FiniteSetsExt

CONSTANTS
    Threads,     \* callers of the participant manager
    Users,       \* threads that use a participant for a while
    Ups,         \* EsifUp allocations; bounds the registrations
    None,
    NSlots,      \* entries of the table besides the primary one
    Metas,       \* metadata of the participants that get registered
    Operations,  \* per thread, the operations it calls
    MaxCalls,    \* bound on the calls of each thread
    MayFail      \* whether the DSP lookup and the application may refuse

Slots == 1 .. NSlots
Ops   == {"register", "suspend", "resume", "destroy", "unregister"}

(* The fields that decide which registrations exclude each other. *)
Names    == {m.name : m \in Metas}
MetaType == [name : Names, lf : BOOLEAN, conjured : BOOLEAN, auto : BOOLEAN,
             ptype : {m.ptype : m \in Metas}]

ASSUME ParticipantAssumption ==
    /\ None \notin Ups \cup {"broken"} /\ "broken" \notin Ups
    /\ NSlots \in Nat \ {0} /\ MaxCalls \in Nat /\ MayFail \in BOOLEAN
    /\ Metas \subseteq MetaType
    /\ Operations \in [Threads -> SUBSET Ops]

VARIABLES
    slots,    \* g_uppMgr.fEntries: fState and fUpPtr
    mem, ref, marked, meta, inst,   \* EsifUp: memory, refCount,
              \* markedForDelete, fMetadata with fOrigin, fInstance
    deleted,  \* the participants whose deleteEvent is set
    queue,    \* g_appMgr.partQueuePtr
    serving,  \* EsifAppMgr_PartQueueThread: the item in hand, its progress
    appMap,   \* fParticipantData of the application, by instance: a
              \* participant, None, or "broken" (a handle without participant)
    call,     \* per thread, the call it is in
    calls,    \* per thread, the number of calls made
    holds     \* per user, the participant it has a reference on

upVars  == <<mem, ref, marked, meta, inst, deleted>>
appVars == <<queue, serving, appMap>>
vars == <<slots, upVars, appVars, call, calls, holds>>

(* One record per thread: where it is, the participant it has a reference  *)
(* on, the one it is destroying, the entry, instance and name it works on, *)
(* and what follows the current subroutine.                                *)
Idle == [pc |-> "idle", up |-> None, victim |-> None, slot |-> 0,
         inst |-> None, name |-> None, then |-> "idle"]
NoItem == [up |-> None, create |-> FALSE, applied |-> FALSE]

CallType == [pc : {"idle", "retire", "offer", "withdraw", "put", "scan", "suspend",
                   "clear", "mark", "drop", "await"},
             up : Ups \cup {None}, victim : Ups \cup {None}, slot : 0 .. NSlots,
             inst : Ups \cup {None}, name : Names \cup {None},
             then : {"idle", "offer", "scan", "clear"}]

TypeOK ==
    /\ slots \in [Slots -> [state : {"available", "removed", "created"},
                            up : Ups \cup {None}]]
    /\ mem \in [Ups -> {"unused", "live", "freed"}]
    /\ ref \in [Ups -> Nat] /\ marked \in [Ups -> BOOLEAN]
    /\ meta \in [Ups -> MetaType \cup {None}] /\ inst \in [Ups -> Ups \cup {None}]
    /\ deleted \subseteq Ups
    /\ queue \in Seq([up : Ups, create : BOOLEAN])
    /\ serving \in [up : Ups \cup {None}, create : BOOLEAN, applied : BOOLEAN]
    /\ appMap \in [Ups -> Ups \cup {None, "broken"}]
    /\ call \in [Threads -> CallType]
    /\ calls \in [Threads -> 0 .. MaxCalls] /\ holds \in [Users -> Ups \cup {None}]

Init ==
    /\ slots = [s \in Slots |-> [state |-> "available", up |-> None]]
    /\ mem = [u \in Ups |-> "unused"]
    /\ ref = [u \in Ups |-> 0] /\ marked = [u \in Ups |-> FALSE]
    /\ meta = [u \in Ups |-> None] /\ inst = [u \in Ups |-> None]
    /\ deleted = {} /\ queue = <<>> /\ serving = NoItem
    /\ appMap = [u \in Ups |-> None]
    /\ call = [t \in Threads |-> Idle] /\ calls = [t \in Threads |-> 0]
    /\ holds = [p \in Users |-> None]

-----------------------------------------------------------------------------
(* EsifUp: reference count and delete event. *)

(* EsifUp_GetRef: refused once the participant is marked for delete. *)
CanRef(u) == u # None /\ ~marked[u]
GetRef(u) == ref' = [ref EXCEPT ![u] = @ + 1]

(* EsifUp_PutRef: the last reference on a marked participant sets the event. *)
PutRef(u) ==
    IF u = None THEN UNCHANGED <<ref, deleted>>
    ELSE /\ ref' = [ref EXCEPT ![u] = @ - 1]
         /\ deleted' = IF ref[u] = 1 /\ marked[u] THEN deleted \cup {u} ELSE deleted

(* The next allocation, and EsifUp_CreateParticipant followed by            *)
(* EsifUp_SetInstance and the EsifUp_GetRef of EsifUpPm_RegisterParticipant. *)
Fresh == {u \in Ups : mem[u] = "unused"}
NextUp == CHOOSE u \in Fresh : TRUE
CreateParticipant(u, m, i) ==
    /\ mem' = [mem EXCEPT ![u] = "live"] /\ ref' = [ref EXCEPT ![u] = 2]
    /\ meta' = [meta EXCEPT ![u] = m] /\ inst' = [inst EXCEPT ![u] = i]
    /\ UNCHANGED <<marked, deleted>>

-----------------------------------------------------------------------------
(* The table. *)

(* EsifUpPm_GetOverlappingEntryFromMetadataLocked, for one entry: the same   *)
(* name, or the same type where one is auto-enumerated; storage devices      *)
(* conflict only when exactly one of them is.                                *)
Overlaps(n, m) ==
    \/ n.name = m.name
    \/ n.ptype = m.ptype /\ n.ptype # "nvme" /\ (n.auto \/ m.auto)
    \/ n.ptype = m.ptype /\ n.ptype = "nvme" /\ n.auto # m.auto

(* EsifUp_IsPreferredParticipant: whether m replaces a participant with      *)
(* metadata n.                                                               *)
Preferred(n, m) ==
    \/ m.lf /\ ~n.lf
    \/ n.auto
    \/ ~m.auto /\ n.conjured

Occupied(P(_)) == {s \in Slots : slots[s].up # None /\ P(slots[s].up)}
First(S) == IF S = {} THEN 0 ELSE Min(S)
OverlapSlot(m)   == First(Occupied(LAMBDA u : Overlaps(meta[u], m)))
InstanceSlot(i)  == First(Occupied(LAMBDA u : inst[u] = i))
FreeSlot         == First({s \in Slots : slots[s].state = "available"})

(* The instances of the table: the inputs of the calls by instance. *)
Instances == {inst[slots[s].up] : s \in Occupied(LAMBDA u : TRUE)}

Start(t, op) ==
    /\ op \in Operations[t] /\ call[t].pc = "idle" /\ calls[t] < MaxCalls
    /\ calls' = [calls EXCEPT ![t] = @ + 1]

Goto(t, c) == call' = [call EXCEPT ![t] = c]

(* EsifUpPm_RegisterParticipant, no overlapping entry: a new participant in  *)
(* the first available entry.                                                *)
RegisterNew(t, m) ==
    /\ Start(t, "register") /\ Fresh # {}
    /\ OverlapSlot(m) = 0 /\ FreeSlot # 0
    /\ CreateParticipant(NextUp, m, NextUp)
    /\ slots' = [slots EXCEPT ![FreeSlot] = [state |-> "created", up |-> NextUp]]
    /\ Goto(t, [Idle EXCEPT !.pc = "offer", !.up = NextUp])
    /\ UNCHANGED <<appVars, holds>>

(* ..., the entry's participant has the same name, is not to be replaced and *)
(* is removed: it is resumed, unless it is marked or its DSP is not found.   *)
RegisterAgain(t, m) ==
    LET s == OverlapSlot(m)
        u == slots[s].up
    IN  /\ Start(t, "register")
        /\ s # 0 /\ ~Preferred(meta[u], m) /\ meta[u].name = m.name
        /\ slots[s].state = "removed" /\ CanRef(u)
        /\ meta' = [meta EXCEPT ![u].lf = m.lf]
        /\ \/ /\ GetRef(u)
              /\ slots' = [slots EXCEPT ![s].state = "created"]
              /\ Goto(t, [Idle EXCEPT !.pc = "offer", !.up = u])
           \/ MayFail /\ UNCHANGED <<slots, ref, call>>
        /\ UNCHANGED <<mem, marked, inst, deleted, appVars, holds>>

(* ..., m is preferred: a new participant takes over the entry and the       *)
(* instance; the old one is withdrawn from the applications and destroyed.   *)
RegisterInstead(t, m) ==
    LET s == OverlapSlot(m)
        u == slots[s].up
    IN  /\ Start(t, "register") /\ Fresh # {}
        /\ s # 0 /\ Preferred(meta[u], m)
        /\ CreateParticipant(NextUp, m, inst[u])
        /\ slots' = [slots EXCEPT ![s] = [state |-> "created", up |-> NextUp]]
        /\ Goto(t, [Idle EXCEPT !.pc = "retire", !.up = NextUp, !.victim = u])
        /\ UNCHANGED <<appVars, holds>>

-----------------------------------------------------------------------------
(* A form that enqueues the item without taking a reference. *)
EnquePartChange_NoRef(u, create) ==
    IF CanRef(u)
      THEN queue' = Append(queue, [up |-> u, create |-> create]) /\ UNCHANGED ref
      ELSE UNCHANGED <<ref, queue>>

(* EsifAppMgr_EnquePartChange: the item holds a reference of its own. *)
EnquePartChange(u, create) ==
    IF CanRef(u)
      THEN /\ GetRef(u)
           /\ queue' = Append(queue, [up |-> u, create |-> create])
      ELSE UNCHANGED <<ref, queue>>

EnqueueUnchanged == <<slots, mem, marked, meta, inst, deleted, serving, appMap, calls, holds>>

(* EsifAppMgr_DestroyParticipantInAllApps for the replaced participant. *)
Retire(t) ==
    /\ call[t].pc = "retire"
    /\ EnquePartChange(call[t].victim, FALSE)
    /\ Goto(t, [call[t] EXCEPT !.pc = "mark", !.then = "offer"])
    /\ UNCHANGED EnqueueUnchanged

(* EsifAppMgr_CreateParticipantInAllApps, at the end of a registration or a  *)
(* resumption.                                                               *)
Offer(t) ==
    /\ call[t].pc = "offer"
    /\ EnquePartChange(call[t].up, TRUE)
    /\ Goto(t, [call[t] EXCEPT !.pc = "put", !.then = "idle"])
    /\ UNCHANGED EnqueueUnchanged

(* EsifAppMgr_DestroyParticipantInAllApps, at the end of a suspension. *)
Withdraw(t) ==
    /\ call[t].pc = "withdraw"
    /\ EnquePartChange(call[t].up, FALSE)
    /\ Goto(t, [call[t] EXCEPT !.pc = "put"])
    /\ UNCHANGED EnqueueUnchanged

(* The call's own reference is released. *)
Put(t) ==
    /\ call[t].pc = "put"
    /\ PutRef(call[t].up)
    /\ Goto(t, IF call[t].then = "idle" THEN Idle
               ELSE [call[t] EXCEPT !.pc = call[t].then, !.up = None])
    /\ UNCHANGED <<slots, mem, marked, meta, inst, appVars, calls, holds>>

-----------------------------------------------------------------------------
(* EsifUpPm_SuspendParticipant for the instance i, with what follows. *)
SuspendStep(t, i, next) ==
    LET s == InstanceSlot(i)
        u == slots[s].up
    IN  IF s # 0 /\ slots[s].state = "created"
          THEN /\ slots' = [slots EXCEPT ![s].state = "removed"]
               /\ IF CanRef(u)
                    THEN /\ GetRef(u)
                         /\ Goto(t, [next EXCEPT !.pc = "withdraw", !.up = u,
                                                 !.then = next.pc])
                    ELSE Goto(t, next) /\ UNCHANGED ref
          ELSE Goto(t, next) /\ UNCHANGED <<slots, ref>>

(* ESIF_EVENT_PARTICIPANT_SUSPEND. *)
SuspendParticipant(t, i) ==
    /\ Start(t, "suspend") /\ slots[InstanceSlot(i)].state = "created"
    /\ SuspendStep(t, i, Idle)
    /\ UNCHANGED <<mem, marked, meta, inst, deleted, appVars, holds>>

(* EsifUpPm_ResumeParticipant: the state is set even if no reference is got. *)
ResumeParticipant(t, i) ==
    LET s == InstanceSlot(i)
        u == slots[s].up
    IN  /\ Start(t, "resume") /\ slots[s].state = "removed"
        /\ slots' = [slots EXCEPT ![s].state = "created"]
        /\ IF CanRef(u)
             THEN GetRef(u) /\ Goto(t, [Idle EXCEPT !.pc = "offer", !.up = u])
             ELSE UNCHANGED <<ref, call>>
        /\ UNCHANGED <<mem, marked, meta, inst, deleted, appVars, holds>>

-----------------------------------------------------------------------------
(* EsifUpPm_DestroyParticipant(name): a scan over the entries. *)
DestroyParticipant(t, name) ==
    /\ Start(t, "destroy")
    /\ Occupied(LAMBDA u : meta[u].name = name) # {}
    /\ Goto(t, [Idle EXCEPT !.pc = "scan", !.name = name])
    /\ UNCHANGED <<slots, upVars, appVars, holds>>

(* EsifUpPm_DestroyParticipantByInstance: the name is copied under a         *)
(* reference, which is released before the destruction by name.              *)
DestroyParticipantByInstance(t, i) ==
    LET u == slots[InstanceSlot(i)].up
    IN  /\ Start(t, "unregister") /\ CanRef(u)
        /\ GetRef(u)
        /\ Goto(t, [Idle EXCEPT !.pc = "put", !.up = u, !.name = meta[u].name,
                                !.then = "scan"])
        /\ UNCHANGED <<slots, mem, marked, meta, inst, deleted, appVars, holds>>

(* The next entry with the name: its instance is read, the lock released. *)
Scan(t) ==
    LET found == {s \in Occupied(LAMBDA u : meta[u].name = call[t].name) :
                    s > call[t].slot}
    IN  /\ call[t].pc = "scan"
        /\ Goto(t, IF found = {} THEN Idle
                   ELSE [call[t] EXCEPT !.pc = "suspend", !.slot = Min(found),
                                        !.inst = inst[slots[Min(found)].up]])
        /\ UNCHANGED <<slots, upVars, appVars, calls, holds>>

(* EsifUpPm_SuspendParticipant for that instance. *)
SuspendFirst(t) ==
    /\ call[t].pc = "suspend"
    /\ SuspendStep(t, call[t].inst, [call[t] EXCEPT !.pc = "clear"])
    /\ UNCHANGED <<mem, marked, meta, inst, deleted, appVars, calls, holds>>

(* A form that leaves the participant in its entry. *)
Clear_KeepsEntry(t) ==
    LET s == call[t].slot IN
    /\ call[t].pc = "clear"
    /\ slots[s].up # None
    /\ Goto(t, [call[t] EXCEPT !.pc = "mark", !.then = "scan", !.victim = slots[s].up])
    /\ UNCHANGED <<slots, upVars, appVars, calls, holds>>

(* The lock is taken again: whatever the entry holds now is removed from it. *)
Clear(t) ==
    LET s == call[t].slot IN
    /\ call[t].pc = "clear"
    /\ slots' = [slots EXCEPT ![s] = [state |-> "available", up |-> None]]
    /\ Goto(t, IF slots[s].up = None THEN [call[t] EXCEPT !.pc = "scan"]
               ELSE [call[t] EXCEPT !.pc = "mark", !.then = "scan",
                                    !.victim = slots[s].up])
    /\ UNCHANGED <<upVars, appVars, calls, holds>>

(* EsifUp_DestroyParticipant: mark, give up the table's reference, wait for  *)
(* the delete event, free.                                                   *)
Mark(t) ==
    /\ call[t].pc = "mark"
    /\ marked' = [marked EXCEPT ![call[t].victim] = TRUE]
    /\ Goto(t, [call[t] EXCEPT !.pc = "drop"])
    /\ UNCHANGED <<slots, mem, ref, meta, inst, deleted, appVars, calls, holds>>

Drop(t) ==
    /\ call[t].pc = "drop"
    /\ PutRef(call[t].victim)
    /\ Goto(t, [call[t] EXCEPT !.pc = "await"])
    /\ UNCHANGED <<slots, mem, marked, meta, inst, appVars, calls, holds>>

Await(t) ==
    /\ call[t].pc = "await" /\ call[t].victim \in deleted
    /\ mem' = [mem EXCEPT ![call[t].victim] = "freed"]
    /\ Goto(t, [call[t] EXCEPT !.pc = call[t].then, !.victim = None])
    /\ UNCHANGED <<slots, ref, marked, meta, inst, deleted, appVars, calls, holds>>

-----------------------------------------------------------------------------
(* EsifAppMgr_PartQueueThread. *)
Pull ==
    /\ serving.up = None /\ queue # <<>>
    /\ serving' = [up |-> Head(queue).up, create |-> Head(queue).create,
                   applied |-> FALSE]
    /\ queue' = Tail(queue)
    /\ UNCHANGED <<slots, upVars, appMap, call, calls, holds>>

(* EsifApp_CreateParticipant: nothing to do if the instance is known.  The   *)
(* handle is entered before the reference is asked for.                      *)
CreateInApp ==
    LET u == serving.up
        i == inst[u]
    IN  /\ u # None /\ serving.create /\ ~serving.applied
        /\ serving' = [serving EXCEPT !.applied = TRUE]
        /\ \/ appMap[i] # None /\ UNCHANGED <<appMap, ref>>
           \/ /\ appMap[i] = None /\ CanRef(u)
              /\ GetRef(u) /\ appMap' = [appMap EXCEPT ![i] = u]
           \/ /\ appMap[i] = None /\ ~CanRef(u)
              /\ appMap' = [appMap EXCEPT ![i] = "broken"] /\ UNCHANGED ref
           \/ appMap[i] = None /\ CanRef(u) /\ MayFail /\ UNCHANGED <<appMap, ref>>
        /\ UNCHANGED <<slots, mem, marked, meta, inst, deleted, queue, call, calls, holds>>

(* A form that forgets the reference the application holds. *)
DestroyInApp_KeepsRef ==
    /\ serving.up # None /\ ~serving.create /\ ~serving.applied
    /\ serving' = [serving EXCEPT !.applied = TRUE]
    /\ appMap' = [appMap EXCEPT ![inst[serving.up]] = None]
    /\ UNCHANGED <<slots, upVars, queue, call, calls, holds>>

(* EsifApp_DestroyParticipant: looked up by instance, whatever participant   *)
(* the application has under it.                                             *)
DestroyInApp ==
    LET i == inst[serving.up]
        u == appMap[i]
    IN  /\ serving.up # None /\ ~serving.create /\ ~serving.applied
        /\ serving' = [serving EXCEPT !.applied = TRUE]
        /\ IF u \in Ups
             THEN PutRef(u) /\ appMap' = [appMap EXCEPT ![i] = None]
             ELSE UNCHANGED <<ref, deleted, appMap>>
        /\ UNCHANGED <<slots, mem, marked, meta, inst, queue, call, calls, holds>>

(* The reference of the queue item is released. *)
Served ==
    /\ serving.applied
    /\ PutRef(serving.up) /\ serving' = NoItem
    /\ UNCHANGED <<slots, mem, marked, meta, inst, queue, appMap, call, calls, holds>>

-----------------------------------------------------------------------------
(* EsifUpPm_GetAvailableParticipantByInstance and its release. *)
Acquire(p, i) ==
    LET s == InstanceSlot(i) IN
    /\ holds[p] = None /\ slots[s].state = "created" /\ CanRef(slots[s].up)
    /\ GetRef(slots[s].up) /\ holds' = [holds EXCEPT ![p] = slots[s].up]
    /\ UNCHANGED <<slots, mem, marked, meta, inst, deleted, appVars, call, calls>>

Release(p) ==
    /\ holds[p] # None
    /\ PutRef(holds[p]) /\ holds' = [holds EXCEPT ![p] = None]
    /\ UNCHANGED <<slots, mem, marked, meta, inst, appVars, call, calls>>

-----------------------------------------------------------------------------
Step(t) == \/ Retire(t) \/ Offer(t) \/ Withdraw(t) \/ Put(t) \/ Scan(t)
           \/ SuspendFirst(t) \/ Clear(t) \/ Mark(t) \/ Drop(t) \/ Await(t)

Call(t) ==
    \/ \E m \in Metas : RegisterNew(t, m) \/ RegisterAgain(t, m) \/ RegisterInstead(t, m)
    \/ \E i \in Instances : \/ SuspendParticipant(t, i) \/ ResumeParticipant(t, i)
                            \/ DestroyParticipantByInstance(t, i)
    \/ \E n \in Names : DestroyParticipant(t, n)

Serve == Pull \/ CreateInApp \/ DestroyInApp \/ Served

Next ==
    \/ \E t \in Threads : Call(t) \/ Step(t)
    \/ Serve
    \/ \E p \in Users : Release(p) \/ \E i \in Instances : Acquire(p, i)

Spec == Init /\ [][Next]_vars

(* Threads that are in a call, and the queue thread, run; a user releases    *)
(* its reference.  Nothing makes a thread start a call.                      *)
FairSpec ==
    /\ Spec /\ WF_vars(Serve)
    /\ \A t \in Threads : WF_vars(Step(t))
    /\ \A p \in Users : WF_vars(Release(p))

-----------------------------------------------------------------------------
(* Everything that refers to a participant: the table, the queue and the     *)
(* item in hand, the application, users, the calls in progress, and a thread *)
(* that has taken it from the table and not yet given up the table's share.  *)
SlotRefs(u)    == {<<"slot", s>> : s \in {s \in Slots : slots[s].up = u}}
QueueRefs(u)   == {<<"queue", k>> : k \in {k \in DOMAIN queue : queue[k].up = u}}
ServingRefs(u) == IF serving.up = u THEN {<<"serving", 0>>} ELSE {}
AppRefs(u)     == {<<"app", i>> : i \in {i \in Ups : appMap[i] = u}}
UserRefs(u)    == {<<"user", p>> : p \in {p \in Users : holds[p] = u}}
CallRefs(u)    == {<<"call", t>> : t \in {t \in Threads : call[t].up = u}}
VictimRefs(u)  ==
    {<<"victim", t>> : t \in {t \in Threads : call[t].victim = u
                                             /\ call[t].pc \in {"retire", "mark", "drop"}}}
References(u) ==
    SlotRefs(u) \cup QueueRefs(u) \cup ServingRefs(u) \cup AppRefs(u) \cup UserRefs(u)
      \cup CallRefs(u) \cup VictimRefs(u)

(* A participant is freed only when nothing refers to it any more, and until *)
(* then its reference count is the number of the references that will be     *)
(* released.                                                                 *)
ReferencesAccounted ==
    \A u \in Ups :
        IF mem[u] = "live" THEN ref[u] = Cardinality(References(u))
                           ELSE References(u) = {}

(* A participant leaves the table exactly once, and only then is destroyed:  *)
(* no participant in the table is marked, and no two threads destroy one.    *)
DestroyedOnce ==
    /\ \A s \in Slots : slots[s].up # None =>
         /\ ~marked[slots[s].up]
         /\ \A t \in Threads : call[t].victim # slots[s].up
    /\ \A t, r \in Threads : t # r /\ call[t].victim # None
                             => call[t].victim # call[r].victim

(* Two calls are in progress at the same time. *)
Concurrent == \E t, r \in Threads : t # r /\ call[t].pc # "idle" /\ call[r].pc # "idle"

(* As long as calls do not overlap, EsifUp_DestroyParticipant gets its       *)
(* delete event: whatever is still queued, the application and the users     *)
(* give up their references.                                                 *)
DestroyReturns ==
    []~Concurrent => \A t \in Threads : call[t].pc = "await" ~> call[t].pc # "await"

-----------------------------------------------------------------------------
(* The inductive invariant behind ReferencesAccounted and DestroyedOnce.     *)

(* An entry is available when it has no participant, a participant in the    *)
(* table has its metadata, and none has two entries.                         *)
TableOK ==
    /\ \A s \in Slots : slots[s].state = "available" <=> slots[s].up = None
    /\ \A s \in Slots : slots[s].up # None => meta[slots[s].up] \in MetaType
    /\ \A s, r \in Slots : s # r /\ slots[s].up # None => slots[s].up # slots[r].up

(* Between its sections a call has the reference and the victim that its     *)
(* position calls for, and no others.                                        *)
CallsOK ==
    \A t \in Threads :
        LET c == call[t] IN
        /\ c.victim # None <=> c.pc \in {"retire", "mark", "drop", "await"}
        /\ c.pc \in {"idle", "scan", "suspend", "clear"} => c.up = None
        /\ c.pc \in {"mark", "drop", "await"} =>
             c.then = "offer" \/ (c.then = "scan" /\ c.up = None)
        /\ c.pc \in {"withdraw", "put"} => c.then \in {"idle", "clear", "scan"}
        /\ c.pc \in {"suspend", "clear"} \/ c.then = "clear" => c.slot \in Slots

(* The counts are of finitely many references. *)
RefsFinite == \A u \in Ups : IsFiniteSet(References(u))

(* A participant is marked, and its delete event set, only in its lifetime   *)
(* and in this order: the event says that no reference is left.              *)
LifeOK ==
    \A u \in Ups :
        /\ mem[u] = "unused" => ~marked[u]
        /\ mem[u] # "unused" => inst[u] \in Ups
        /\ u \in deleted => marked[u] /\ References(u) = {}
        /\ \A t \in Threads : call[t].victim = u => mem[u] = "live"

ParticipantInvariant ==
    /\ TableOK /\ CallsOK /\ RefsFinite /\ LifeOK
    /\ ReferencesAccounted /\ DestroyedOnce
====
