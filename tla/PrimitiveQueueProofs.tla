---- MODULE PrimitiveQueueProofs ----
(***************************************************************************)
(* Machine-checked proofs about PrimitiveQueue, for any numbers of         *)
(* threads, primitives and requests.  TypeOK and PrimitiveQueueInvariant   *)
(* are inductive together; DummyMarksRequest is part of it, and            *)
(* ReadsSeeWrites follows from it.                                         *)
(***************************************************************************)
EXTENDS PrimitiveQueue, TLAPS, FiniteSetTheorems, WellFoundedInduction

----------------------------------------------------------------------------
(* The list of requests *)

Element == Request \cup {None}

LEMMA SeqShape ==
    ASSUME NEW S, NEW s \in Seq(S)
    PROVE  /\ Len(s) \in Nat /\ DOMAIN s = 1 .. Len(s) /\ (s = <<>> <=> Len(s) = 0)
           /\ \A i \in 1 .. Len(s) : s[i] \in S
  OBVIOUS

LEMMA QueueShape ==
    ASSUME TypeOK
    PROVE  /\ queue \in Seq(Element) /\ Len(queue) \in Nat /\ DOMAIN queue = 1 .. Len(queue)
           /\ \A i \in 1 .. Len(queue) : queue[i] \in Request \cup {None}
           /\ ToSet(queue) = {queue[i] : i \in 1 .. Len(queue)}
           /\ queue = <<>> <=> Len(queue) = 0
<1>1. queue \in Seq(Element)
  BY DEF TypeOK, Element
<1>2. \A i \in 1 .. Len(queue) : queue[i] \in Element
  BY <1>1
<1>3. ToSet(queue) = {queue[i] : i \in 1 .. Len(queue)}
  BY <1>1 DEF ToSet
<1>4. queue = <<>> <=> Len(queue) = 0
  BY <1>1
<1>5. QED
  BY <1>1, <1>2, <1>3, <1>4 DEF Element

LEMMA AppendShape ==
    ASSUME TypeOK, NEW r \in Request, queue' = Append(queue, r)
    PROVE  /\ queue' \in Seq(Request \cup {None})
           /\ Len(queue') = Len(queue) + 1 /\ DOMAIN queue' = 1 .. Len(queue) + 1
           /\ \A i \in 1 .. Len(queue) : queue'[i] = queue[i]
           /\ queue'[Len(queue) + 1] = r
           /\ ToSet(queue') = ToSet(queue) \cup {r}
           /\ queue' # <<>>
<1>1. queue \in Seq(Element) /\ r \in Element
  BY QueueShape DEF Element
<1>2. queue' \in Seq(Element)
  BY <1>1
<1>3. /\ Len(queue) \in Nat /\ Len(queue') = Len(queue) + 1
      /\ \A i \in 1 .. Len(queue) : queue'[i] = queue[i]
      /\ queue'[Len(queue) + 1] = r
  BY <1>1
<1>4. DOMAIN queue' = 1 .. Len(queue) + 1 /\ DOMAIN queue = 1 .. Len(queue)
  BY <1>1, <1>2, <1>3
<1>5. ToSet(queue') = ToSet(queue) \cup {r}
  BY <1>3, <1>4 DEF ToSet
<1>6. queue' # <<>>
  BY <1>2, <1>3
<1>7. QED
  BY <1>2, <1>3, <1>4, <1>5, <1>6 DEF Element

LEMMA TailShape ==
    ASSUME TypeOK, queue # <<>>, NEW q, q = Tail(queue)
    PROVE  /\ q \in Seq(Request \cup {None})
           /\ Len(queue) \in Nat /\ Len(queue) > 0
           /\ Len(q) = Len(queue) - 1 /\ DOMAIN q = 1 .. Len(queue) - 1
           /\ \A i \in 1 .. Len(queue) - 1 : q[i] = queue[i + 1]
           /\ Head(queue) = queue[1] /\ queue[1] \in Request \cup {None}
           /\ ToSet(queue) = ToSet(q) \cup {queue[1]}
           /\ q = <<>> <=> Len(queue) = 1
<1>1. queue \in Seq(Element) /\ DOMAIN queue = 1 .. Len(queue) /\ Len(queue) \in Nat
  BY QueueShape
<1>2. /\ q \in Seq(Element) /\ Len(queue) > 0 /\ Len(q) = Len(queue) - 1
      /\ \A i \in 1 .. Len(queue) - 1 : q[i] = queue[i + 1]
      /\ Head(queue) = queue[1] /\ queue[1] \in Element
  BY <1>1
<1>3. DOMAIN q = 1 .. Len(queue) - 1 /\ (q = <<>> <=> Len(queue) = 1)
  <2>1. q \in Seq(Element)
    BY <1>2
  <2>2. DOMAIN q = 1 .. Len(q) /\ (q = <<>> <=> Len(q) = 0)
    BY <2>1, SeqShape
  <2>3. QED
    BY <1>1, <1>2, <2>2
<1>4. ToSet(queue) = ToSet(q) \cup {queue[1]}
  <2>1. ASSUME NEW i \in DOMAIN queue PROVE queue[i] \in ToSet(q) \cup {queue[1]}
    <3>1. CASE i = 1
      BY <3>1
    <3>2. CASE i # 1
      <4>1. i - 1 \in DOMAIN q /\ q[i - 1] = queue[i]
        BY <1>1, <1>2, <1>3, <3>2
      <4>2. QED
        BY <4>1 DEF ToSet
    <3>3. QED
      BY <3>1, <3>2
  <2>2. ASSUME NEW i \in DOMAIN q PROVE q[i] \in ToSet(queue)
    <3>1. i + 1 \in DOMAIN queue /\ q[i] = queue[i + 1]
      BY <1>1, <1>2, <1>3
    <3>2. QED
      BY <3>1 DEF ToSet
  <2>3. queue[1] \in ToSet(queue)
    BY <1>1, <1>2 DEF ToSet
  <2>4. QED
    BY <2>1, <2>2, <2>3 DEF ToSet
<1>5. QED
  BY <1>1, <1>2, <1>3, <1>4 DEF Element

LEMMA NoneFacts ==
    /\ None \notin Threads /\ None \notin Request
    /\ \A r : IsReal(r) <=> r # None /\ ~r.dummy
    /\ \A r \in Request : IsReal(r) <=> ~r.dummy
  BY PrimitiveQueueAssumption DEF IsReal

----------------------------------------------------------------------------
(* Outstanding requests *)

LEMMA OutstandingType ==
    ASSUME TypeOK, PositionsOK
    PROVE  \A r \in Outstanding : r \in Request /\ ~r.dummy
  BY QueueShape, NoneFacts DEF PositionsOK, Outstanding

(* No two have the same number. *)
LEMMA UniqueIds ==
    ASSUME TypeOK, PositionsOK, OrderOK, NEW r \in Outstanding, NEW q \in Outstanding,
           r.id = q.id
    PROVE  r = q
<1>1. r \in Request /\ q \in Request
  BY OutstandingType
<1>2. r.id \in Nat /\ q.id \in Nat
  BY <1>1, PrimitiveQueueAssumption DEF Request
<1>3. ASSUME NEW x \in Outstanding, NEW y \in Outstanding, x.id = y.id, x.id \in Nat,
             x \in ToSet(queue), IsReal(x)
      PROVE  x = y
  <2>1. PICK i \in 1 .. Len(queue) : x = queue[i]
    BY <1>3, QueueShape
  <2>2. CASE y \in ToSet(queue) /\ IsReal(y)
    <3>1. PICK j \in 1 .. Len(queue) : y = queue[j]
      BY <2>2, QueueShape
    <3>2. ~(i < j) /\ ~(j < i)
      BY <1>3, <2>1, <2>2, <3>1, QueueShape DEF OrderOK
    <3>3. i = j
      BY <3>2
    <3>4. QED
      BY <2>1, <3>1, <3>3
  <2>3. CASE Busy /\ y = current
    BY <1>3, <2>1, <2>3, QueueShape DEF OrderOK
  <2>4. QED
    BY <2>2, <2>3 DEF Outstanding
<1>4. CASE r \in ToSet(queue) /\ IsReal(r)
  BY <1>2, <1>3, <1>4
<1>5. CASE q \in ToSet(queue) /\ IsReal(q)
  BY <1>2, <1>3, <1>5
<1>6. CASE r = current /\ q = current
  BY <1>6
<1>7. QED
  BY <1>4, <1>5, <1>6 DEF Outstanding

(* A pending SET is outstanding, in the queue or being executed. *)
LEMMA PendingRequest ==
    ASSUME NEW p, NEW id \in Pending(p)
    PROVE  \E r \in Outstanding : /\ r.id = id /\ r.delay /\ r.prim = p
                                  /\ \/ r \in ToSet(queue) /\ IsReal(r)
                                     \/ xpc = "execute" /\ r = current
  BY DEF Pending, Outstanding, Busy

(* The request a dummy stands for is outstanding or lost. *)
LEMMA RealOfDummy ==
    ASSUME TypeOK, PositionsOK, DummyBehind, NEW d \in ToSet(queue), d # None, d.dummy
    PROVE  d \in Request /\ [d EXCEPT !.dummy = FALSE] \in Outstanding \cup lost
<1>1. PICK i \in 1 .. Len(queue) : d = queue[i]
  BY QueueShape
<1>2. d \in Request
  BY <1>1, QueueShape
<1> DEFINE real == [d EXCEPT !.dummy = FALSE]
<1>3. real \in Request /\ ~real.dummy
  BY <1>2 DEF Request
<1>4. \/ i > 1 /\ queue[i - 1] = real
      \/ i = 1 /\ current = real /\ xpc \in {"execute", "cleanup"}
      \/ real \in lost
  BY <1>1, QueueShape DEF DummyBehind
<1> HIDE DEF real
<1>5. CASE i > 1 /\ queue[i - 1] = real
  <2>1. i - 1 \in 1 .. Len(queue)
    BY <1>5, QueueShape
  <2>2. real \in ToSet(queue)
    BY <1>5, <2>1, QueueShape
  <2>3. real \in Outstanding
    BY <1>3, <2>2, NoneFacts DEF Outstanding
  <2>4. QED
    BY <1>2, <2>3 DEF real
<1>6. CASE i = 1 /\ current = real /\ xpc \in {"execute", "cleanup"}
  <2>1. real \in Outstanding
    BY <1>6 DEF Outstanding, Busy
  <2>2. QED
    BY <1>2, <2>1 DEF real
<1>7. QED
  BY <1>2, <1>4, <1>5, <1>6 DEF real

(* While nobody owes a dummy, a walk that finds nothing to wait for means    *)
(* that no SET of the primitive is pending, but for those without a dummy.   *)
LEMMA WalkSeesAll ==
    ASSUME TypeOK, PrimitiveQueueInvariant, NEW t \in Threads, pc[t] = "walk",
           ~MustDelay(arg[t]), ~arg[t].set
    PROVE  Pending(arg[t].prim) \subseteq unmarked
<1> DEFINE p == arg[t].prim
<1>1. lock = t /\ p \in Prims
  BY DEF PrimitiveQueueInvariant, PositionsOK
<1>2. SUFFICES ASSUME NEW id \in Pending(p), id \notin unmarked PROVE FALSE
  OBVIOUS
<1>3. PICK d \in ToSet(queue) : d # None /\ d.dummy /\ d.id = id
  BY <1>1, <1>2 DEF PrimitiveQueueInvariant, Marked
<1>4. PICK r \in Outstanding : r.id = id /\ r.delay /\ r.prim = p
  BY <1>2, PendingRequest
<1> DEFINE real == [d EXCEPT !.dummy = FALSE]
<1>5. d \in Request /\ real \in Outstanding \cup lost
  BY <1>3, RealOfDummy DEF PrimitiveQueueInvariant
<1>6. real.id = d.id /\ real.delay = d.delay /\ real.prim = d.prim
  BY <1>5 DEF Request
<1> HIDE DEF real
<1>7. real = r
  BY <1>3, <1>4, <1>5, <1>6, UniqueIds DEF PrimitiveQueueInvariant, LostOK
<1>8. d.delay /\ d.prim = p
  BY <1>4, <1>6, <1>7
<1>9. QED
  BY <1>3, <1>8 DEF MustDelay

----------------------------------------------------------------------------
(* What a step does to the outstanding requests and to the waiting reads *)

(* A request is added at the end. *)
LEMMA OutstandingAppend ==
    ASSUME TypeOK, NEW r \in Request, queue' = Append(queue, r), UNCHANGED execVars
    PROVE  /\ Outstanding' = Outstanding \cup (IF r.dummy THEN {} ELSE {r})
           /\ \A p : Pending(p)' = Pending(p) \cup
                 (IF ~r.dummy /\ r.delay /\ r.prim = p THEN {r.id} ELSE {})
           /\ Busy' = Busy
<1>1. ToSet(queue)' = ToSet(queue) \cup {r} /\ UNCHANGED <<xpc, current>>
  BY AppendShape DEF execVars
<1>2. IsReal(r) <=> ~r.dummy
  BY NoneFacts
<1>3. Busy' = Busy
  BY <1>1 DEF Busy
<1>4. Outstanding' = Outstanding \cup (IF r.dummy THEN {} ELSE {r})
  BY <1>1, <1>2, <1>3 DEF Outstanding
<1>5. ASSUME NEW p
      PROVE  Pending(p)' = Pending(p) \cup
                 (IF ~r.dummy /\ r.delay /\ r.prim = p THEN {r.id} ELSE {})
  BY <1>1, <1>2 DEF Pending
<1>6. QED
  BY <1>3, <1>4, <1>5

(* The list and the executing thread's request stay as they are. *)
LEMMA OutstandingSame ==
    ASSUME UNCHANGED <<queue, xpc, current>>
    PROVE  Outstanding' = Outstanding /\ (\A p : Pending(p)' = Pending(p)) /\ Busy' = Busy
  BY DEF Outstanding, Pending, Busy

(* The numbers pending are numbers of requests created. *)
LEMMA PendingBound ==
    ASSUME TypeOK, PositionsOK, OrderOK, NEW p
    PROVE  Pending(p) \subseteq 1 .. created
<1> SUFFICES ASSUME NEW id \in Pending(p) PROVE id \in 1 .. created
  OBVIOUS
<1>1. PICK r \in Outstanding : r.id = id
  BY PendingRequest
<1>2. r \in Request /\ r.id <= created
  BY OutstandingType DEF OrderOK
<1>3. created \in Nat /\ r.id \in 1 .. MaxRequests /\ MaxRequests \in Nat
  BY <1>2, PrimitiveQueueAssumption DEF TypeOK, Request
<1>4. QED
  BY <1>1, <1>2, <1>3

(* GETs that were about to execute still have seen what they must see. *)
LEMMA DirectKept ==
    ASSUME TypeOK, PrimitiveQueueInvariant,
           \A p : Pending(p)' \cap (1 .. created) \subseteq Pending(p),
           \A p : Pending(p)' \cap unmarked \subseteq unmarked',
           \A t \in Threads : t \notin exempt' /\ pc'[t] = "direct" /\ ~arg'[t].set =>
               /\ t \notin exempt /\ pc[t] = "direct"
               /\ arg'[t] = arg[t] /\ before'[t] = before[t]
    PROVE  DirectReads'
<1> SUFFICES ASSUME NEW t \in Threads, t \notin exempt', pc'[t] = "direct", ~arg'[t].set
             PROVE  Unseen(t)' \subseteq unmarked'
  BY DEF DirectReads
<1>1. /\ t \notin exempt /\ pc[t] = "direct" /\ arg'[t] = arg[t] /\ before'[t] = before[t]
  OBVIOUS
<1>2. Unseen(t) \subseteq unmarked
  BY <1>1 DEF PrimitiveQueueInvariant, DirectReads
<1>3. before[t] \subseteq 1 .. created
  BY PrimitiveQueueAssumption DEF TypeOK, PrimitiveQueueInvariant, OrderOK
<1>4. Unseen(t)' \subseteq Unseen(t)
  BY <1>1, <1>3 DEF Unseen
<1>5. Unseen(t)' \subseteq Pending(arg[t].prim)'
  BY <1>1 DEF Unseen
<1>6. QED
  BY <1>2, <1>4, <1>5

----------------------------------------------------------------------------
(* The bound on requests *)

LEMMA CallersSame ==
    ASSUME BoundOK, UNCHANGED created, \A t \in Threads : pc'[t] \in {"check", "walk"} <=> pc[t] \in {"check", "walk"}
    PROVE  BoundOK'
<1>1. Callers' = Callers
  BY DEF Callers
<1>2. QED
  BY <1>1 DEF BoundOK

LEMMA CallerEnters ==
    ASSUME TypeOK, BoundOK, NEW n \in {0, 1}, Room(n + 1), created' = created + n,
           NEW t \in Threads, pc[t] = "idle",
           pc' = [pc EXCEPT ![t] = "check"]
    PROVE  BoundOK' /\ created' \in 0 .. MaxRequests
<1>1. Callers' = Callers \cup {t} /\ t \notin Callers
  BY DEF TypeOK, Callers
<1>2. /\ IsFiniteSet(Callers \cup {t})
      /\ Cardinality(Callers \cup {t}) = Cardinality(Callers) + 1
  BY <1>1, FS_AddElement DEF BoundOK
<1>3. Cardinality(Callers) \in Nat /\ created \in Nat /\ MaxRequests \in Nat
  BY FS_CardinalityType, PrimitiveQueueAssumption DEF BoundOK, TypeOK
<1>4. QED
  BY <1>1, <1>2, <1>3 DEF BoundOK, Room

(* A call that has made up its mind may have created a request. *)
LEMMA CallerLeaves ==
    ASSUME TypeOK, BoundOK, NEW t \in Threads, pc[t] \in {"check", "walk"},
           created' \in {created, created + 1},
           NEW where \in {"wait", "direct"}, pc' = [pc EXCEPT ![t] = where]
    PROVE  BoundOK' /\ created' \in 0 .. MaxRequests /\ created + 1 \in 1 .. MaxRequests
<1>1. Callers' = Callers \ {t} /\ t \in Callers
  BY DEF TypeOK, Callers
<1>2. /\ IsFiniteSet(Callers \ {t})
      /\ Cardinality(Callers \ {t}) = Cardinality(Callers) - 1
  BY <1>1, FS_RemoveElement DEF BoundOK
<1>3. Cardinality(Callers \ {t}) \in Nat /\ created \in Nat /\ MaxRequests \in Nat
      /\ Cardinality(Callers) \in Nat
  BY <1>2, FS_CardinalityType, PrimitiveQueueAssumption DEF BoundOK, TypeOK
<1>4. QED
  BY <1>1, <1>2, <1>3 DEF BoundOK

(* Room for one more request. *)
LEMMA RequestFits ==
    ASSUME TypeOK, BoundOK, Room(1),
           \A t \in Threads : pc'[t] \in {"check", "walk"} <=> pc[t] \in {"check", "walk"},
           created' = created + 1
    PROVE  BoundOK' /\ created' \in 0 .. MaxRequests /\ created + 1 \in 1 .. MaxRequests
<1>1. Callers' = Callers
  BY DEF Callers
<1>2. Cardinality(Callers) \in Nat /\ created \in Nat /\ MaxRequests \in Nat
  BY FS_CardinalityType, PrimitiveQueueAssumption DEF BoundOK, TypeOK
<1>3. QED
  BY <1>1, <1>2 DEF BoundOK, Room

----------------------------------------------------------------------------
(* Steps of a call that leave the list alone *)

LEMMA CallOnly ==
    ASSUME TypeOK, PrimitiveQueueInvariant, NEW t \in Threads,
           UNCHANGED <<queue, event, exitFlag, xpc, current, opc, created, unmarked, lost>>,
           pc' \in [Threads -> {"idle", "check", "walk", "dummy", "wait", "direct"}],
           arg' \in [Threads -> [prim : Prims, set : BOOLEAN] \cup Request \cup {None}],
           before' \in [Threads -> SUBSET (1 .. MaxRequests)],
           \A r \in Threads \ {t} : pc'[r] = pc[r] /\ arg'[r] = arg[r] /\ before'[r] = before[r],
           pc[t] # "dummy", pc'[t] \in {"idle", "check", "walk", "direct"},
           pc'[t] # "idle" => arg'[t] \in [prim : Prims, set : BOOLEAN],
           \A id \in before'[t] : id <= created,
           pc[t] = "wait" => t \in completed, completed' = completed \ {t},
           \/ lock' = lock /\ pc'[t] # "walk"
           \/ lock = None /\ lock' = t
           \/ lock = t /\ lock' = None /\ pc'[t] # "walk",
           raced' \in BOOLEAN, exempt' \subseteq Threads, BoundOK', DirectReads'
    PROVE  TypeOK' /\ PrimitiveQueueInvariant'
<1>1. Outstanding' = Outstanding /\ (\A p : Pending(p)' = Pending(p)) /\ Busy' = Busy
  BY OutstandingSame
<1>2. TypeOK'
  BY DEF TypeOK
<1>3. PositionsOK'
  <2>1. \A r \in Threads : pc'[r] \in {"dummy", "walk"} => lock' = r
    BY NoneFacts DEF PrimitiveQueueInvariant, PositionsOK
  <2>2. QED
    BY <1>1, <2>1 DEF PrimitiveQueueInvariant, PositionsOK
<1>4. DummyOwed'
  BY DEF PrimitiveQueueInvariant, DummyOwed
<1>5. OrderOK'
  BY <1>1 DEF PrimitiveQueueInvariant, OrderOK
<1>6. WaitersOK'
  <2>1. ASSUME NEW r \in Outstanding, r.caller # None
        PROVE  r.caller \in Threads /\ r.caller # t
    <3>1. r \in Request
      BY OutstandingType DEF PrimitiveQueueInvariant
    <3>2. r.caller \in Threads
      BY <2>1, <3>1 DEF Request
    <3>3. pc[r.caller] = "wait" /\ r.caller \notin completed
      BY <2>1 DEF PrimitiveQueueInvariant, WaitersOK
    <3>4. QED
      BY <3>2, <3>3
  <2>2. \A r \in completed' : pc'[r] = "wait"
    BY DEF TypeOK, PrimitiveQueueInvariant, WaitersOK
  <2>3. \A r \in Outstanding' : r.caller # None =>
         /\ ~r.delay /\ pc'[r.caller] = "wait" /\ r.caller \notin completed'
         /\ \A id \in before'[r.caller] : id < r.id
    BY <1>1, <2>1 DEF PrimitiveQueueInvariant, WaitersOK
  <2>4. QED
    BY <1>1, <2>2, <2>3 DEF PrimitiveQueueInvariant, WaitersOK
<1>7. Marked'
  <2>1. ASSUME lock # None, pc[lock] = "dummy"
        PROVE  lock' = lock /\ pc'[lock'] = "dummy" /\ arg'[lock'] = arg[lock]
    BY <2>1 DEF TypeOK
  <2>2. QED
    BY <1>1, <2>1 DEF PrimitiveQueueInvariant, Marked
<1>8. DummyBehind'
  BY DEF PrimitiveQueueInvariant, DummyBehind
<1>9. LostOK' /\ MemoryOK'
  BY <1>1 DEF PrimitiveQueueInvariant, LostOK, MemoryOK
<1>10. QED
  BY <1>2, <1>3, <1>4, <1>5, <1>6, <1>7, <1>8, <1>9 DEF PrimitiveQueueInvariant

LEMMA ExecuteGetStep ==
    ASSUME TypeOK, PrimitiveQueueInvariant, NEW t \in Threads, NEW p \in Prims,
           ExecuteGet(t, p)
    PROVE  TypeOK' /\ PrimitiveQueueInvariant'
<1>1. /\ pc[t] = "idle" /\ Room(1)
      /\ pc' = [pc EXCEPT ![t] = "check"] /\ arg' = [arg EXCEPT ![t] = [prim |-> p, set |-> FALSE]]
      /\ before' = [before EXCEPT ![t] = Pending(p)]
      /\ UNCHANGED <<queue, event, lock, exitFlag, xpc, current, completed, opc, created,
                     raced, exempt, unmarked, lost>>
  BY DEF ExecuteGet, MayCall, Go, queueVars, execVars
<1>2. BoundOK'
  <2>1. Room(0 + 1) /\ created' = created + 0
    BY <1>1 DEF TypeOK
  <2>2. QED
    BY <1>1, <2>1, CallerEnters DEF PrimitiveQueueInvariant
<1>3. DirectReads'
  BY <1>1, OutstandingSame, DirectKept DEF TypeOK
<1>4. t \notin completed
  BY <1>1 DEF PrimitiveQueueInvariant, WaitersOK
<1>5. Pending(p) \subseteq 1 .. created /\ created \in 0 .. MaxRequests /\ MaxRequests \in Nat
  BY PendingBound, PrimitiveQueueAssumption DEF TypeOK, PrimitiveQueueInvariant
<1>6. before' \in [Threads -> SUBSET (1 .. MaxRequests)] /\ \A id \in before'[t] : id <= created
  BY <1>1, <1>5 DEF TypeOK
<1>7. QED
  BY <1>1, <1>2, <1>3, <1>4, <1>6, CallOnly DEF TypeOK

LEMMA CheckStep ==
    ASSUME TypeOK, PrimitiveQueueInvariant, NEW t \in Threads, Check(t)
    PROVE  TypeOK' /\ PrimitiveQueueInvariant'
<1>1. /\ pc[t] = "check"
      /\ UNCHANGED <<queue, event, exitFlag, xpc, current, arg, completed, opc, created,
                     raced, unmarked, lost, before>>
  BY DEF Check, queueVars, execVars
<1>2. t \notin completed /\ arg[t] \in [prim : Prims, set : BOOLEAN]
  BY <1>1 DEF PrimitiveQueueInvariant, WaitersOK, PositionsOK
<1>3. CASE pc' = [pc EXCEPT ![t] = "direct"] /\ exempt' = exempt \cup {t} /\ UNCHANGED lock
  <2>1. BoundOK'
    BY <1>1, <1>3, CallerLeaves DEF PrimitiveQueueInvariant
  <2>2. DirectReads'
    BY <1>1, <1>3, OutstandingSame, DirectKept DEF TypeOK
  <2>3. QED
    BY <1>1, <1>2, <1>3, <2>1, <2>2, CallOnly DEF TypeOK, PrimitiveQueueInvariant, OrderOK
<1>4. CASE lock = None /\ pc' = [pc EXCEPT ![t] = "walk"] /\ lock' = t /\ UNCHANGED exempt
  <2>1. BoundOK'
    BY <1>1, <1>4, CallersSame DEF PrimitiveQueueInvariant, TypeOK
  <2>2. DirectReads'
    BY <1>1, <1>4, OutstandingSame, DirectKept DEF TypeOK
  <2>3. QED
    BY <1>1, <1>2, <1>4, <2>1, <2>2, CallOnly DEF TypeOK, PrimitiveQueueInvariant, OrderOK
<1>5. QED
  BY <1>3, <1>4 DEF Check

(* The call goes on to execute its primitive itself. *)
LEMMA WalkGoesOn ==
    ASSUME TypeOK, PrimitiveQueueInvariant, NEW t \in Threads, pc[t] = "walk",
           pc' = [pc EXCEPT ![t] = "direct"], lock' = None, raced' = FALSE,
           \/ exempt' = exempt \cup {t}
           \/ exempt' = exempt /\ ~MustDelay(arg[t]),
           UNCHANGED <<queueVars, exitFlag, execVars, arg, completed, opc, created,
                       unmarked, lost, before>>
    PROVE  TypeOK' /\ PrimitiveQueueInvariant'
<1>1. UNCHANGED <<queue, event, exitFlag, xpc, current, arg, completed, opc, created,
                  unmarked, lost, before>>
  BY DEF queueVars, execVars
<1>2. t \notin completed /\ arg[t] \in [prim : Prims, set : BOOLEAN] /\ lock = t
  BY DEF PrimitiveQueueInvariant, WaitersOK, PositionsOK
<1>3. BoundOK'
  BY <1>1, CallerLeaves DEF PrimitiveQueueInvariant
<1>4. DirectReads'
  <2>1. \A p : Pending(p)' = Pending(p)
    BY <1>1, OutstandingSame
  <2>2. SUFFICES ASSUME NEW r \in Threads, r \notin exempt', pc'[r] = "direct", ~arg'[r].set
                 PROVE  Unseen(r)' \subseteq unmarked'
    BY DEF DirectReads
  <2>3. Unseen(r)' = Unseen(r)
    BY <1>1, <2>1 DEF Unseen
  <2>4. CASE r = t
    <3>1. ~MustDelay(arg[t]) /\ ~arg[t].set
      BY <1>1, <2>2, <2>4
    <3>2. Pending(arg[t].prim) \subseteq unmarked
      BY <3>1, WalkSeesAll
    <3>3. QED
      BY <1>1, <2>3, <2>4, <3>2 DEF Unseen
  <2>5. CASE r # t
    BY <1>1, <2>2, <2>3, <2>5 DEF PrimitiveQueueInvariant, DirectReads, TypeOK
  <2>6. QED
    BY <2>4, <2>5
<1>5. /\ pc' \in [Threads -> {"idle", "check", "walk", "dummy", "wait", "direct"}]
      /\ arg' \in [Threads -> [prim : Prims, set : BOOLEAN] \cup Request \cup {None}]
      /\ before' \in [Threads -> SUBSET (1 .. MaxRequests)]
      /\ \A r \in Threads \ {t} : pc'[r] = pc[r] /\ arg'[r] = arg[r] /\ before'[r] = before[r]
      /\ pc'[t] = "direct" /\ arg'[t] = arg[t] /\ exempt' \subseteq Threads
  BY <1>1 DEF TypeOK
<1>6. (\A id \in before'[t] : id <= created) /\ completed' = completed \ {t} /\ raced' \in BOOLEAN
  BY <1>1, <1>2 DEF PrimitiveQueueInvariant, OrderOK
<1>7. QED
  BY <1>1, <1>2, <1>3, <1>4, <1>5, <1>6, CallOnly

LEMMA WalkEndFailsStep ==
    ASSUME TypeOK, PrimitiveQueueInvariant, NEW t \in Threads, WalkEndFails(t)
    PROVE  TypeOK' /\ PrimitiveQueueInvariant'
  BY WalkGoesOn DEF WalkEndFails

(* A call returns. *)
LEMMA ReturnStep ==
    ASSUME TypeOK, PrimitiveQueueInvariant, NEW t \in Threads,
           \/ pc[t] = "direct" /\ UNCHANGED completed
           \/ pc[t] = "wait" /\ t \in completed /\ completed' = completed \ {t},
           Return(t),
           UNCHANGED <<queueVars, lock, exitFlag, execVars, opc, created, raced, unmarked, lost>>
    PROVE  TypeOK' /\ PrimitiveQueueInvariant'
<1>1. /\ pc' = [pc EXCEPT ![t] = "idle"] /\ arg' = [arg EXCEPT ![t] = None]
      /\ exempt' = exempt \ {t} /\ before' = [before EXCEPT ![t] = {}]
      /\ UNCHANGED <<queue, event, lock, exitFlag, xpc, current, opc, created, raced, unmarked, lost>>
  BY DEF Return, Go, queueVars, execVars
<1>2. completed' = completed \ {t}
  BY DEF PrimitiveQueueInvariant, WaitersOK
<1>3. BoundOK'
  BY <1>1, CallersSame DEF PrimitiveQueueInvariant, TypeOK
<1>4. DirectReads'
  BY <1>1, OutstandingSame, DirectKept DEF TypeOK
<1>5. before' \in [Threads -> SUBSET (1 .. MaxRequests)] /\ before'[t] = {}
      /\ \A r \in Threads \ {t} : before'[r] = before[r]
  BY <1>1 DEF TypeOK
<1>6. pc'[t] = "idle" /\ exempt' \subseteq Threads
  BY <1>1 DEF TypeOK
<1>7. /\ pc' \in [Threads -> {"idle", "check", "walk", "dummy", "wait", "direct"}]
      /\ arg' \in [Threads -> [prim : Prims, set : BOOLEAN] \cup Request \cup {None}]
      /\ \A r \in Threads \ {t} : pc'[r] = pc[r] /\ arg'[r] = arg[r]
      /\ raced' \in BOOLEAN
  BY <1>1 DEF TypeOK
<1>8. pc[t] # "dummy" /\ (pc[t] = "wait" => t \in completed)
  OBVIOUS
<1>9. QED
  BY <1>1, <1>2, <1>3, <1>4, <1>5, <1>6, <1>7, <1>8, CallOnly

LEMMA DirectStep ==
    ASSUME TypeOK, PrimitiveQueueInvariant, NEW t \in Threads, Direct(t)
    PROVE  TypeOK' /\ PrimitiveQueueInvariant'
  BY ReturnStep DEF Direct

LEMMA WaitReturnsStep ==
    ASSUME TypeOK, PrimitiveQueueInvariant, NEW t \in Threads, WaitReturns(t)
    PROVE  TypeOK' /\ PrimitiveQueueInvariant'
  BY ReturnStep DEF WaitReturns

----------------------------------------------------------------------------
(* Steps of a call that add to the list *)

(* The new request r of thread t: a SET of nobody's, or one with a caller.   *)
LEMMA RequestAdded ==
    ASSUME TypeOK, PrimitiveQueueInvariant, NEW t \in Threads,
           NEW r \in Request, ~r.dummy, r.id = created + 1, Enqueue(r), created' = created + 1,
           created' \in 0 .. MaxRequests, BoundOK',
           pc' \in [Threads -> {"idle", "check", "walk", "dummy", "wait", "direct"}],
           arg' \in [Threads -> [prim : Prims, set : BOOLEAN] \cup Request \cup {None}],
           \A q \in Threads \ {t} : pc'[q] = pc[q] /\ arg'[q] = arg[q],
           \/ /\ r.caller = None /\ pc[t] = "idle" /\ lock = None
              /\ IF r.delay THEN lock' = t /\ pc'[t] = "dummy" /\ arg'[t] = r
                            ELSE UNCHANGED <<lock, pc, arg>>
           \/ /\ r.caller = t /\ ~r.delay /\ pc[t] = "walk" /\ lock = t
              /\ lock' = None /\ pc'[t] = "wait",
           raced' \in BOOLEAN, exempt \subseteq exempt', exempt' \subseteq Threads,
           UNCHANGED <<exitFlag, execVars, completed, opc, unmarked, lost, before>>
    PROVE  TypeOK' /\ PrimitiveQueueInvariant'
<1> USE DEF PrimitiveQueueInvariant
<1>1. /\ queue' = Append(queue, r) /\ event' = TRUE
      /\ UNCHANGED <<exitFlag, xpc, current, completed, opc, unmarked, lost, before>>
  BY DEF Enqueue, execVars
<1>2. /\ Outstanding' = Outstanding \cup {r} /\ Busy' = Busy
      /\ \A p : Pending(p)' = Pending(p) \cup (IF r.delay /\ r.prim = p THEN {r.id} ELSE {})
  BY <1>1, OutstandingAppend
<1>3. /\ queue' \in Seq(Request \cup {None})
      /\ Len(queue') = Len(queue) + 1 /\ DOMAIN queue' = 1 .. Len(queue) + 1
      /\ \A i \in 1 .. Len(queue) : queue'[i] = queue[i]
      /\ queue'[Len(queue) + 1] = r /\ ToSet(queue') = ToSet(queue) \cup {r} /\ queue' # <<>>
  BY <1>1, AppendShape
<1>4. Len(queue) \in Nat /\ DOMAIN queue = 1 .. Len(queue) /\ created \in Nat /\ IsReal(r)
      /\ \A i \in 1 .. Len(queue) : queue[i] \in ToSet(queue)
  BY QueueShape, NoneFacts DEF TypeOK
<1>5. None \notin Threads /\ t # None
  BY NoneFacts
<1>6. \A q \in Outstanding : q \in Request /\ ~q.dummy /\ q.id \in Nat /\ q.id <= created
  BY OutstandingType DEF OrderOK, Request
<1>7. TypeOK'
  BY <1>1, <1>3 DEF TypeOK
<1>8. PositionsOK'
  BY <1>1, <1>2, <1>5 DEF PositionsOK
<1>9. DummyOwed'
  <2>1. ASSUME NEW q \in Threads, pc'[q] = "dummy"
        PROVE  arg'[q] = r /\ r.delay /\ r.caller = None
    <3>1. pc[q] = "dummy" => lock = q
      BY DEF PositionsOK
    <3>2. QED
      BY <1>5, <2>1, <3>1
  <2>2. QED
    BY <1>3, <2>1 DEF DummyOwed
<1>10. OrderOK'
  <2>1. \A i \in 1 .. Len(queue) : IsReal(queue[i]) => queue[i].id \in Nat /\ queue[i].id < r.id
    BY <1>4, <1>6 DEF Outstanding
  <2>2. Busy => current.id < r.id
    BY <1>4, <1>6 DEF Outstanding
  <2>3. \A i, j \in DOMAIN queue' :
           i < j /\ IsReal(queue'[i]) /\ IsReal(queue'[j]) => queue'[i].id < queue'[j].id
    <3> SUFFICES ASSUME NEW i \in DOMAIN queue', NEW j \in DOMAIN queue', i < j,
                        IsReal(queue'[i]), IsReal(queue'[j])
                 PROVE  queue'[i].id < queue'[j].id
      OBVIOUS
    <3>1. CASE j = Len(queue) + 1
      BY <1>3, <1>4, <2>1, <3>1
    <3>2. CASE j # Len(queue) + 1
      BY <1>3, <1>4, <3>2 DEF OrderOK
    <3>3. QED
      BY <3>1, <3>2
  <2>4. \A i \in DOMAIN queue' : Busy' /\ IsReal(queue'[i]) => current'.id < queue'[i].id
    BY <1>1, <1>2, <1>3, <1>4, <2>2 DEF OrderOK
  <2>5. \A q \in Outstanding' : q.id <= created'
    BY <1>2, <1>4, <1>6
  <2>6. \A q \in Threads : \A id \in before'[q] : id <= created'
    <3>1. \A q \in Threads : \A id \in before[q] : id <= created /\ id \in Nat
      BY DEF OrderOK, TypeOK
    <3>2. QED
      BY <1>1, <1>4, <3>1
  <2>7. QED
    BY <2>3, <2>4, <2>5, <2>6 DEF OrderOK
<1>11. WaitersOK'
  <2>0. \A q \in Outstanding : q.caller # None => q.caller \in Threads /\ q.caller # t
    BY <1>6 DEF WaitersOK, Request
  <2>1. \A q \in completed' : pc'[q] = "wait"
    BY <1>1 DEF WaitersOK, TypeOK
  <2>2. t \notin completed
    BY DEF WaitersOK
  <2>3. ASSUME NEW q \in Outstanding', q.caller # None
        PROVE  /\ ~q.delay /\ pc'[q.caller] = "wait" /\ q.caller \notin completed'
               /\ \A id \in before'[q.caller] : id < q.id
    <3>1. CASE q = r
      <4>1. r.caller = t /\ ~r.delay /\ pc'[t] = "wait"
        BY <2>3, <3>1
      <4>2. \A id \in before[t] : id \in Nat /\ id <= created
        BY DEF OrderOK, TypeOK
      <4>3. QED
        BY <1>1, <1>4, <2>2, <3>1, <4>1, <4>2
    <3>2. CASE q \in Outstanding
      BY <1>1, <2>0, <2>3, <3>2 DEF WaitersOK
    <3>3. QED
      BY <1>2, <3>1, <3>2
  <2>4. \A q, s \in Outstanding' : q.caller # None /\ q.caller = s.caller => q.id = s.id
    BY <1>2, <2>0 DEF WaitersOK
  <2>5. \A q \in ToSet(queue') : q # None /\ q.dummy => q.caller = None
    BY <1>3 DEF WaitersOK
  <2>6. QED
    BY <2>1, <2>3, <2>4, <2>5 DEF WaitersOK
<1>12. Marked'
  <2> SUFFICES ASSUME NEW p \in Prims, NEW id \in Pending(p)'
               PROVE  \/ id \in unmarked'
                      \/ \E q \in ToSet(queue') : q # None /\ q.dummy /\ q.id = id
                      \/ lock' # None /\ pc'[lock'] = "dummy" /\ arg'[lock'].id = id
    BY DEF Marked
  <2>1. CASE id \in Pending(p)
    <3>1. ~(lock # None /\ pc[lock] = "dummy")
      OBVIOUS
    <3>2. id \in unmarked \/ \E q \in ToSet(queue) : q # None /\ q.dummy /\ q.id = id
      BY <2>1, <3>1 DEF Marked
    <3>3. QED
      BY <1>1, <1>3, <3>2
  <2>2. CASE id = r.id /\ r.delay
    BY <1>5, <2>2
  <2>3. QED
    BY <1>2, <2>1, <2>2
<1>13. DummyBehind'
  <2> SUFFICES ASSUME NEW i \in DOMAIN queue', queue'[i] # None, queue'[i].dummy
               PROVE  LET real == [queue'[i] EXCEPT !.dummy = FALSE] IN
                      \/ i > 1 /\ queue'[i - 1] = real
                      \/ i = 1 /\ current' = real /\ xpc' \in {"execute", "cleanup"}
                      \/ real \in lost
    BY <1>1 DEF DummyBehind
  <2>1. i \in 1 .. Len(queue) /\ queue'[i] = queue[i]
    BY <1>3, <1>4
  <2>2. i > 1 => queue'[i - 1] = queue[i - 1]
    BY <1>3, <1>4, <2>1
  <2>3. QED
    BY <1>1, <1>4, <2>1, <2>2 DEF DummyBehind
<1>14. DirectReads'
  <2>1. \A p : Pending(p)' \cap (1 .. created) \subseteq Pending(p)
    BY <1>2, <1>4
  <2>2. \A p : Pending(p)' \cap unmarked \subseteq unmarked'
    BY <1>1
  <2>3. \A q \in Threads : q \notin exempt' /\ pc'[q] = "direct" => q \notin exempt /\ q # t
    OBVIOUS
  <2>4. QED
    BY <1>1, <2>1, <2>2, <2>3, DirectKept
<1>15. LostOK' /\ MemoryOK'
  <2>1. \A l \in lost : l.id \in Nat /\ l.id <= created
    BY DEF LostOK, TypeOK, Request
  <2>2. QED
    BY <1>1, <1>2, <1>4, <2>1 DEF LostOK, MemoryOK
<1>16. QED
  BY <1>7, <1>8, <1>9, <1>10, <1>11, <1>12, <1>13, <1>14, <1>15

LEMMA QueueSetStep ==
    ASSUME TypeOK, PrimitiveQueueInvariant, NEW t \in Threads, NEW p \in Prims,
           NEW delay \in BOOLEAN, QueueSet(t, p, delay)
    PROVE  TypeOK' /\ PrimitiveQueueInvariant'
<1> DEFINE r == NewRequest(p, TRUE, delay, None)
<1>1. /\ pc[t] = "idle" /\ lock = None /\ Room(1) /\ Enqueue(r) /\ created' = created + 1
      /\ IF delay THEN lock' = t /\ Go(t, "dummy", r) ELSE UNCHANGED <<lock, pc, arg>>
      /\ UNCHANGED <<exitFlag, execVars, completed, opc, raced, exempt, unmarked, lost, before>>
  BY DEF QueueSet, MayCall, ghosts
<1>2. \A q \in Threads : pc'[q] \in {"check", "walk"} <=> pc[q] \in {"check", "walk"}
  BY <1>1 DEF Go, TypeOK
<1>3. BoundOK' /\ created' \in 0 .. MaxRequests /\ created + 1 \in 1 .. MaxRequests
  BY <1>1, <1>2, RequestFits DEF PrimitiveQueueInvariant
<1>4. /\ r \in Request /\ ~r.dummy /\ r.id = created + 1 /\ r.delay = delay /\ r.caller = None
  BY <1>3 DEF NewRequest, Request
<1> HIDE DEF r
<1>5. /\ pc' \in [Threads -> {"idle", "check", "walk", "dummy", "wait", "direct"}]
      /\ arg' \in [Threads -> [prim : Prims, set : BOOLEAN] \cup Request \cup {None}]
      /\ \A q \in Threads \ {t} : pc'[q] = pc[q] /\ arg'[q] = arg[q]
      /\ delay => pc'[t] = "dummy" /\ arg'[t] = r
  <2>1. CASE delay
    BY <1>1, <1>4, <2>1 DEF Go, TypeOK
  <2>2. CASE ~delay
    BY <1>1, <2>2 DEF TypeOK
  <2>3. QED
    BY <2>1, <2>2
<1>6. raced' \in BOOLEAN /\ exempt' \subseteq Threads /\ exempt \subseteq exempt'
  BY <1>1 DEF TypeOK
<1>7. IF r.delay THEN lock' = t /\ pc'[t] = "dummy" /\ arg'[t] = r ELSE UNCHANGED <<lock, pc, arg>>
  BY <1>1, <1>4, <1>5
<1>8. QED
  BY <1>1, <1>3, <1>4, <1>5, <1>6, <1>7, RequestAdded

LEMMA WalkEndStep ==
    ASSUME TypeOK, PrimitiveQueueInvariant, NEW t \in Threads, WalkEnd(t)
    PROVE  TypeOK' /\ PrimitiveQueueInvariant'
<1> DEFINE r == NewRequest(arg[t].prim, arg[t].set, FALSE, t)
<1>1. /\ pc[t] = "walk" /\ lock' = None /\ raced' = FALSE
      /\ exempt' = IF raced THEN exempt \cup {t} ELSE exempt
      /\ UNCHANGED <<exitFlag, execVars, arg, completed, opc, unmarked, lost, before>>
  BY DEF WalkEnd
<1>2. lock = t /\ arg[t] \in [prim : Prims, set : BOOLEAN]
  BY <1>1 DEF PrimitiveQueueInvariant, PositionsOK
<1>3. CASE Enqueue(r) /\ created' = created + 1 /\ pc' = [pc EXCEPT ![t] = "wait"]
  <2>1. BoundOK' /\ created' \in 0 .. MaxRequests /\ created + 1 \in 1 .. MaxRequests
    BY <1>1, <1>3, CallerLeaves DEF PrimitiveQueueInvariant
  <2>2. r \in Request /\ ~r.dummy /\ r.id = created + 1 /\ ~r.delay /\ r.caller = t
    BY <1>2, <2>1 DEF NewRequest, Request
  <2> HIDE DEF r
  <2>3. /\ pc' \in [Threads -> {"idle", "check", "walk", "dummy", "wait", "direct"}]
        /\ arg' \in [Threads -> [prim : Prims, set : BOOLEAN] \cup Request \cup {None}]
        /\ \A q \in Threads \ {t} : pc'[q] = pc[q] /\ arg'[q] = arg[q]
        /\ pc'[t] = "wait"
    BY <1>1, <1>3 DEF TypeOK
  <2>4. raced' \in BOOLEAN /\ exempt' \subseteq Threads /\ exempt \subseteq exempt'
    BY <1>1 DEF TypeOK
  <2>5. QED
    BY <1>1, <1>2, <1>3, <2>1, <2>2, <2>3, <2>4, RequestAdded
<1>4. CASE /\ ~MustDelay(arg[t]) \/ raced
           /\ pc' = [pc EXCEPT ![t] = "direct"]
           /\ UNCHANGED <<queueVars, created>>
  <2>1. \/ exempt' = exempt \cup {t}
        \/ exempt' = exempt /\ ~MustDelay(arg[t])
    BY <1>1, <1>4
  <2>2. QED
    BY <1>1, <1>4, <2>1, WalkGoesOn
<1>5. QED
  BY <1>3, <1>4 DEF WalkEnd

(* The dummy follows its request, or is not to be had. *)
LEMMA QueueDummyStep ==
    ASSUME TypeOK, PrimitiveQueueInvariant, NEW t \in Threads, QueueDummy(t)
    PROVE  TypeOK' /\ PrimitiveQueueInvariant'
<1> USE DEF PrimitiveQueueInvariant
<1> DEFINE d == [arg[t] EXCEPT !.dummy = TRUE]
<1>1. /\ pc[t] = "dummy" /\ lock' = None
      /\ \/ Enqueue(d) /\ UNCHANGED unmarked
         \/ MayFail /\ unmarked' = unmarked \cup {arg[t].id} /\ UNCHANGED queueVars
      /\ pc' = [pc EXCEPT ![t] = "idle"] /\ arg' = [arg EXCEPT ![t] = None]
      /\ UNCHANGED <<exitFlag, execVars, xpc, current, completed, opc, created, raced, exempt, lost, before>>
  BY DEF QueueDummy, Go, execVars
<1>2. /\ lock = t /\ t # None /\ arg[t] \in Request /\ ~arg[t].dummy /\ arg[t].caller = None
      /\ IF queue = <<>> THEN current = arg[t] /\ xpc \in {"execute", "cleanup"}
                         ELSE queue[Len(queue)] = arg[t]
  BY <1>1, NoneFacts DEF PositionsOK, DummyOwed
<1>3. d \in Request /\ d.dummy /\ d.id = arg[t].id /\ d.caller = None /\ [d EXCEPT !.dummy = FALSE] = arg[t]
      /\ arg[t].id \in 1 .. MaxRequests
  BY <1>2 DEF Request
<1> HIDE DEF d
<1>4. /\ pc' \in [Threads -> {"idle", "check", "walk", "dummy", "wait", "direct"}]
      /\ arg' \in [Threads -> [prim : Prims, set : BOOLEAN] \cup Request \cup {None}]
      /\ \A q \in Threads \ {t} : pc'[q] = pc[q] /\ arg'[q] = arg[q]
      /\ pc'[t] = "idle"
  BY <1>1 DEF TypeOK
<1>5. \A q \in Threads : pc'[q] # "dummy" /\ pc'[q] # "walk"
  BY <1>2, <1>4 DEF PositionsOK
<1>6. Outstanding' = Outstanding /\ (\A p : Pending(p)' = Pending(p)) /\ Busy' = Busy
  <2>1. CASE Enqueue(d)
    BY <1>1, <1>3, <2>1, OutstandingAppend DEF Enqueue
  <2>2. CASE UNCHANGED queueVars
    BY <1>1, <2>2, OutstandingSame DEF queueVars
  <2>3. QED
    BY <1>1, <2>1, <2>2
<1>7. /\ Len(queue) \in Nat /\ DOMAIN queue = 1 .. Len(queue) /\ (queue = <<>> <=> Len(queue) = 0)
      /\ \A i \in 1 .. Len(queue) : queue[i] \in ToSet(queue)
  BY QueueShape
<1>8. \/ UNCHANGED queue
      \/ /\ queue' \in Seq(Request \cup {None}) /\ DOMAIN queue' = 1 .. Len(queue) + 1
         /\ \A i \in 1 .. Len(queue) : queue'[i] = queue[i]
         /\ queue'[Len(queue) + 1] = d /\ ToSet(queue') = ToSet(queue) \cup {d}
  BY <1>1, <1>3, AppendShape DEF Enqueue, queueVars
<1>9. unmarked \subseteq unmarked' /\ unmarked' \subseteq 1 .. MaxRequests
  BY <1>1, <1>3 DEF TypeOK
<1>10. TypeOK'
  <2>1. queue' \in Seq(Request \cup {None}) /\ event' \in BOOLEAN
    BY <1>1, <1>8 DEF TypeOK, Enqueue, queueVars
  <2>2. QED
    BY <1>1, <1>4, <1>9, <2>1 DEF TypeOK
<1>11. PositionsOK'
  BY <1>1, <1>4, <1>5, <1>6 DEF PositionsOK
<1>12. BoundOK'
  BY <1>1, <1>4, CallersSame
<1>13. DummyOwed'
  BY <1>5 DEF DummyOwed
<1>14. OrderOK'
  <2>1. ASSUME NEW i \in DOMAIN queue', IsReal(queue'[i])
        PROVE  i \in DOMAIN queue /\ queue'[i] = queue[i]
    <3>1. ~IsReal(d)
      BY <1>3 DEF IsReal
    <3>2. QED
      BY <1>7, <1>8, <2>1, <3>1
  <2>2. QED
    BY <1>1, <1>6, <2>1 DEF OrderOK
<1>15. WaitersOK'
  <2>1. \A r \in Outstanding : r.caller # None => r.caller \in Threads /\ r.caller # t
    BY <1>1, OutstandingType DEF WaitersOK, Request
  <2>2. \A r \in ToSet(queue') : r # None /\ r.dummy => r.caller = None
    BY <1>3, <1>8 DEF WaitersOK
  <2>3. QED
    BY <1>1, <1>4, <1>6, <2>1, <2>2 DEF WaitersOK, TypeOK
<1>16. Marked'
  <2> SUFFICES ASSUME NEW p \in Prims, NEW id \in Pending(p)
               PROVE  \/ id \in unmarked'
                      \/ \E r \in ToSet(queue') : r # None /\ r.dummy /\ r.id = id
    BY <1>6 DEF Marked
  <2>1. ToSet(queue) \subseteq ToSet(queue')
    BY <1>8
  <2>2. id \in unmarked \/ (\E r \in ToSet(queue) : r # None /\ r.dummy /\ r.id = id)
           \/ arg[t].id = id
    BY <1>2 DEF Marked
  <2>3. CASE arg[t].id = id
    <3>1. CASE unmarked' = unmarked \cup {arg[t].id}
      BY <2>3, <3>1
    <3>2. CASE Enqueue(d)
      <4>1. d \in ToSet(queue') /\ d # None
        BY <1>3, <3>2, AppendShape, NoneFacts DEF Enqueue
      <4>2. QED
        BY <1>3, <2>3, <4>1
    <3>3. QED
      BY <1>1, <3>1, <3>2
  <2>4. QED
    BY <1>9, <2>1, <2>2, <2>3
<1>17. DummyBehind'
  <2> SUFFICES ASSUME NEW i \in DOMAIN queue', queue'[i] # None, queue'[i].dummy
               PROVE  LET real == [queue'[i] EXCEPT !.dummy = FALSE] IN
                      \/ i > 1 /\ queue'[i - 1] = real
                      \/ i = 1 /\ current' = real /\ xpc' \in {"execute", "cleanup"}
                      \/ real \in lost
    BY <1>1 DEF DummyBehind
  <2>1. CASE i \in DOMAIN queue
    <3>1. queue'[i] = queue[i] /\ (i > 1 => queue'[i - 1] = queue[i - 1])
      BY <1>7, <1>8, <2>1
    <3>2. QED
      BY <1>1, <2>1, <3>1 DEF DummyBehind
  <2>2. CASE i \notin DOMAIN queue
    <3>1. i = Len(queue) + 1 /\ queue'[i] = d /\ \A j \in 1 .. Len(queue) : queue'[j] = queue[j]
      BY <1>7, <1>8, <2>2
    <3>2. CASE queue = <<>>
      BY <1>1, <1>2, <1>3, <1>7, <3>1, <3>2
    <3>3. CASE queue # <<>>
      <4>1. Len(queue) \in 1 .. Len(queue) /\ i > 1 /\ i - 1 = Len(queue)
        BY <1>7, <3>1, <3>3
      <4>2. QED
        BY <1>2, <1>3, <3>1, <3>3, <4>1
    <3>4. QED
      BY <3>2, <3>3
  <2>3. QED
    BY <2>1, <2>2
<1>18. DirectReads'
  <2>1. \A q \in Threads : pc'[q] = "direct" => q # t
    BY <1>4
  <2>2. QED
    BY <1>1, <1>4, <1>6, <1>9, <2>1, DirectKept
<1>19. LostOK' /\ MemoryOK'
  BY <1>1, <1>6 DEF LostOK, MemoryOK
<1>20. QED
  BY <1>10, <1>11, <1>12, <1>13, <1>14, <1>15, <1>16, <1>17, <1>18, <1>19

(* A SET for which there was no memory: its dummy alone is queued, or        *)
(* nothing, and its caller goes on to execute it.                            *)
LEMMA QueueSetFailsStep ==
    ASSUME TypeOK, PrimitiveQueueInvariant, NEW t \in Threads, NEW p \in Prims,
           QueueSetFails(t, p)
    PROVE  TypeOK' /\ PrimitiveQueueInvariant'
<1> USE DEF PrimitiveQueueInvariant
<1> DEFINE r == NewRequest(p, TRUE, TRUE, None)
           d == [r EXCEPT !.dummy = TRUE]
<1>1. /\ pc[t] = "idle" /\ MayFail
      /\ pc' = [pc EXCEPT ![t] = "check"] /\ arg' = [arg EXCEPT ![t] = [prim |-> p, set |-> TRUE]]
      /\ UNCHANGED <<lock, exitFlag, execVars, xpc, current, completed, opc, raced, exempt,
                     unmarked, before>>
      /\ \/ Room(1) /\ UNCHANGED <<queue, event, created, lost>>
         \/ Room(2) /\ Enqueue(d) /\ created' = created + 1 /\ lost' = lost \cup {r}
  BY DEF QueueSetFails, MayCall, Go, queueVars, execVars
<1>2. /\ t \notin completed /\ created \in Nat
      /\ pc' \in [Threads -> {"idle", "check", "walk", "dummy", "wait", "direct"}]
      /\ arg' \in [Threads -> [prim : Prims, set : BOOLEAN] \cup Request \cup {None}]
      /\ \A q \in Threads \ {t} : pc'[q] = pc[q] /\ arg'[q] = arg[q]
      /\ pc'[t] = "check" /\ arg'[t] \in [prim : Prims, set : BOOLEAN]
  BY <1>1 DEF WaitersOK, TypeOK
<1>3. CASE Room(1) /\ UNCHANGED <<queue, event, created, lost>>
  <2>1. Room(0 + 1) /\ created' = created + 0
    BY <1>2, <1>3 DEF TypeOK
  <2>2. BoundOK'
    BY <1>1, <2>1, CallerEnters
  <2>3. DirectReads'
    BY <1>1, <1>2, <1>3, OutstandingSame, DirectKept
  <2>4. t \notin completed
    BY <1>1 DEF WaitersOK
  <2>5. QED
    BY <1>1, <1>2, <1>3, <2>2, <2>3, <2>4, CallOnly DEF TypeOK, OrderOK
<1>4. CASE Room(2) /\ Enqueue(d) /\ created' = created + 1 /\ lost' = lost \cup {r}
  <2>1. BoundOK' /\ created' \in 0 .. MaxRequests /\ created + 1 \in 1 .. MaxRequests
    <3>1. created \in Nat /\ MaxRequests \in Nat /\ Room(1 + 1)
      BY <1>4, PrimitiveQueueAssumption DEF TypeOK
    <3>2. BoundOK' /\ created' \in 0 .. MaxRequests
      BY <1>1, <1>4, <3>1, CallerEnters
    <3>3. QED
      BY <1>4, <3>1, <3>2
  <2>2. /\ r \in Request /\ ~r.dummy /\ r.id = created + 1 /\ r.caller = None
        /\ d \in Request /\ d.dummy /\ d.id = created + 1 /\ d.caller = None
        /\ [d EXCEPT !.dummy = FALSE] = r
    <3>1. r \in Request /\ ~r.dummy /\ r.id = created + 1 /\ r.caller = None
      BY <2>1 DEF NewRequest, Request
    <3> HIDE DEF r
    <3>2. QED
      BY <3>1 DEF Request
  <2> HIDE DEF r, d
  <2>3. queue' = Append(queue, d) /\ event' = TRUE
    BY <1>4 DEF Enqueue
  <2>4. /\ queue' \in Seq(Request \cup {None}) /\ DOMAIN queue' = 1 .. Len(queue) + 1
        /\ \A i \in 1 .. Len(queue) : queue'[i] = queue[i]
        /\ queue'[Len(queue) + 1] = d /\ ToSet(queue') = ToSet(queue) \cup {d}
    BY <2>2, <2>3, AppendShape
  <2>5. Len(queue) \in Nat /\ DOMAIN queue = 1 .. Len(queue) /\ created \in Nat
    BY QueueShape DEF TypeOK
  <2>6. Outstanding' = Outstanding /\ (\A q : Pending(q)' = Pending(q)) /\ Busy' = Busy
    BY <1>1, <2>2, <2>3, OutstandingAppend
  <2>7. \A q \in Threads : pc'[q] \in {"dummy", "walk", "wait", "direct"} => q # t
    BY <1>2
  <2>8. \A q \in Outstanding : q.id \in Nat /\ q.id <= created
    BY OutstandingType DEF OrderOK, Request
  <2>9. TypeOK'
    BY <1>1, <1>2, <1>4, <2>1, <2>2, <2>3, <2>4 DEF TypeOK
  <2>10. PositionsOK'
    BY <1>1, <1>2, <2>6 DEF PositionsOK
  <2>11. DummyOwed'
    <3>1. \A q \in Threads : pc[q] # "dummy"
      BY NoneFacts DEF QueueSetFails, PositionsOK
    <3>2. QED
      BY <1>2, <3>1 DEF DummyOwed
  <2>12. OrderOK'
    <3>1. ASSUME NEW i \in DOMAIN queue', IsReal(queue'[i])
          PROVE  i \in DOMAIN queue /\ queue'[i] = queue[i]
      BY <2>2, <2>4, <2>5, <3>1 DEF IsReal
    <3>2. \A q \in Threads : \A id \in before'[q] : id <= created'
      <4>1. \A q \in Threads : \A id \in before[q] : id <= created /\ id \in Nat
        BY DEF OrderOK, TypeOK
      <4>2. QED
        BY <1>1, <1>4, <2>5, <4>1
    <3>3. \A q \in Outstanding' : q.id <= created'
      BY <1>4, <2>5, <2>6, <2>8
    <3>4. QED
      BY <1>1, <2>6, <3>1, <3>2, <3>3 DEF OrderOK
  <2>13. WaitersOK'
    <3>1. \A q \in Outstanding : q.caller # None => q.caller \in Threads /\ q.caller # t
      BY <1>1, OutstandingType DEF WaitersOK, Request
    <3>2. \A q \in ToSet(queue') : q # None /\ q.dummy => q.caller = None
      BY <2>2, <2>4 DEF WaitersOK
    <3>3. \A q \in completed : q # t
      BY <1>1 DEF WaitersOK
    <3>4. QED
      BY <1>1, <1>2, <2>6, <3>1, <3>2, <3>3 DEF WaitersOK, TypeOK
  <2>14. Marked'
    <3>1. lock = None
      BY DEF QueueSetFails
    <3>2. QED
      BY <1>1, <2>4, <2>6, <3>1 DEF Marked
  <2>15. DummyBehind'
    <3> SUFFICES ASSUME NEW i \in DOMAIN queue', queue'[i] # None, queue'[i].dummy
                 PROVE  LET real == [queue'[i] EXCEPT !.dummy = FALSE] IN
                        \/ i > 1 /\ queue'[i - 1] = real
                        \/ i = 1 /\ current' = real /\ xpc' \in {"execute", "cleanup"}
                        \/ real \in lost'
      BY DEF DummyBehind
    <3>1. CASE i \in DOMAIN queue
      <4>1. queue'[i] = queue[i] /\ (i > 1 => queue'[i - 1] = queue[i - 1])
        BY <2>4, <2>5, <3>1
      <4>2. QED
        BY <1>1, <1>4, <3>1, <4>1 DEF DummyBehind
    <3>2. CASE i \notin DOMAIN queue
      <4>1. queue'[i] = d
        BY <2>4, <2>5, <3>2
      <4>2. QED
        BY <1>4, <2>2, <4>1
    <3>3. QED
      BY <3>1, <3>2
  <2>16. DirectReads'
    BY <1>1, <1>2, <2>6, <2>7, DirectKept
  <2>17. LostOK' /\ MemoryOK'
    <3>1. \A l \in lost : l.id \in Nat /\ l.id <= created
      BY DEF LostOK, TypeOK, Request
    <3>2. QED
      BY <1>1, <1>4, <2>2, <2>5, <2>6, <2>8, <3>1 DEF LostOK, MemoryOK
  <2>18. QED
    BY <2>1, <2>9, <2>10, <2>11, <2>12, <2>13, <2>14, <2>15, <2>16, <2>17
<1>5. QED
  BY <1>1, <1>3, <1>4

----------------------------------------------------------------------------
(* The executing thread, EsifArbMgr_Stop and EsifArbMgr_Exit *)

(* Steps that leave the requests where they are. *)
LEMMA QuietStep ==
    ASSUME TypeOK, PrimitiveQueueInvariant,
           UNCHANGED <<queue, lock, current, callVars, created, raced, ghosts>>,
           event' \in BOOLEAN, exitFlag' \in BOOLEAN,
           opc' \in {"running", "flagged", "join", "stopped", "destroyed"},
           xpc' \in {"loop", "wait", "dequeue", "execute", "cleanup", "destroy", "exited"},
           \/ UNCHANGED xpc
           \/ {xpc, xpc'} \subseteq {"loop", "wait", "dequeue", "exited"},
           opc' \in {"stopped", "destroyed"} => xpc' = "exited"
    PROVE  TypeOK' /\ PrimitiveQueueInvariant'
<1> USE DEF PrimitiveQueueInvariant
<1>1. UNCHANGED <<queue, lock, current, pc, arg, completed, created, raced, exempt, unmarked, lost, before>>
  BY DEF callVars, ghosts
<1>2. Busy' = Busy /\ (Busy => UNCHANGED xpc)
  BY DEF Busy
<1>3. Outstanding' = Outstanding /\ \A p : Pending(p)' = Pending(p)
  BY <1>1, <1>2 DEF Outstanding, Pending, Busy
<1>4. TypeOK'
  BY <1>1 DEF TypeOK
<1>5. PositionsOK' /\ BoundOK' /\ OrderOK' /\ WaitersOK'
  BY <1>1, <1>2, <1>3, CallersSame DEF PositionsOK, OrderOK, WaitersOK
<1>6. DummyOwed' /\ DummyBehind'
  BY <1>1, <1>2 DEF DummyOwed, DummyBehind, Busy
<1>7. Marked'
  BY <1>1, <1>3 DEF Marked
<1>8. DirectReads'
  BY <1>1, <1>3, DirectKept
<1>9. LostOK' /\ MemoryOK'
  BY <1>1, <1>3 DEF LostOK, MemoryOK
<1>10. QED
  BY <1>4, <1>5, <1>6, <1>7, <1>8, <1>9

LEMMA XLoopStep ==
    ASSUME TypeOK, PrimitiveQueueInvariant, XLoop
    PROVE  TypeOK' /\ PrimitiveQueueInvariant'
<1>1. /\ xpc = "loop" /\ xpc' \in {"wait", "exited"}
      /\ UNCHANGED <<queue, event, lock, exitFlag, current, callVars, opc, created, raced, ghosts>>
  BY DEF XLoop, queueVars
<1>2. opc' \notin {"stopped", "destroyed"}
  BY <1>1 DEF PrimitiveQueueInvariant, PositionsOK
<1>3. QED
  BY <1>1, <1>2, QuietStep DEF TypeOK

LEMMA XWaitStep ==
    ASSUME TypeOK, PrimitiveQueueInvariant, XWait
    PROVE  TypeOK' /\ PrimitiveQueueInvariant'
<1>1. /\ xpc = "wait" /\ xpc' = "dequeue"
      /\ UNCHANGED <<queue, event, lock, exitFlag, current, callVars, opc, created, raced, ghosts>>
  BY DEF XWait, queueVars
<1>2. opc' \notin {"stopped", "destroyed"}
  BY <1>1 DEF PrimitiveQueueInvariant, PositionsOK
<1>3. QED
  BY <1>1, <1>2, QuietStep DEF TypeOK

LEMMA StopSteps ==
    ASSUME TypeOK, PrimitiveQueueInvariant, StopFlag \/ StopSignal \/ StopJoin
    PROVE  TypeOK' /\ PrimitiveQueueInvariant'
<1>1. /\ UNCHANGED <<queue, lock, xpc, current, callVars, created, raced, ghosts>>
      /\ event' \in BOOLEAN /\ exitFlag' \in BOOLEAN
      /\ opc' \in {"flagged", "join"} \/ (opc' = "stopped" /\ xpc = "exited")
  BY DEF StopFlag, StopSignal, StopJoin, queueVars, execVars, TypeOK
<1>2. QED
  BY <1>1, QuietStep DEF TypeOK

(* DummyBehind for one place of the list. *)
LEMMA BehindAt ==
    ASSUME DummyBehind, NEW i \in DOMAIN queue, queue[i] # None, queue[i].dummy
    PROVE  \/ i > 1 /\ queue[i - 1] = [queue[i] EXCEPT !.dummy = FALSE]
           \/ i = 1 /\ current = [queue[i] EXCEPT !.dummy = FALSE] /\ xpc \in {"execute", "cleanup"}
           \/ [queue[i] EXCEPT !.dummy = FALSE] \in lost
  BY DEF DummyBehind

(* A dummy whose SET is lost marks no other. *)
LEMMA StrayMarksNone ==
    ASSUME TypeOK, PrimitiveQueueInvariant, NEW d \in ToSet(queue), d # None, d.dummy,
           [d EXCEPT !.dummy = FALSE] \in lost, NEW p, NEW id \in Pending(p)
    PROVE  d.id # id
<1>1. d \in Request
  BY QueueShape
<1>2. PICK r \in Outstanding : r.id = id
  BY PendingRequest
<1>3. [d EXCEPT !.dummy = FALSE].id = d.id
  BY <1>1 DEF Request
<1>4. QED
  BY <1>2, <1>3 DEF PrimitiveQueueInvariant, LostOK

(* The executing thread takes the first request from the list. *)
LEMMA XDequeueStep ==
    ASSUME TypeOK, PrimitiveQueueInvariant, XDequeue
    PROVE  TypeOK' /\ PrimitiveQueueInvariant'
<1> USE DEF PrimitiveQueueInvariant
<1>1. /\ xpc = "dequeue" /\ raced' \in BOOLEAN /\ event' \in BOOLEAN
      /\ UNCHANGED <<lock, exitFlag, pc, arg, completed, opc, created, exempt, unmarked, lost, before>>
  BY DEF XDequeue, Dequeue, callVars, ghosts, TypeOK
<1>2. ~Busy /\ opc \notin {"stopped", "destroyed"}
  BY <1>1 DEF Busy, PositionsOK
<1>3. CASE queue = <<>>
  <2>1. xpc' = "loop" /\ UNCHANGED <<queue, current>>
    BY <1>3 DEF XDequeue, Dequeue
  <2>2. ~Busy'
    BY <2>1 DEF Busy
  <2>3. Outstanding' = Outstanding /\ \A p : Pending(p)' = Pending(p)
    BY <1>1, <1>2, <2>1, <2>2 DEF Outstanding, Pending, Busy
  <2>4. TypeOK'
    BY <1>1, <2>1 DEF TypeOK
  <2>5. PositionsOK' /\ BoundOK' /\ OrderOK' /\ WaitersOK'
    BY <1>1, <1>2, <2>1, <2>2, <2>3, CallersSame DEF PositionsOK, OrderOK, WaitersOK
  <2>6. DummyOwed' /\ DummyBehind'
    BY <1>1, <1>3, <2>1 DEF DummyOwed, DummyBehind
  <2>7. Marked'
    BY <1>1, <2>1, <2>3 DEF Marked
  <2>8. DirectReads'
    BY <1>1, <2>3, DirectKept
  <2>9. LostOK' /\ MemoryOK'
    BY <1>1, <2>3 DEF LostOK, MemoryOK
  <2>10. QED
    BY <2>4, <2>5, <2>6, <2>7, <2>8, <2>9
<1>4. CASE queue # <<>>
  <2>1. queue' = Tail(queue)
    BY <1>4 DEF XDequeue, Dequeue
  <2>2. /\ queue' \in Seq(Request \cup {None})
        /\ Len(queue) \in Nat /\ Len(queue) > 0
        /\ Len(queue') = Len(queue) - 1 /\ DOMAIN queue' = 1 .. Len(queue) - 1
        /\ \A i \in 1 .. Len(queue) - 1 : queue'[i] = queue[i + 1]
        /\ Head(queue) = queue[1] /\ queue[1] \in Request \cup {None}
        /\ ToSet(queue) = ToSet(queue') \cup {queue[1]}
        /\ queue' = <<>> <=> Len(queue) = 1
    BY <1>4, <2>1, TailShape
  <2>3. DOMAIN queue = 1 .. Len(queue) /\ 1 \in DOMAIN queue
    BY <2>2, QueueShape
  <2>4. queue[1] # None /\ queue[1].dummy => [queue[1] EXCEPT !.dummy = FALSE] \in lost
    <3>1. ~(1 > 1) /\ xpc \notin {"execute", "cleanup"}
      BY <1>1
    <3>2. QED
      BY <2>3, <3>1, BehindAt
  <2>5. IF IsReal(queue[1]) THEN xpc' = "execute" /\ current' = queue[1]
                            ELSE xpc' = "loop" /\ UNCHANGED current
    BY <1>4, <2>2 DEF XDequeue
  <2>6. Busy' = IsReal(queue[1]) /\ (IsReal(queue[1]) => queue[1] \in Request /\ ~queue[1].dummy)
    BY <2>2, <2>5 DEF Busy, IsReal
  <2>7. Outstanding' = Outstanding
    BY <1>2, <2>2, <2>5, <2>6 DEF Outstanding
  <2>8. ASSUME NEW p PROVE Pending(p)' = Pending(p)
    BY <1>1, <2>2, <2>5 DEF Pending
  <2>9. TypeOK'
    BY <1>1, <2>2, <2>5, <2>6 DEF TypeOK
  <2>10. PositionsOK' /\ BoundOK' /\ WaitersOK'
    BY <1>1, <1>2, <2>2, <2>5, <2>6, <2>7, CallersSame DEF PositionsOK, WaitersOK
  <2>11. DummyOwed'
    <3> SUFFICES ASSUME NEW t \in Threads, pc[t] = "dummy"
                 PROVE  IF queue' = <<>> THEN current' = arg[t] /\ xpc' \in {"execute", "cleanup"}
                                         ELSE queue'[Len(queue')] = arg[t]
      BY <1>1 DEF DummyOwed
    <3>1. queue[Len(queue)] = arg[t] /\ arg[t] \in Request /\ IsReal(arg[t])
      BY <1>4, NoneFacts DEF DummyOwed
    <3>2. CASE Len(queue) = 1
      BY <2>2, <2>5, <3>1, <3>2
    <3>3. CASE Len(queue) # 1
      <4>1. Len(queue) - 1 \in 1 .. Len(queue) - 1 /\ (Len(queue) - 1) + 1 = Len(queue)
        BY <2>2, <3>3
      <4>2. QED
        BY <2>2, <3>1, <3>3, <4>1
    <3>4. QED
      BY <3>2, <3>3
  <2>12. OrderOK'
    <3>0. \A i \in DOMAIN queue' : i + 1 \in DOMAIN queue /\ queue'[i] = queue[i + 1] /\ 1 < i + 1
      BY <2>2, <2>3
    <3>1. \A i, j \in DOMAIN queue' :
             i < j /\ IsReal(queue'[i]) /\ IsReal(queue'[j]) => queue'[i].id < queue'[j].id
      <4> SUFFICES ASSUME NEW i \in DOMAIN queue', NEW j \in DOMAIN queue', i < j,
                          IsReal(queue'[i]), IsReal(queue'[j])
                   PROVE  queue'[i].id < queue'[j].id
        OBVIOUS
      <4>1. i + 1 < j + 1
        BY <2>2
      <4>2. QED
        BY <3>0, <4>1 DEF OrderOK
    <3>2. \A i \in DOMAIN queue' : Busy' /\ IsReal(queue'[i]) => current'.id < queue'[i].id
      <4> SUFFICES ASSUME NEW i \in DOMAIN queue', Busy', IsReal(queue'[i])
                   PROVE  current'.id < queue'[i].id
        OBVIOUS
      <4>1. IsReal(queue[1]) /\ current' = queue[1] /\ 1 \in DOMAIN queue
        BY <2>3, <2>5, <2>6
      <4>2. QED
        BY <3>0, <4>1 DEF OrderOK
    <3>3. QED
      BY <1>1, <2>7, <3>1, <3>2 DEF OrderOK
  <2>13. Marked'
    <3> SUFFICES ASSUME NEW p \in Prims, NEW id \in Pending(p)
                 PROVE  \/ id \in unmarked
                        \/ \E r \in ToSet(queue') : r # None /\ r.dummy /\ r.id = id
                        \/ lock # None /\ pc[lock] = "dummy" /\ arg[lock].id = id
      BY <1>1, <2>8 DEF Marked
    <3>1. ASSUME NEW r \in ToSet(queue), r # None, r.dummy, r.id = id PROVE r \in ToSet(queue')
      BY <2>2, <2>4, <3>1, StrayMarksNone
    <3>2. QED
      BY <3>1 DEF Marked
  <2>14. DummyBehind'
    <3> SUFFICES ASSUME NEW i \in DOMAIN queue', queue'[i] # None, queue'[i].dummy
                 PROVE  LET real == [queue'[i] EXCEPT !.dummy = FALSE] IN
                        \/ i > 1 /\ queue'[i - 1] = real
                        \/ i = 1 /\ current' = real /\ xpc' \in {"execute", "cleanup"}
                        \/ real \in lost
      BY <1>1 DEF DummyBehind
    <3>1. i + 1 \in DOMAIN queue /\ queue'[i] = queue[i + 1] /\ i + 1 > 1 /\ (i + 1) - 1 = i
          /\ i \in DOMAIN queue
      BY <2>2, <2>3
    <3>2. \/ queue[i] = [queue[i + 1] EXCEPT !.dummy = FALSE]
          \/ [queue[i + 1] EXCEPT !.dummy = FALSE] \in lost
      <4>1. i + 1 # 1
        BY <3>1
      <4>2. QED
        BY <3>1, <4>1, BehindAt
    <3>3. CASE [queue[i + 1] EXCEPT !.dummy = FALSE] \in lost
      BY <3>1, <3>3
    <3>4. CASE queue[i] = [queue[i + 1] EXCEPT !.dummy = FALSE] /\ i = 1
      <4>1. queue[i + 1] \in Request
        BY <2>3, <3>1, QueueShape
      <4>2. queue[1] \in Request /\ ~queue[1].dummy
        BY <3>4, <4>1 DEF Request
      <4>3. IsReal(queue[1])
        BY <4>2, NoneFacts
      <4>4. QED
        BY <2>5, <3>1, <3>4, <4>3
    <3>5. CASE queue[i] = [queue[i + 1] EXCEPT !.dummy = FALSE] /\ i > 1
      <4>1. i - 1 \in 1 .. Len(queue) - 1 /\ (i - 1) + 1 = i
        BY <2>2, <3>5
      <4>2. QED
        BY <2>2, <3>1, <3>5, <4>1
    <3>6. QED
      BY <2>2, <3>2, <3>3, <3>4, <3>5
  <2>15. DirectReads'
    BY <1>1, <2>8, DirectKept
  <2>16. LostOK' /\ MemoryOK'
    BY <1>1, <2>7 DEF LostOK, MemoryOK
  <2>17. QED
    BY <2>9, <2>10, <2>11, <2>12, <2>13, <2>14, <2>15, <2>16
<1>5. QED
  BY <1>3, <1>4

LEMMA XExecuteStep ==
    ASSUME TypeOK, PrimitiveQueueInvariant, XExecute
    PROVE  TypeOK' /\ PrimitiveQueueInvariant'
<1> USE DEF PrimitiveQueueInvariant
<1>1. /\ xpc = "execute" /\ xpc' = "cleanup" /\ unmarked' = unmarked \ {current.id}
      /\ UNCHANGED <<queue, event, lock, exitFlag, current, pc, arg, completed, opc, created,
                     raced, exempt, lost, before>>
  BY DEF XExecute, queueVars, callVars
<1>2. Busy /\ Busy' /\ Outstanding' = Outstanding
  BY <1>1 DEF Busy, Outstanding
<1>3. opc \notin {"stopped", "destroyed"} /\ current \in Request
  BY <1>1, <1>2 DEF PositionsOK
<1>4. ASSUME NEW p, NEW id \in Pending(p)' PROVE id \in Pending(p) /\ id # current.id
  <2>1. PICK r \in ToSet(queue) : IsReal(r) /\ r.delay /\ r.prim = p /\ r.id = id
    BY <1>1, <1>4 DEF Pending
  <2>2. PICK i \in DOMAIN queue : r = queue[i]
    BY QueueShape
  <2>3. current.id < r.id
    BY <1>2, <2>1, <2>2 DEF OrderOK
  <2>4. current.id \in Nat
    BY <1>3 DEF Request
  <2>5. QED
    BY <2>1, <2>3, <2>4 DEF Pending
<1>5. TypeOK'
  BY <1>1 DEF TypeOK
<1>6. PositionsOK' /\ BoundOK' /\ OrderOK' /\ WaitersOK'
  BY <1>1, <1>2, <1>3, CallersSame DEF PositionsOK, OrderOK, WaitersOK
<1>7. DummyOwed' /\ DummyBehind'
  BY <1>1 DEF DummyOwed, DummyBehind
<1>8. Marked'
  <2> SUFFICES ASSUME NEW p \in Prims, NEW id \in Pending(p)'
               PROVE  \/ id \in unmarked'
                      \/ \E r \in ToSet(queue) : r # None /\ r.dummy /\ r.id = id
                      \/ lock # None /\ pc[lock] = "dummy" /\ arg[lock].id = id
    BY <1>1 DEF Marked
  <2>1. id \in Pending(p) /\ id # current.id
    BY <1>4
  <2>2. QED
    BY <1>1, <2>1 DEF Marked
<1>9. DirectReads'
  <2>1. \A p : Pending(p)' \cap (1 .. created) \subseteq Pending(p)
    BY <1>4
  <2>2. \A p : Pending(p)' \cap unmarked \subseteq unmarked'
    BY <1>1, <1>4
  <2>3. QED
    BY <1>1, <2>1, <2>2, DirectKept
<1>10. LostOK' /\ MemoryOK'
  BY <1>1, <1>2 DEF LostOK, MemoryOK
<1>11. QED
  BY <1>5, <1>6, <1>7, <1>8, <1>9, <1>10

(* After the execution: what follows is the dummy of this request, which is  *)
(* taken away, or stays, or is lost.                                         *)
LEMMA XCleanupStep ==
    ASSUME TypeOK, PrimitiveQueueInvariant, XCleanup
    PROVE  TypeOK' /\ PrimitiveQueueInvariant'
<1> USE DEF PrimitiveQueueInvariant
<1> DEFINE mine == /\ FrontRequest # None /\ FrontRequest.dummy
                   /\ FrontRequest.prim = current.prim /\ FrontRequest.set = current.set
<1>1. /\ xpc = "cleanup" /\ lock = None /\ xpc' = "destroy" /\ event' \in BOOLEAN
      /\ \/ mine /\ queue' = Tail(queue) /\ UNCHANGED lost
         \/ ~mine /\ queue' = (IF queue = <<>> THEN <<None>> ELSE queue) /\ UNCHANGED lost
         \/ /\ ~mine /\ MayFail /\ queue' = IF queue = <<>> THEN queue ELSE Tail(queue)
            /\ lost' = IF IsReal(FrontRequest) THEN lost \cup {FrontRequest} ELSE lost
      /\ UNCHANGED <<lock, exitFlag, current, pc, arg, completed, opc, created, raced,
                     exempt, unmarked, before>>
  BY DEF XCleanup, Dequeue, callVars, TypeOK
<1>2. /\ Busy /\ Busy' /\ current \in Request /\ opc \notin {"stopped", "destroyed"}
      /\ \A t \in Threads : pc[t] \notin {"dummy", "walk"}
  BY <1>1, NoneFacts DEF Busy, PositionsOK
<1>3. /\ Len(queue) \in Nat /\ DOMAIN queue = 1 .. Len(queue) /\ (queue = <<>> <=> Len(queue) = 0)
      /\ \A i \in 1 .. Len(queue) : queue[i] \in Request \cup {None} /\ queue[i] \in ToSet(queue)
      /\ queue # <<>> => FrontRequest = queue[1] /\ 1 \in DOMAIN queue
      /\ queue = <<>> => FrontRequest = None
  BY QueueShape DEF FrontRequest
(* A dummy that comes next is that of this request, or of one that is lost. *)
<1>4. ASSUME 1 \in DOMAIN queue, queue[1] # None, queue[1].dummy
      PROVE  /\ queue[1] \in Request
             /\ \/ queue[1].id = current.id /\ mine
                \/ [queue[1] EXCEPT !.dummy = FALSE] \in lost
  <2>1. ~(1 > 1) /\ queue[1] \in Request
    BY <1>3, <1>4
  <2>2. CASE [queue[1] EXCEPT !.dummy = FALSE] \in lost
    BY <2>1, <2>2
  <2>3. CASE current = [queue[1] EXCEPT !.dummy = FALSE]
    <3>1. /\ queue[1].prim = current.prim /\ queue[1].set = current.set
          /\ queue[1].id = current.id
      BY <2>1, <2>3 DEF Request
    <3>2. FrontRequest = queue[1]
      BY <1>3, <1>4
    <3>3. QED
      BY <1>4, <2>1, <3>1, <3>2
  <2>4. QED
    BY <1>4, <2>1, <2>2, <2>3, BehindAt
<1> DEFINE kept == queue' = queue /\ ~mine /\ lost' = lost
           null == queue = <<>> /\ queue' = <<None>> /\ lost' = lost
           next == /\ queue # <<>> /\ queue' = Tail(queue)
                   /\ lost' = IF IsReal(queue[1]) THEN lost \cup {queue[1]} ELSE lost
                   /\ IsReal(queue[1]) => MayFail
(* The three outcomes in terms of places of the list. *)
<1>5. kept \/ null \/ next
  <2>1. CASE mine /\ queue' = Tail(queue) /\ UNCHANGED lost
    <3>1. queue # <<>> /\ ~IsReal(queue[1])
      BY <1>3, <2>1 DEF IsReal
    <3>2. QED
      BY <2>1, <3>1
  <2>2. CASE ~mine /\ queue' = (IF queue = <<>> THEN <<None>> ELSE queue) /\ UNCHANGED lost
    <3> HIDE DEF mine
    <3>1. QED
      BY <2>2
  <2>3. CASE /\ ~mine /\ MayFail /\ queue' = IF queue = <<>> THEN queue ELSE Tail(queue)
             /\ lost' = IF IsReal(FrontRequest) THEN lost \cup {FrontRequest} ELSE lost
    <3> HIDE DEF mine
    <3>1. queue = <<>> => ~IsReal(FrontRequest)
      BY <1>3 DEF IsReal
    <3>2. QED
      BY <1>3, <2>3, <3>1
  <2>4. QED
    BY <1>1, <2>1, <2>2, <2>3
<1> HIDE DEF mine
<1>6. ASSUME next
      PROVE  /\ queue' \in Seq(Request \cup {None}) /\ 1 \in DOMAIN queue
             /\ \A i \in DOMAIN queue' :
                  /\ i \in Nat /\ i + 1 \in DOMAIN queue /\ queue'[i] = queue[i + 1]
                  /\ i > 1 => i - 1 \in DOMAIN queue' /\ queue'[i - 1] = queue[i]
             /\ ToSet(queue) = ToSet(queue') \cup {queue[1]}
  <2>1. /\ queue' \in Seq(Request \cup {None})
        /\ DOMAIN queue' = 1 .. Len(queue) - 1
        /\ \A i \in 1 .. Len(queue) - 1 : queue'[i] = queue[i + 1]
        /\ ToSet(queue) = ToSet(queue') \cup {queue[1]}
    BY <1>6, TailShape
  <2>2. ASSUME NEW i \in DOMAIN queue', i > 1
        PROVE  i - 1 \in DOMAIN queue' /\ queue'[i - 1] = queue[i]
    <3>1. i - 1 \in 1 .. Len(queue) - 1 /\ (i - 1) + 1 = i
      BY <1>3, <2>1, <2>2
    <3>2. QED
      BY <2>1, <3>1
  <2>3. QED
    BY <1>3, <1>6, <2>1, <2>2
<1>7. ASSUME null PROVE /\ queue' \in Seq(Request \cup {None}) /\ DOMAIN queue' = {1}
                        /\ queue'[1] = None /\ ToSet(queue') = {None} /\ ToSet(queue) = {}
  <2>1. queue' = <<None>> /\ DOMAIN queue' = {1} /\ queue'[1] = None
    BY <1>7
  <2>2. queue' \in Seq(Request \cup {None})
    BY <2>1
  <2>3. ToSet(queue') = {None} /\ ToSet(queue) = {}
    BY <1>3, <1>7, <2>1 DEF ToSet
  <2>4. QED
    BY <2>1, <2>2, <2>3
(* The requests that stay are where they were, or one place further on. *)
<1>8. /\ queue' \in Seq(Request \cup {None})
      /\ \A r \in ToSet(queue') : r # None => r \in ToSet(queue)
      /\ \A i \in DOMAIN queue' : queue'[i] # None =>
            \E k \in DOMAIN queue : k >= i /\ queue'[i] = queue[k]
      /\ \A i, j \in DOMAIN queue' : i < j /\ queue'[i] # None /\ queue'[j] # None =>
            \E k, l \in DOMAIN queue : k < l /\ queue'[i] = queue[k] /\ queue'[j] = queue[l]
  <2>1. CASE kept
    <3>1. \A i \in DOMAIN queue : i >= i
      BY <1>3
    <3>2. QED
      BY <2>1, <3>1 DEF TypeOK
  <2>2. CASE null
    BY <1>7, <2>2
  <2>3. CASE next
    <3>1. \A i \in DOMAIN queue' : i + 1 >= i /\ i + 1 \in DOMAIN queue /\ queue'[i] = queue[i + 1]
      BY <1>6, <2>3
    <3>2. \A i, j \in DOMAIN queue' : i < j => i + 1 < j + 1
      BY <1>6, <2>3
    <3> HIDE DEF next
    <3>3. QED
      BY <1>6, <2>3, <3>1, <3>2
  <2>4. QED
    BY <1>5, <2>1, <2>2, <2>3
<1>9. /\ Outstanding' \subseteq Outstanding /\ \A p : Pending(p)' \subseteq Pending(p)
      /\ \A r \in Outstanding' : r = current \/ \E i \in DOMAIN queue' : r = queue'[i] /\ IsReal(r)
  <2>1. \A r \in ToSet(queue') : IsReal(r) => r \in ToSet(queue)
    BY <1>8 DEF IsReal
  <2>2. Outstanding' \subseteq Outstanding
    BY <1>1, <1>2, <2>1 DEF Outstanding
  <2>3. \A p : Pending(p)' \subseteq Pending(p)
    BY <1>1, <2>1 DEF Pending
  <2>4. \A r \in Outstanding' : r = current \/ \E i \in DOMAIN queue' : r = queue'[i] /\ IsReal(r)
    BY <1>1 DEF Outstanding, ToSet
  <2>5. QED
    BY <2>2, <2>3, <2>4
<1>10. lost \subseteq lost' /\ lost' \subseteq Request
  BY <1>3, <1>5, <1>6 DEF TypeOK, IsReal
<1>11. TypeOK'
  BY <1>1, <1>8, <1>10 DEF TypeOK
<1>12. PositionsOK' /\ BoundOK'
  BY <1>1, <1>2, CallersSame DEF PositionsOK
<1>13. WaitersOK'
  BY <1>1, <1>8, <1>9 DEF WaitersOK
<1>14. DummyOwed'
  BY <1>1, <1>2 DEF DummyOwed
<1>15. OrderOK'
  <2>1. \A i, j \in DOMAIN queue' :
           i < j /\ IsReal(queue'[i]) /\ IsReal(queue'[j]) => queue'[i].id < queue'[j].id
    BY <1>8 DEF OrderOK, IsReal
  <2>2. \A i \in DOMAIN queue' : IsReal(queue'[i]) => current.id < queue'[i].id
    BY <1>2, <1>8 DEF OrderOK, IsReal
  <2>3. QED
    BY <1>1, <1>9, <2>1, <2>2 DEF OrderOK
<1>16. Marked'
  <2> SUFFICES ASSUME NEW p \in Prims, NEW id \in Pending(p)'
               PROVE  \/ id \in unmarked
                      \/ \E r \in ToSet(queue') : r # None /\ r.dummy /\ r.id = id
    BY <1>1 DEF Marked
  <2>1. id \in Pending(p)
    BY <1>9
  <2>2. id \in unmarked \/ \E r \in ToSet(queue) : r # None /\ r.dummy /\ r.id = id
    BY <1>1, <2>1 DEF Marked
  <2>3. id # current.id
    <3>1. PICK r \in ToSet(queue) : IsReal(r) /\ r.id = id
      BY <1>1, <2>1 DEF Pending
    <3>2. PICK i \in DOMAIN queue : r = queue[i]
      BY QueueShape
    <3>3. current.id < r.id /\ current.id \in Nat
      BY <1>2, <3>1, <3>2 DEF OrderOK, Request
    <3>4. QED
      BY <3>1, <3>3
  <2>4. ASSUME NEW r \in ToSet(queue), r # None, r.dummy, r.id = id PROVE r \in ToSet(queue')
    <3>1. CASE kept
      BY <2>4, <3>1
    <3>2. CASE null
      BY <1>7, <2>4, <3>2
    <3>3. CASE next
      <4>1. r # queue[1]
        BY <1>3, <1>4, <1>6, <2>1, <2>3, <2>4, <3>3, StrayMarksNone
      <4>2. QED
        BY <1>6, <2>4, <3>3, <4>1
    <3>4. QED
      BY <1>5, <3>1, <3>2, <3>3
  <2>5. QED
    BY <2>2, <2>4
<1>17. DummyBehind'
  <2> SUFFICES ASSUME NEW i \in DOMAIN queue', queue'[i] # None, queue'[i].dummy
               PROVE  \/ i > 1 /\ queue'[i - 1] = [queue'[i] EXCEPT !.dummy = FALSE]
                      \/ [queue'[i] EXCEPT !.dummy = FALSE] \in lost'
    BY DEF DummyBehind
  <2>1. CASE kept
    <3>1. CASE i = 1
      BY <1>4, <2>1, <3>1
    <3>2. CASE i # 1
      BY <2>1, <3>2, BehindAt
    <3>3. QED
      BY <3>1, <3>2
  <2>2. CASE null
    BY <1>7, <2>2
  <2>3. CASE next
    <3>1. /\ i \in Nat /\ i + 1 \in DOMAIN queue /\ queue'[i] = queue[i + 1]
          /\ i > 1 => queue'[i - 1] = queue[i]
          /\ 1 \in DOMAIN queue /\ i >= 1 /\ i + 1 # 1 /\ (i + 1) - 1 = i
      <4>1. \A k \in Nat : k + 1 \in DOMAIN queue => k >= 0
        OBVIOUS
      <4>2. queue' \in Seq(Element)
        BY <1>8 DEF Element
      <4>3. i >= 1
        BY <4>2, SeqShape
      <4>4. QED
        BY <1>6, <2>3, <4>3
    <3>2. \/ queue[i] = [queue[i + 1] EXCEPT !.dummy = FALSE]
          \/ [queue[i + 1] EXCEPT !.dummy = FALSE] \in lost
      BY <3>1, BehindAt
    <3>3. CASE [queue[i + 1] EXCEPT !.dummy = FALSE] \in lost
      BY <1>10, <3>1, <3>3
    <3>4. CASE queue[i] = [queue[i + 1] EXCEPT !.dummy = FALSE] /\ i > 1
      BY <3>1, <3>4
    <3>5. CASE queue[i] = [queue[i + 1] EXCEPT !.dummy = FALSE] /\ i = 1
      <4>1. queue[i + 1] \in Request
        BY <1>3, <3>1
      <4>2. queue[1] \in Request /\ ~queue[1].dummy
        BY <3>5, <4>1 DEF Request
      <4>3. IsReal(queue[1])
        BY <4>2, NoneFacts
      <4>4. queue[1] \in lost'
        BY <2>3, <4>3
      <4>5. QED
        BY <3>1, <3>5, <4>4
    <3>6. QED
      BY <3>1, <3>2, <3>3, <3>4, <3>5
  <2>4. QED
    BY <1>5, <2>1, <2>2, <2>3
<1>18. DirectReads'
  BY <1>1, <1>9, DirectKept
<1>19. LostOK'
  <2>1. \A l \in lost : l.id <= created /\ \A r \in Outstanding' : r.id # l.id
    BY <1>9 DEF LostOK
  <2>2. ASSUME next, IsReal(queue[1])
        PROVE  queue[1].id <= created /\ \A r \in Outstanding' : r.id # queue[1].id
    <3>1. queue[1] \in Outstanding /\ queue[1] \in Request /\ queue[1].id \in Nat
      BY <1>3, <1>6, <2>2 DEF Outstanding, IsReal, Request
    <3>2. current.id < queue[1].id /\ current.id \in Nat
      BY <1>2, <1>6, <2>2 DEF OrderOK, Request
    <3>3. ASSUME NEW i \in DOMAIN queue', IsReal(queue'[i]) PROVE queue[1].id < queue'[i].id
      <4>0. queue' \in Seq(Element)
        BY <1>8 DEF Element
      <4>1. i + 1 \in DOMAIN queue /\ queue'[i] = queue[i + 1] /\ 1 < i + 1
        BY <1>6, <2>2, <4>0, SeqShape
      <4>2. QED
        BY <1>6, <2>2, <3>3, <4>1 DEF OrderOK
    <3>4. \A r \in Outstanding' : r.id # queue[1].id
      BY <1>9, <3>1, <3>2, <3>3
    <3>5. QED
      BY <3>1, <3>4 DEF OrderOK
  <2>3. \A l \in lost' : l.id <= created /\ \A r \in Outstanding' : r.id # l.id
    BY <1>5, <2>1, <2>2
  <2>4. QED
    BY <1>1, <2>3 DEF LostOK
<1>20. MemoryOK'
  BY <1>1, <1>5 DEF MemoryOK
<1>21. QED
  BY <1>11, <1>12, <1>13, <1>14, <1>15, <1>16, <1>17, <1>18, <1>19, <1>20

LEMMA XDestroyStep ==
    ASSUME TypeOK, PrimitiveQueueInvariant, XDestroy
    PROVE  TypeOK' /\ PrimitiveQueueInvariant'
<1> USE DEF PrimitiveQueueInvariant
<1>1. /\ xpc = "destroy" /\ xpc' = "loop" /\ current' = None
      /\ completed' = completed \cup ({current.caller} \ {None})
      /\ UNCHANGED <<queue, event, lock, exitFlag, pc, arg, opc, created, raced, exempt,
                     unmarked, lost, before>>
  BY DEF XDestroy, Release, queueVars, ghosts
<1>2. Busy /\ ~Busy' /\ current \in Request /\ opc \notin {"stopped", "destroyed"}
  BY <1>1 DEF Busy, PositionsOK
<1>3. /\ Outstanding' = {r \in ToSet(queue) : IsReal(r)} /\ Outstanding' \subseteq Outstanding
      /\ current \in Outstanding /\ \A p : Pending(p)' = Pending(p)
  BY <1>1, <1>2 DEF Outstanding, Pending
<1>4. current.caller \in Threads \cup {None} /\ current.id \in Nat
  BY <1>2 DEF Request
<1>5. TypeOK'
  BY <1>1, <1>4 DEF TypeOK
<1>6. PositionsOK' /\ BoundOK' /\ OrderOK'
  BY <1>1, <1>2, <1>3, CallersSame DEF PositionsOK, OrderOK
<1>7. WaitersOK'
  <2>1. \A t \in completed' : pc'[t] = "wait"
    BY <1>1, <1>3 DEF WaitersOK
  <2>2. ASSUME NEW r \in Outstanding', r.caller # None PROVE r.caller \notin completed'
    <3>1. PICK i \in DOMAIN queue : r = queue[i] /\ IsReal(queue[i])
      BY <1>3, QueueShape
    <3>2. current.id < r.id
      BY <1>2, <3>1 DEF OrderOK
    <3>3. r.caller # current.caller
      BY <1>3, <1>4, <2>2, <3>2 DEF WaitersOK
    <3>4. QED
      BY <1>1, <1>3, <2>2, <3>3 DEF WaitersOK
  <2>3. QED
    BY <1>1, <1>3, <2>1, <2>2 DEF WaitersOK
<1>8. DummyOwed' /\ DummyBehind'
  BY <1>1 DEF DummyOwed, DummyBehind
<1>9. Marked'
  BY <1>1, <1>3 DEF Marked
<1>10. DirectReads'
  BY <1>1, <1>3, DirectKept
<1>11. LostOK' /\ MemoryOK'
  BY <1>1, <1>3 DEF LostOK, MemoryOK
<1>12. QED
  BY <1>5, <1>6, <1>7, <1>8, <1>9, <1>10, <1>11

(* Every nonempty set of natural numbers has a least element. *)
LEMMA LeastExists ==
    ASSUME NEW S \in SUBSET Nat, S # {}
    PROVE  \E x \in S : \A y \in S : x <= y
<1> DEFINE R == OpToRel(<, Nat)
<1>1. IsWellFoundedOn(R, Nat)
  BY NatLessThanWellFounded
<1>2. ASSUME NEW y \in Nat, NEW x \in Nat, y < x PROVE <<y, x>> \in R
  BY <1>2 DEF OpToRel
<1> HIDE DEF R
<1>3. PICK x \in S : \A y \in S : ~ (<<y, x>> \in R)
  BY <1>1, WFMin
<1>4. \A y \in S : ~ (y < x)
  BY <1>2, <1>3
<1>5. QED
  BY <1>3, <1>4

(* What esif_queue_destroy finds are requests of callers that wait. *)
LEMMA ExitStep ==
    ASSUME TypeOK, PrimitiveQueueInvariant, Exit
    PROVE  TypeOK' /\ PrimitiveQueueInvariant'
<1> USE DEF PrimitiveQueueInvariant
<1> DEFINE nulls == {i \in DOMAIN queue : queue[i] = None}
           n     == IF nulls = {} THEN Len(queue)
                    ELSE (CHOOSE i \in nulls : \A j \in nulls : i <= j) - 1
<1>1. /\ opc = "stopped" /\ lock = None /\ opc' = "destroyed" /\ queue' = <<>>
      /\ \A t \in Threads : pc[t] \in {"idle", "wait"}
      /\ completed' = completed \cup ({queue[i].caller : i \in 1 .. n} \ {None})
      /\ UNCHANGED <<event, lock, exitFlag, xpc, current, pc, arg, created, raced, exempt,
                     unmarked, lost, before>>
  BY DEF Exit, execVars, ghosts
<1>2. Len(queue) \in Nat /\ DOMAIN queue = 1 .. Len(queue)
      /\ \A i \in 1 .. Len(queue) : queue[i] \in Request \cup {None} /\ queue[i] \in ToSet(queue)
  BY QueueShape
<1>3. \A i \in 1 .. n : i \in 1 .. Len(queue) /\ queue[i] # None
  <2>1. CASE nulls = {}
    BY <1>2, <2>1
  <2>2. CASE nulls # {}
    <3> DEFINE k == CHOOSE i \in nulls : \A j \in nulls : i <= j
    <3>1. nulls \in SUBSET Nat
      BY <1>2
    <3>2. \E i \in nulls : \A j \in nulls : i <= j
      BY <2>2, <3>1, LeastExists
    <3>3. k \in nulls /\ \A j \in nulls : k <= j
      BY <3>2
    <3>4. n = k - 1 /\ k \in 1 .. Len(queue)
      BY <1>2, <2>2, <3>3
    <3> HIDE DEF k, n
    <3>5. \A i \in 1 .. n : i \in 1 .. Len(queue) /\ ~(k <= i)
      BY <1>2, <3>4
    <3>6. QED
      BY <1>2, <3>3, <3>5
  <2>3. QED
    BY <2>1, <2>2
<1> HIDE DEF n
<1>4. ASSUME NEW i \in 1 .. n, queue[i].caller # None
      PROVE  queue[i].caller \in Threads /\ pc[queue[i].caller] = "wait"
  <2>1. queue[i] \in Request /\ queue[i] \in ToSet(queue) /\ queue[i] # None
    BY <1>2, <1>3
  <2>2. queue[i].caller \in Threads
    BY <1>4, <2>1 DEF Request
  <2>3. CASE ~queue[i].dummy
    <3>1. queue[i] \in Outstanding
      BY <2>1, <2>3 DEF Outstanding, IsReal
    <3>2. QED
      BY <1>4, <2>2, <3>1 DEF WaitersOK
  <2>4. CASE queue[i].dummy
    BY <1>4, <2>1, <2>4 DEF WaitersOK
  <2>5. QED
    BY <2>3, <2>4
<1>5. xpc = "exited" /\ ~Busy /\ ~Busy'
  BY <1>1 DEF PositionsOK, Busy
<1>6. DOMAIN queue' = {} /\ ToSet(queue') = {} /\ queue' \in Seq(Request \cup {None})
  BY <1>1 DEF ToSet
<1>7. Outstanding' = {} /\ \A p : Pending(p)' = {}
  BY <1>1, <1>5, <1>6 DEF Outstanding, Pending
<1>8. TypeOK'
  <2>1. completed' \subseteq Threads
    BY <1>1, <1>4 DEF TypeOK
  <2>2. QED
    BY <1>1, <1>6, <2>1 DEF TypeOK
<1>9. PositionsOK' /\ BoundOK'
  BY <1>1, <1>5, CallersSame DEF PositionsOK
<1>10. OrderOK' /\ DummyBehind' /\ Marked' /\ DummyOwed'
  BY <1>1, <1>6, <1>7 DEF OrderOK, DummyBehind, Marked, DummyOwed
<1>11. WaitersOK'
  <2>1. \A t \in completed' : pc[t] = "wait"
    BY <1>1, <1>4 DEF WaitersOK
  <2>2. QED
    BY <1>1, <1>6, <1>7, <2>1 DEF WaitersOK
<1>12. DirectReads'
  BY <1>1, <1>7, DirectKept
<1>13. LostOK' /\ MemoryOK'
  BY <1>1, <1>7 DEF LostOK, MemoryOK
<1>14. QED
  BY <1>8, <1>9, <1>10, <1>11, <1>12, <1>13

----------------------------------------------------------------------------
(* The theorems *)

LEMMA InitQueue ==
    ASSUME Init
    PROVE  TypeOK /\ PrimitiveQueueInvariant
<1>1. /\ queue = <<>> /\ DOMAIN queue = {} /\ ToSet(queue) = {}
      /\ queue \in Seq(Request \cup {None})
  BY DEF Init, ToSet
<1>2. TypeOK
  <2>1. /\ pc \in [Threads -> {"idle", "check", "walk", "dummy", "wait", "direct"}]
        /\ arg \in [Threads -> [prim : Prims, set : BOOLEAN] \cup Request \cup {None}]
        /\ before \in [Threads -> SUBSET (1 .. MaxRequests)]
    BY DEF Init
  <2>2. created \in 0 .. MaxRequests
    BY PrimitiveQueueAssumption DEF Init
  <2>3. QED
    BY <1>1, <2>1, <2>2 DEF Init, TypeOK
<1>3. ~Busy /\ Outstanding = {} /\ \A p : Pending(p) = {}
  BY <1>1 DEF Init, Busy, Outstanding, Pending
<1>4. Callers = {}
  BY DEF Init, Callers
<1>5. BoundOK
  BY <1>4, FS_EmptySet, PrimitiveQueueAssumption DEF Init, BoundOK
<1>6. PositionsOK /\ DummyOwed /\ OrderOK /\ WaitersOK
  BY <1>1, <1>3 DEF Init, PositionsOK, DummyOwed, OrderOK, WaitersOK
<1>7. Marked /\ DummyBehind /\ DirectReads
  BY <1>1, <1>3 DEF Init, Marked, DummyBehind, DirectReads
<1>8. LostOK /\ MemoryOK
  BY DEF Init, LostOK, MemoryOK
<1>9. QED
  BY <1>2, <1>5, <1>6, <1>7, <1>8 DEF PrimitiveQueueInvariant

LEMMA NextStep ==
    ASSUME TypeOK, PrimitiveQueueInvariant, [Next]_vars
    PROVE  TypeOK' /\ PrimitiveQueueInvariant'
<1>1. ASSUME NEW t \in Threads, Call(t) PROVE TypeOK' /\ PrimitiveQueueInvariant'
  BY <1>1, ExecuteGetStep, QueueSetFailsStep, QueueSetStep DEF Call
<1>2. ASSUME NEW t \in Threads, CallStep(t) PROVE TypeOK' /\ PrimitiveQueueInvariant'
  BY <1>2, QueueDummyStep, CheckStep, WalkEndStep, WalkEndFailsStep, DirectStep, WaitReturnsStep
     DEF CallStep
<1>3. ASSUME ExecStep PROVE TypeOK' /\ PrimitiveQueueInvariant'
  BY <1>3, XLoopStep, XWaitStep, XDequeueStep, XExecuteStep, XCleanupStep, XDestroyStep
     DEF ExecStep
<1>4. ASSUME StopFlag \/ StopStep \/ Exit PROVE TypeOK' /\ PrimitiveQueueInvariant'
  BY <1>4, StopSteps, ExitStep DEF StopStep
<1>5. ASSUME UNCHANGED vars PROVE TypeOK' /\ PrimitiveQueueInvariant'
  <2>1. /\ UNCHANGED <<queue, lock, current, callVars, created, raced, ghosts>>
        /\ UNCHANGED <<event, exitFlag, opc, xpc>>
    BY <1>5 DEF vars, queueVars, execVars
  <2>2. opc' \in {"stopped", "destroyed"} => xpc' = "exited"
    BY <2>1 DEF PrimitiveQueueInvariant, PositionsOK
  <2>3. QED
    BY <2>1, <2>2, QuietStep DEF TypeOK
<1>6. QED
  BY <1>1, <1>2, <1>3, <1>4, <1>5 DEF Next

(* TypeOK and PrimitiveQueueInvariant hold in every reachable state of the   *)
(* primitive queue: the callers of EsifArbMgr_ExecuteUnarbitratedPrimitive,  *)
(* the executing thread, EsifArbMgr_Stop and EsifArbMgr_Exit together.       *)
THEOREM PrimitiveQueueInvariantHolds ==
    Spec => [](TypeOK /\ PrimitiveQueueInvariant)
<1>1. Init => TypeOK /\ PrimitiveQueueInvariant
  BY InitQueue
<1>2. TypeOK /\ PrimitiveQueueInvariant /\ [Next]_vars => (TypeOK /\ PrimitiveQueueInvariant)'
  BY NextStep
<1>3. QED
  BY <1>1, <1>2, PTL DEF Spec

(* The primitive queue keeps its types: in particular the requests created   *)
(* stay within the bound, so that the bound cuts off no step of a call.      *)
THEOREM PrimitiveQueueTypeCorrect ==
    Spec => []TypeOK
  BY PrimitiveQueueInvariantHolds, PTL

(* The comment of QueuePrimitiveRequest_Locked holds: a delaying SET that is *)
(* not yet executed is visible in the queue by its dummy request, and no     *)
(* dummy is left behind.  The exceptions are SETs for whose dummy, or for    *)
(* whose place in the queue when it is entered or put back, there was no     *)
(* memory; while there is memory there are none.                             *)
THEOREM DummiesMarkRequests ==
    Spec => [](DummyMarksRequest /\ (~MayFail => lost = {} /\ unmarked = {}))
<1>1. TypeOK /\ PrimitiveQueueInvariant =>
        DummyMarksRequest /\ (~MayFail => lost = {} /\ unmarked = {})
  BY DEF PrimitiveQueueInvariant, DummyMarksRequest, MemoryOK
<1>2. QED
  BY <1>1, PrimitiveQueueInvariantHolds, PTL

(* A request is executed before those created later, and a GET that waits    *)
(* was created after the SETs queued before its call.                        *)
LEMMA OrderShowsWrites ==
    ASSUME TypeOK, PrimitiveQueueInvariant, NEW t \in Threads, xpc = "execute",
           current.caller = t
    PROVE  Unseen(t) = {}
<1> USE DEF PrimitiveQueueInvariant
<1>1. Busy /\ current \in Outstanding /\ current \in Request /\ t # None
  BY NoneFacts DEF Busy, Outstanding, PositionsOK
<1>2. ~current.delay /\ (\A id \in before[t] : id < current.id) /\ current.id \in Nat
  BY <1>1 DEF WaitersOK, Request
<1>3. SUFFICES ASSUME NEW id \in Unseen(t) PROVE FALSE
  OBVIOUS
<1>4. id \in before[t] /\ id \in Nat
  BY <1>3 DEF Unseen, TypeOK
<1>5. PICK r \in ToSet(queue) : IsReal(r) /\ r.id = id
  BY <1>2, <1>3 DEF Unseen, Pending
<1>6. PICK i \in DOMAIN queue : r = queue[i]
  BY QueueShape
<1>7. current.id < id
  BY <1>1, <1>5, <1>6 DEF OrderOK
<1>8. QED
  BY <1>2, <1>4, <1>7

(* A GET sees the SETs of its primitive that were queued before it was       *)
(* called, whether EsifArbMgr_ExecuteUnarbitratedPrimitive executes it at    *)
(* once or through the queue - but for the exceptions that are recorded.     *)
THEOREM ReadsSeeEarlierWrites ==
    Spec => []ReadsSeeWrites
<1>1. TypeOK /\ PrimitiveQueueInvariant => ReadsSeeWrites
  <2>1. SUFFICES ASSUME TypeOK, PrimitiveQueueInvariant, NEW t \in Threads \ exempt,
                        \/ pc[t] = "direct" /\ ~arg[t].set
                        \/ xpc = "execute" /\ current.caller = t
                 PROVE  Unseen(t) \subseteq unmarked
    BY DEF ReadsSeeWrites
  <2>2. CASE pc[t] = "direct" /\ ~arg[t].set
    BY <2>1, <2>2 DEF PrimitiveQueueInvariant, DirectReads
  <2>3. CASE xpc = "execute" /\ current.caller = t
    BY <2>1, <2>3, OrderShowsWrites
  <2>4. QED
    BY <2>1, <2>2, <2>3
<1>2. QED
  BY <1>1, PrimitiveQueueInvariantHolds, PTL
====
