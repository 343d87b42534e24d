---- MODULE ParticipantManagerProofs ----
(***************************************************************************)
(* Machine-checked proofs about ParticipantManager, for any numbers of     *)
(* threads, users, participants and table entries.  TypeOK and             *)
(* ParticipantInvariant are inductive together.  Each action is described  *)
(* by what it does to the set of references of each participant - nothing, *)
(* one more, one less, or one in the place of another - and by how the     *)
(* count follows; the rest concerns the table and the positions of calls.  *)
(***************************************************************************)
EXTENDS ParticipantManager, TLAPS, FiniteSetTheorems, WellFoundedInduction

----------------------------------------------------------------------------
(* The least element of a set of numbers *)

(* Every nonempty set of natural numbers has a least element. *)
LEMMA LeastExists ==
    ASSUME NEW S \in SUBSET Nat, S # {}
    PROVE  \E x \in S : \A y \in S : x <= y
<1> DEFINE R == OpToRel(<, Nat)
<1>1. IsWellFoundedOn(R, Nat)
  BY NatLessThanWellFounded
<1>2. ASSUME NEW y \in Nat, NEW x \in Nat, y < x PROVE <<y, x>> \in R
  BY <1>2 DEF OpToRel
<1> HIDE DEF R
<1>3. PICK x \in S : \A y \in S : ~ (<<y, x>> \in R)
  BY <1>1, WFMin
<1>4. \A y \in S : ~ (y < x)
  BY <1>2, <1>3
<1>5. \A y \in S : x <= y
  BY <1>4
<1>6. QED
  BY <1>5

(* First returns a member of a nonempty set of entries, and 0 otherwise. *)
LEMMA FirstMember ==
    ASSUME NEW S \in SUBSET Slots
    PROVE  /\ S # {} => First(S) \in S /\ Min(S) \in S
           /\ First(S) \in Slots \cup {0}
           /\ First(S) # 0 => First(S) \in S
<1>1. 0 \notin Slots /\ Slots \subseteq Nat
  BY ParticipantAssumption DEF Slots
<1>2. CASE S = {}
  BY <1>1, <1>2 DEF First
<1>3. CASE S # {}
  <2>1. \E x \in S : \A y \in S : x <= y
    BY <1>1, <1>3, LeastExists
  <2>2. Min(S) \in S
    BY <2>1 DEF Min
  <2>3. QED
    BY <1>1, <1>3, <2>2 DEF First
<1>4. QED
  BY <1>2, <1>3

----------------------------------------------------------------------------
(* Counting references *)

(* One participant's part of ReferencesAccounted and RefsFinite. *)
Counted(u) ==
    /\ IsFiniteSet(References(u))
    /\ IF mem[u] = "live" THEN ref[u] = Cardinality(References(u))
                          ELSE References(u) = {}

(* Its part of LifeOK. *)
Alive(u) ==
    /\ mem[u] = "unused" => ~marked[u]
    /\ mem[u] # "unused" => inst[u] \in Ups
    /\ u \in deleted => marked[u] /\ References(u) = {}
    /\ \A t \in Threads : call[t].victim = u => mem[u] = "live"

LEMMA AllCounted ==
    (\A u \in Ups : Counted(u) /\ Alive(u)) <=> (RefsFinite /\ ReferencesAccounted /\ LifeOK)
  BY DEF Counted, RefsFinite, ReferencesAccounted, Alive, LifeOK

(* The references of a participant do not change. *)
LEMMA RefsKept ==
    ASSUME NEW u \in Ups, Counted(u), References(u)' = References(u),
           ref'[u] = ref[u], mem'[u] = mem[u]
    PROVE  Counted(u)'
  BY DEF Counted

(* There is one more. *)
LEMMA RefGained ==
    ASSUME NEW u \in Ups, Counted(u), mem[u] = "live", mem'[u] = "live",
           NEW x, x \notin References(u), References(u)' = References(u) \cup {x},
           ref'[u] = ref[u] + 1
    PROVE  Counted(u)'
<1>1. IsFiniteSet(References(u)) /\ ref[u] = Cardinality(References(u))
  BY DEF Counted
<1>2. /\ IsFiniteSet(References(u) \cup {x})
      /\ Cardinality(References(u) \cup {x}) = Cardinality(References(u)) + 1
  BY <1>1, FS_AddElement
<1>3. QED
  BY <1>1, <1>2 DEF Counted

(* There is one less; with the last one goes the count. *)
LEMMA RefLost ==
    ASSUME NEW u \in Ups, Counted(u), mem'[u] = mem[u],
           NEW x, x \in References(u), References(u)' = References(u) \ {x},
           ref'[u] = ref[u] - 1
    PROVE  /\ Counted(u)'
           /\ mem[u] = "live"
           /\ ref[u] = 1 => References(u)' = {}
<1>1. IsFiniteSet(References(u)) /\ ref[u] = Cardinality(References(u)) /\ mem[u] = "live"
  BY DEF Counted
<1>2. /\ IsFiniteSet(References(u) \ {x})
      /\ Cardinality(References(u) \ {x}) = Cardinality(References(u)) - 1
  BY <1>1, FS_RemoveElement
<1>3. Counted(u)'
  BY <1>1, <1>2 DEF Counted
<1>4. ref[u] = 1 => References(u) \ {x} = {}
  BY <1>1, <1>2, FS_EmptySet
<1>5. QED
  BY <1>1, <1>3, <1>4

(* One takes the place of another. *)
LEMMA RefMoved ==
    ASSUME NEW u \in Ups, Counted(u), mem'[u] = mem[u],
           NEW x, NEW y, x \in References(u), y \notin References(u),
           References(u)' = (References(u) \ {x}) \cup {y},
           ref'[u] = ref[u]
    PROVE  Counted(u)' /\ References(u) # {}
<1>1. IsFiniteSet(References(u)) /\ ref[u] = Cardinality(References(u)) /\ mem[u] = "live"
  BY DEF Counted
<1>2. /\ IsFiniteSet(References(u) \ {x})
      /\ Cardinality(References(u) \ {x}) = Cardinality(References(u)) - 1
  BY <1>1, FS_RemoveElement
<1>3. /\ IsFiniteSet((References(u) \ {x}) \cup {y})
      /\ Cardinality((References(u) \ {x}) \cup {y}) = Cardinality(References(u) \ {x}) + 1
  BY <1>2, FS_AddElement
<1>4. Cardinality(References(u)) \in Nat
  BY <1>1, FS_CardinalityType
<1>5. Cardinality((References(u) \ {x}) \cup {y}) = Cardinality(References(u))
  BY <1>2, <1>3, <1>4
<1>6. QED
  BY <1>1, <1>3, <1>5 DEF Counted

(* A new participant has its table entry and the reference of its creator. *)
LEMMA RefsNew ==
    ASSUME NEW u \in Ups, mem'[u] = "live", NEW x, NEW y, x # y,
           References(u)' = {x, y}, ref'[u] = 2
    PROVE  Counted(u)'
<1>1. IsFiniteSet({x}) /\ Cardinality({x}) = 1
  BY FS_Singleton
<1>2. IsFiniteSet({x} \cup {y}) /\ Cardinality({x} \cup {y}) = 2
  BY <1>1, FS_AddElement
<1>3. {x} \cup {y} = {x, y}
  OBVIOUS
<1>4. QED
  BY <1>2, <1>3 DEF Counted

----------------------------------------------------------------------------
(* What a reference is *)

(* The references of each kind, told apart by their tags. *)
LEMMA RefTags ==
    ASSUME TypeOK, NEW u
    PROVE  /\ \A s \in Slots : <<"slot", s>> \in References(u) <=> slots[s].up = u
           /\ \A k \in Nat : <<"queue", k>> \in References(u)
                               <=> k \in DOMAIN queue /\ queue[k].up = u
           /\ <<"serving", 0>> \in References(u) <=> serving.up = u
           /\ \A i \in Ups : <<"app", i>> \in References(u) <=> appMap[i] = u
           /\ \A p \in Users : <<"user", p>> \in References(u) <=> holds[p] = u
           /\ \A t \in Threads : <<"call", t>> \in References(u) <=> call[t].up = u
           /\ \A t \in Threads : <<"victim", t>> \in References(u) <=>
                call[t].victim = u /\ call[t].pc \in {"retire", "mark", "drop"}
  BY DEF References, SlotRefs, QueueRefs, ServingRefs, AppRefs, UserRefs, CallRefs, VictimRefs

(* A step of a call replaces its own references and no others. *)
LEMMA CallChange ==
    ASSUME TypeOK, NEW t \in Threads, NEW c \in CallType, Goto(t, c), NEW u
    PROVE  /\ CallRefs(u)' = (CallRefs(u) \ {<<"call", t>>})
                               \cup (IF c.up = u THEN {<<"call", t>>} ELSE {})
           /\ VictimRefs(u)' = (VictimRefs(u) \ {<<"victim", t>>})
                               \cup (IF c.victim = u /\ c.pc \in {"retire", "mark", "drop"}
                                       THEN {<<"victim", t>>} ELSE {})
  BY DEF TypeOK, Goto, CallRefs, VictimRefs

(* An item that is appended is one more reference. *)
LEMMA QueueChange ==
    ASSUME TypeOK, NEW w \in Ups, NEW b \in BOOLEAN,
           queue' = Append(queue, [up |-> w, create |-> b]), NEW u
    PROVE  QueueRefs(u)' = QueueRefs(u) \cup (IF w = u THEN {<<"queue", Len(queue) + 1>>} ELSE {})
<1>1. queue \in Seq([up : Ups, create : BOOLEAN])
  BY DEF TypeOK
<1>2. /\ DOMAIN queue = 1 .. Len(queue) /\ Len(queue) \in Nat
      /\ DOMAIN queue' = 1 .. Len(queue) + 1
      /\ \A k \in 1 .. Len(queue) : queue'[k] = queue[k]
      /\ queue'[Len(queue) + 1].up = w
  BY <1>1
<1>3. QED
  BY <1>2 DEF QueueRefs

(* The entries of the table keep their participants. *)
LEMMA SameEntries ==
    ASSUME \A s \in Slots : slots'[s].up = slots[s].up, NEW u
    PROVE  SlotRefs(u)' = SlotRefs(u)
  BY DEF SlotRefs

(* What is unchanged refers as before. *)
LEMMA SameApp ==
    ASSUME UNCHANGED appVars, NEW u
    PROVE  QueueRefs(u)' = QueueRefs(u) /\ ServingRefs(u)' = ServingRefs(u) /\ AppRefs(u)' = AppRefs(u)
  BY DEF appVars, QueueRefs, ServingRefs, AppRefs

LEMMA SameUsers ==
    ASSUME UNCHANGED holds, NEW u
    PROVE  UserRefs(u)' = UserRefs(u)
  BY DEF UserRefs

----------------------------------------------------------------------------
(* What a step of a call does to references *)

(* A call takes a reference on a participant that is not marked. *)
LEMMA CallTakesRef ==
    ASSUME TypeOK, ParticipantInvariant, NEW t \in Threads, NEW c \in CallType, Goto(t, c),
           call[t].up = None, call[t].victim = None, c.victim = None,
           NEW w \in Ups, c.up = w, mem[w] = "live", ~marked[w], GetRef(w),
           \A s \in Slots : slots'[s].up = slots[s].up,
           UNCHANGED <<mem, marked, inst, deleted, appVars, holds>>
    PROVE  \A u \in Ups : Counted(u)' /\ Alive(u)'
<1> SUFFICES ASSUME NEW u \in Ups PROVE Counted(u)' /\ Alive(u)'
  OBVIOUS
<1>1. Counted(u) /\ Alive(u)
  BY AllCounted DEF ParticipantInvariant
<1>2. None \notin Ups
  BY ParticipantAssumption
<1>3. /\ CallRefs(u)' = CallRefs(u) \cup (IF w = u THEN {<<"call", t>>} ELSE {})
      /\ VictimRefs(u)' = VictimRefs(u)
  BY <1>2, CallChange DEF CallRefs, VictimRefs
<1>4. References(u)' = References(u) \cup (IF w = u THEN {<<"call", t>>} ELSE {})
  BY <1>3, SameEntries, SameApp, SameUsers DEF References
<1>5. ref' = [ref EXCEPT ![w] = @ + 1] /\ ref \in [Ups -> Nat]
  BY DEF GetRef, TypeOK
<1>6. \A r \in Threads : call'[r].victim = call[r].victim
  BY DEF Goto, TypeOK
<1>7. CASE u = w
  <2>1. <<"call", t>> \notin References(u)
    BY <1>2, RefTags
  <2>2. Counted(u)'
    BY <1>1, <1>4, <1>5, <1>7, <2>1, RefGained
  <2>3. Alive(u)'
    BY <1>1, <1>6, <1>7 DEF Alive
  <2>4. QED
    BY <2>2, <2>3
<1>8. CASE u # w
  <2>1. Counted(u)'
    BY <1>1, <1>4, <1>5, <1>8, RefsKept
  <2>2. QED
    BY <1>1, <1>4, <1>6, <1>8, <2>1 DEF Alive
<1>9. QED
  BY <1>7, <1>8

(* A call goes on with the references it has. *)
LEMMA CallKeepsRefs ==
    ASSUME TypeOK, ParticipantInvariant, NEW t \in Threads, NEW c \in CallType, Goto(t, c),
           c.up = call[t].up, c.victim = call[t].victim,
           c.victim # None => (c.pc \in {"retire", "mark", "drop"}
                                 <=> call[t].pc \in {"retire", "mark", "drop"}),
           \A s \in Slots : slots'[s].up = slots[s].up,
           \A u \in Ups : marked'[u] # marked[u] => marked'[u] /\ mem[u] = "live",
           UNCHANGED <<mem, ref, inst, deleted, appVars, holds>>
    PROVE  \A u \in Ups : Counted(u)' /\ Alive(u)'
<1> SUFFICES ASSUME NEW u \in Ups PROVE Counted(u)' /\ Alive(u)'
  OBVIOUS
<1>1. Counted(u) /\ Alive(u)
  BY AllCounted DEF ParticipantInvariant
<1>2. None \notin Ups
  BY ParticipantAssumption
<1>3. CallRefs(u)' = CallRefs(u) /\ VictimRefs(u)' = VictimRefs(u)
  BY <1>2, CallChange DEF CallRefs, VictimRefs
<1>4. References(u)' = References(u)
  BY <1>3, SameEntries, SameApp, SameUsers DEF References
<1>5. \A r \in Threads : call'[r].victim = call[r].victim
  BY DEF Goto, TypeOK
<1>6. Counted(u)'
  BY <1>1, <1>4, RefsKept
<1>7. QED
  BY <1>1, <1>4, <1>5, <1>6 DEF Alive

(* A call goes on after EsifAppMgr_EnquePartChange for a participant that is *)
(* alive, whether that got a reference for the item or not.                  *)
LEMMA CallEnqueues ==
    ASSUME TypeOK, ParticipantInvariant, NEW t \in Threads, NEW c \in CallType, Goto(t, c),
           c.up = call[t].up, c.victim = call[t].victim,
           c.victim # None => (c.pc \in {"retire", "mark", "drop"}
                                 <=> call[t].pc \in {"retire", "mark", "drop"}),
           NEW w \in Ups \cup {None}, w # None => mem[w] = "live", NEW b \in BOOLEAN,
           EnquePartChange(w, b),
           UNCHANGED EnqueueUnchanged
    PROVE  \A u \in Ups : Counted(u)' /\ Alive(u)'
<1>0. None \notin Ups /\ UNCHANGED <<slots, mem, marked, inst, deleted, serving, appMap, holds>>
  BY ParticipantAssumption DEF EnqueueUnchanged
<1>1. CASE ~CanRef(w)
  BY <1>0, <1>1, CallKeepsRefs DEF EnquePartChange, appVars
<1>2. CASE CanRef(w)
  <2> SUFFICES ASSUME NEW u \in Ups PROVE Counted(u)' /\ Alive(u)'
    OBVIOUS
  <2>1. Counted(u) /\ Alive(u)
    BY AllCounted DEF ParticipantInvariant
  <2>2. /\ w \in Ups /\ ~marked[w] /\ ref' = [ref EXCEPT ![w] = @ + 1] /\ ref \in [Ups -> Nat]
        /\ queue' = Append(queue, [up |-> w, create |-> b])
    BY <1>2 DEF EnquePartChange, CanRef, GetRef, TypeOK
  <2>3. CallRefs(u)' = CallRefs(u) /\ VictimRefs(u)' = VictimRefs(u)
    BY <1>0, CallChange DEF CallRefs, VictimRefs
  <2>4. QueueRefs(u)' = QueueRefs(u) \cup (IF w = u THEN {<<"queue", Len(queue) + 1>>} ELSE {})
    BY <2>2, QueueChange
  <2>5. SlotRefs(u)' = SlotRefs(u) /\ ServingRefs(u)' = ServingRefs(u) /\ AppRefs(u)' = AppRefs(u)
        /\ UserRefs(u)' = UserRefs(u)
    BY <1>0 DEF SlotRefs, ServingRefs, AppRefs, UserRefs
  <2>6. References(u)' = References(u) \cup (IF w = u THEN {<<"queue", Len(queue) + 1>>} ELSE {})
    BY <2>3, <2>4, <2>5 DEF References
  <2>7. \A r \in Threads : call'[r].victim = call[r].victim
    BY DEF Goto, TypeOK
  <2>8. CASE u = w
    <3>1. queue \in Seq([up : Ups, create : BOOLEAN])
      BY DEF TypeOK
    <3>2. Len(queue) + 1 \in Nat /\ Len(queue) + 1 \notin DOMAIN queue
      BY <3>1
    <3>3. <<"queue", Len(queue) + 1>> \notin References(u)
      BY <3>2, RefTags
    <3>4. Counted(u)'
      BY <1>0, <2>1, <2>2, <2>6, <2>8, <3>3, RefGained
    <3>5. QED
      BY <1>0, <2>1, <2>2, <2>7, <2>8, <3>4 DEF Alive
  <2>9. CASE u # w
    <3>1. Counted(u)'
      BY <1>0, <2>1, <2>2, <2>6, <2>9, RefsKept
    <3>2. QED
      BY <1>0, <2>1, <2>6, <2>7, <2>9, <3>1 DEF Alive
  <2>10. QED
    BY <2>8, <2>9
<1>3. QED
  BY <1>1, <1>2

(* The effect of giving up a reference, for the participants it concerns and *)
(* the others: the delete event is set with the last one.                    *)
LEMMA RefReleased ==
    ASSUME TypeOK, ParticipantInvariant, NEW w \in Ups, NEW x, x \in References(w),
           PutRef(w), UNCHANGED <<mem, marked, inst>>,
           \A u \in Ups : References(u)' = IF u = w THEN References(u) \ {x} ELSE References(u),
           \A t \in Threads : call'[t].victim \in {call[t].victim, None}
    PROVE  /\ \A u \in Ups : Counted(u)' /\ Alive(u)'
           /\ ref' \in [Ups -> Nat] /\ deleted' \in SUBSET Ups
<1>a. ref' \in [Ups -> Nat] /\ deleted' \in SUBSET Ups
  <2>1. Counted(w) /\ None \notin Ups
    BY AllCounted, ParticipantAssumption DEF ParticipantInvariant
  <2>2. IsFiniteSet(References(w)) /\ ref[w] = Cardinality(References(w))
    BY <2>1 DEF Counted
  <2>3. ref[w] # 0 /\ ref[w] \in Nat
    BY <2>2, FS_EmptySet, FS_CardinalityType
  <2>4. ref[w] - 1 \in Nat
    BY <2>3
  <2>5. ref' = [ref EXCEPT ![w] = ref[w] - 1] /\ ref \in [Ups -> Nat] /\ deleted \in SUBSET Ups
        /\ deleted' \in {deleted, deleted \cup {w}}
    BY <2>1 DEF PutRef, TypeOK
  <2>6. QED
    BY <2>4, <2>5
<1>b. SUFFICES ASSUME NEW u \in Ups PROVE Counted(u)' /\ Alive(u)'
  BY <1>a
<1>1. Counted(u) /\ Alive(u) /\ Counted(w) /\ Alive(w)
  BY AllCounted DEF ParticipantInvariant
<1>2. None \notin Ups
  BY ParticipantAssumption
<1>3. /\ ref' = [ref EXCEPT ![w] = @ - 1] /\ ref \in [Ups -> Nat]
      /\ deleted' = IF ref[w] = 1 /\ marked[w] THEN deleted \cup {w} ELSE deleted
  BY <1>2 DEF PutRef, TypeOK
<1>4. CASE u = w
  <2>1. Counted(u)' /\ mem[u] = "live" /\ (ref[u] = 1 => References(u)' = {})
    BY <1>1, <1>3, <1>4, RefLost
  <2>2. QED
    BY <1>1, <1>2, <1>3, <1>4, <2>1 DEF Alive
<1>5. CASE u # w
  <2>1. Counted(u)'
    BY <1>1, <1>3, <1>5, RefsKept
  <2>2. QED
    BY <1>1, <1>2, <1>3, <1>5, <2>1 DEF Alive
<1>6. QED
  BY <1>4, <1>5

----------------------------------------------------------------------------
(* The table *)

(* A participant in the table is alive and not marked. *)
LEMMA EntryAlive ==
    ASSUME TypeOK, ParticipantInvariant, NEW s \in Slots, slots[s].up # None
    PROVE  /\ slots[s].up \in Ups /\ mem[slots[s].up] = "live" /\ ~marked[slots[s].up]
           /\ inst[slots[s].up] \in Ups /\ slots[s].up \notin deleted
<1>1. slots[s].up \in Ups /\ ~marked[slots[s].up]
  BY DEF TypeOK, ParticipantInvariant, DestroyedOnce
<1>2. <<"slot", s>> \in References(slots[s].up)
  BY RefTags
<1>3. mem[slots[s].up] = "live"
  BY <1>1, <1>2 DEF ParticipantInvariant, ReferencesAccounted
<1>4. QED
  BY <1>1, <1>2, <1>3 DEF ParticipantInvariant, LifeOK

(* A participant that somebody refers to is alive. *)
LEMMA ReferredAlive ==
    ASSUME TypeOK, ParticipantInvariant
    PROVE  /\ \A t \in Threads : call[t].up # None =>
                call[t].up \in Ups /\ mem[call[t].up] = "live"
           /\ \A t \in Threads : call[t].victim # None =>
                call[t].victim \in Ups /\ mem[call[t].victim] = "live"
           /\ serving.up # None => serving.up \in Ups /\ mem[serving.up] = "live"
                                   /\ inst[serving.up] \in Ups
<1>1. ASSUME NEW t \in Threads, call[t].up # None
      PROVE  call[t].up \in Ups /\ mem[call[t].up] = "live"
  <2>1. call[t].up \in Ups
    BY <1>1 DEF TypeOK, CallType
  <2>2. <<"call", t>> \in References(call[t].up)
    BY RefTags
  <2>3. QED
    BY <2>1, <2>2 DEF ParticipantInvariant, ReferencesAccounted
<1>2. ASSUME NEW t \in Threads, call[t].victim # None
      PROVE  call[t].victim \in Ups /\ mem[call[t].victim] = "live"
  BY <1>2 DEF TypeOK, CallType, ParticipantInvariant, LifeOK
<1>3. ASSUME serving.up # None
      PROVE  serving.up \in Ups /\ mem[serving.up] = "live" /\ inst[serving.up] \in Ups
  <2>1. serving.up \in Ups
    BY <1>3 DEF TypeOK
  <2>2. <<"serving", 0>> \in References(serving.up)
    BY RefTags
  <2>3. QED
    BY <2>1, <2>2 DEF ParticipantInvariant, ReferencesAccounted, LifeOK
<1>4. QED
  BY <1>1, <1>2, <1>3

(* The searches of the table find entries that are in use, or a free one. *)
LEMMA SearchFinds ==
    ASSUME TypeOK
    PROVE  /\ \A m : OverlapSlot(m) # 0 =>
                OverlapSlot(m) \in Slots /\ slots[OverlapSlot(m)].up # None
           /\ \A i : InstanceSlot(i) # 0 =>
                InstanceSlot(i) \in Slots /\ slots[InstanceSlot(i)].up # None
           /\ \A i \in Instances : InstanceSlot(i) # 0
           /\ FreeSlot # 0 => FreeSlot \in Slots /\ slots[FreeSlot].state = "available"
<1>1. ASSUME NEW m, OverlapSlot(m) # 0
      PROVE  OverlapSlot(m) \in Slots /\ slots[OverlapSlot(m)].up # None
  <2> DEFINE S == {s \in Slots : slots[s].up # None /\ Overlaps(meta[slots[s].up], m)}
  <2>1. OverlapSlot(m) = First(S)
    BY DEF OverlapSlot, Occupied
  <2>2. First(S) \in S
    BY <1>1, <2>1, FirstMember
  <2>3. QED
    BY <2>1, <2>2
<1>2. ASSUME NEW i
      PROVE  /\ InstanceSlot(i) # 0 => InstanceSlot(i) \in Slots /\ slots[InstanceSlot(i)].up # None
             /\ i \in Instances => InstanceSlot(i) # 0
  <2> DEFINE S == {s \in Slots : slots[s].up # None /\ inst[slots[s].up] = i}
  <2>1. InstanceSlot(i) = First(S)
    BY DEF InstanceSlot, Occupied
  <2>2. First(S) # 0 => First(S) \in S
    BY FirstMember
  <2>3. i \in Instances => S # {}
    BY DEF Instances, Occupied
  <2>4. S # {} => First(S) \in S
    BY FirstMember
  <2>5. 0 \notin Slots
    BY DEF Slots
  <2>6. QED
    BY <2>1, <2>2, <2>3, <2>4, <2>5
<1>3. FreeSlot # 0 => FreeSlot \in Slots /\ slots[FreeSlot].state = "available"
  <2> DEFINE S == {s \in Slots : slots[s].state = "available"}
  <2>1. First(S) # 0 => First(S) \in S
    BY FirstMember
  <2>2. QED
    BY <2>1 DEF FreeSlot
<1>4. QED
  BY <1>1, <1>2, <1>3

(* The parts of the invariant. *)
LEMMA InvariantParts ==
    ASSUME TypeOK', TableOK', CallsOK', DestroyedOnce',
           \A u \in Ups : Counted(u)' /\ Alive(u)'
    PROVE  TypeOK' /\ ParticipantInvariant'
  BY DEF ParticipantInvariant, Counted, Alive, RefsFinite, ReferencesAccounted, LifeOK

(* The record of a thread that is in no call. *)
LEMMA IdleFields ==
    Idle \in CallType /\ Idle.pc = "idle" /\ Idle.up = None /\ Idle.victim = None
    /\ Idle.slot = 0 /\ Idle.inst = None /\ Idle.name = None /\ Idle.then = "idle"
  BY ParticipantAssumption DEF CallType, Idle

(* The records of calls stay well-formed. *)
LEMMA CallRecords ==
    ASSUME NEW c \in CallType
    PROVE  /\ \A p \in {"idle", "retire", "offer", "withdraw", "put", "scan", "suspend",
                         "clear", "mark", "drop", "await"} : [c EXCEPT !.pc = p] \in CallType
           /\ \A w \in Ups \cup {None} : [c EXCEPT !.up = w] \in CallType
           /\ \A w \in Ups \cup {None} : [c EXCEPT !.victim = w] \in CallType
           /\ \A p \in {"idle", "offer", "scan", "clear"} : [c EXCEPT !.then = p] \in CallType
           /\ \A s \in 0 .. NSlots : [c EXCEPT !.slot = s] \in CallType
           /\ \A i \in Ups \cup {None} : [c EXCEPT !.inst = i] \in CallType
           /\ \A n \in Names \cup {None} : [c EXCEPT !.name = n] \in CallType
           /\ Idle \in CallType
  BY IdleFields DEF CallType

LEMMA GotoType ==
    ASSUME TypeOK, NEW t \in Threads, NEW c \in CallType, Goto(t, c)
    PROVE  call' \in [Threads -> CallType] /\ call'[t] = c
           /\ \A r \in Threads \ {t} : call'[r] = call[r]
  BY DEF TypeOK, Goto

LEMMA EnqueueType ==
    ASSUME TypeOK, NEW w \in Ups \cup {None}, NEW b \in BOOLEAN, EnquePartChange(w, b)
    PROVE  ref' \in [Ups -> Nat] /\ queue' \in Seq([up : Ups, create : BOOLEAN])
<1>1. ref \in [Ups -> Nat] /\ queue \in Seq([up : Ups, create : BOOLEAN])
  BY DEF TypeOK
<1>2. CASE CanRef(w)
  <2>0. w \in Ups /\ ref[w] + 1 \in Nat
    BY <1>1, <1>2 DEF CanRef
  <2>1. [up |-> w, create |-> b] \in [up : Ups, create : BOOLEAN]
    BY <2>0
  <2>2. ref' = [ref EXCEPT ![w] = @ + 1] /\ queue' = Append(queue, [up |-> w, create |-> b])
    BY <1>2 DEF EnquePartChange, GetRef
  <2>3. ref' \in [Ups -> Nat]
    BY <1>1, <2>0, <2>2
  <2>4. QED
    BY <1>1, <2>1, <2>2, <2>3
<1>3. QED
  BY <1>1, <1>2 DEF EnquePartChange

----------------------------------------------------------------------------
(* The steps of a call *)

LEMMA RetireStep ==
    ASSUME TypeOK, ParticipantInvariant, NEW t \in Threads, Retire(t)
    PROVE  TypeOK' /\ ParticipantInvariant'
<1> DEFINE c == [call[t] EXCEPT !.pc = "mark", !.then = "offer"]
<1>0. /\ call[t] \in CallType /\ c \in CallType /\ Goto(t, c) /\ call[t].pc = "retire"
      /\ UNCHANGED <<slots, mem, marked, meta, inst, deleted, serving, appMap, calls, holds>>
  BY CallRecords DEF TypeOK, Retire, EnqueueUnchanged
<1>1. call[t].victim \in Ups /\ mem[call[t].victim] = "live"
  BY <1>0, ReferredAlive DEF ParticipantInvariant, CallsOK
<1>2. \A u \in Ups : Counted(u)' /\ Alive(u)'
  BY <1>0, <1>1, CallEnqueues DEF Retire, CallType
<1>3. TypeOK'
  BY <1>0, <1>1, GotoType, EnqueueType DEF TypeOK, Retire
<1>4. TableOK' /\ CallsOK' /\ DestroyedOnce'
  BY <1>0 DEF Goto, ParticipantInvariant, TableOK, CallsOK, DestroyedOnce, CallType, TypeOK
<1>5. QED
  BY <1>2, <1>3, <1>4, InvariantParts

LEMMA OfferStep ==
    ASSUME TypeOK, ParticipantInvariant, NEW t \in Threads, Offer(t)
    PROVE  TypeOK' /\ ParticipantInvariant'
<1> DEFINE c == [call[t] EXCEPT !.pc = "put", !.then = "idle"]
<1>0. /\ call[t] \in CallType /\ c \in CallType /\ Goto(t, c) /\ call[t].pc = "offer"
      /\ UNCHANGED <<slots, mem, marked, meta, inst, deleted, serving, appMap, calls, holds>>
  BY CallRecords DEF TypeOK, Offer, EnqueueUnchanged
<1>1. /\ call[t].up \in Ups \cup {None} /\ (call[t].up # None => mem[call[t].up] = "live")
      /\ call[t].victim = None
  BY <1>0, ReferredAlive DEF ParticipantInvariant, CallsOK, CallType
<1>2. \A u \in Ups : Counted(u)' /\ Alive(u)'
  BY <1>0, <1>1, CallEnqueues DEF Offer, CallType
<1>3. TypeOK'
  BY <1>0, <1>1, GotoType, EnqueueType DEF TypeOK, Offer
<1>4. TableOK' /\ CallsOK' /\ DestroyedOnce'
  BY <1>0 DEF Goto, ParticipantInvariant, TableOK, CallsOK, DestroyedOnce, CallType, TypeOK
<1>5. QED
  BY <1>2, <1>3, <1>4, InvariantParts

LEMMA WithdrawStep ==
    ASSUME TypeOK, ParticipantInvariant, NEW t \in Threads, Withdraw(t)
    PROVE  TypeOK' /\ ParticipantInvariant'
<1> DEFINE c == [call[t] EXCEPT !.pc = "put"]
<1>0. /\ call[t] \in CallType /\ c \in CallType /\ Goto(t, c) /\ call[t].pc = "withdraw"
      /\ UNCHANGED <<slots, mem, marked, meta, inst, deleted, serving, appMap, calls, holds>>
  BY CallRecords DEF TypeOK, Withdraw, EnqueueUnchanged
<1>1. /\ call[t].up \in Ups \cup {None} /\ (call[t].up # None => mem[call[t].up] = "live")
      /\ call[t].victim = None
  BY <1>0, ReferredAlive DEF ParticipantInvariant, CallsOK, CallType
<1>2. \A u \in Ups : Counted(u)' /\ Alive(u)'
  BY <1>0, <1>1, CallEnqueues DEF Withdraw, CallType
<1>3. TypeOK'
  BY <1>0, <1>1, GotoType, EnqueueType DEF TypeOK, Withdraw
<1>4. TableOK' /\ CallsOK' /\ DestroyedOnce'
  BY <1>0 DEF Goto, ParticipantInvariant, TableOK, CallsOK, DestroyedOnce, CallType, TypeOK
<1>5. QED
  BY <1>2, <1>3, <1>4, InvariantParts

LEMMA PutStep ==
    ASSUME TypeOK, ParticipantInvariant, NEW t \in Threads, Put(t)
    PROVE  TypeOK' /\ ParticipantInvariant'
<1> DEFINE w == call[t].up
           c == IF call[t].then = "idle" THEN Idle
                ELSE [call[t] EXCEPT !.pc = call[t].then, !.up = None]
<1>0. /\ call[t] \in CallType /\ Goto(t, c) /\ call[t].pc = "put"
      /\ UNCHANGED <<slots, mem, marked, meta, inst, appVars, calls, holds>>
      /\ PutRef(w)
  BY DEF TypeOK, Put
<1>1. /\ call[t].victim = None /\ call[t].then \in {"idle", "clear", "scan"}
      /\ call[t].then = "clear" => call[t].slot \in Slots
  BY <1>0 DEF ParticipantInvariant, CallsOK
<1>2. [call[t] EXCEPT !.pc = call[t].then, !.up = None] \in CallType /\ Idle \in CallType
  BY <1>0, <1>1, CallRecords
<1>3. /\ c \in CallType /\ c.up = None /\ c.victim = None
      /\ c.pc = call[t].then
      /\ c.pc # "idle" => c.slot = call[t].slot /\ c.then = call[t].then
      /\ c.pc = "idle" => c.then = "idle"
  BY <1>0, <1>1, <1>2 DEF Idle, CallType
<1> HIDE DEF c
<1>4. \A u \in Ups : References(u)' = IF u = w THEN References(u) \ {<<"call", t>>}
                                               ELSE References(u)
  <2> SUFFICES ASSUME NEW u \in Ups
               PROVE  References(u)' = IF u = w THEN References(u) \ {<<"call", t>>}
                                                ELSE References(u)
    OBVIOUS
  <2>1. None \notin Ups
    BY ParticipantAssumption
  <2>2. /\ CallRefs(u)' = CallRefs(u) \ (IF u = w THEN {<<"call", t>>} ELSE {})
        /\ VictimRefs(u)' = VictimRefs(u)
    BY <1>0, <1>1, <1>3, <2>1, CallChange DEF CallRefs, VictimRefs
  <2>3. <<"call", t>> \notin SlotRefs(u) \cup QueueRefs(u) \cup ServingRefs(u) \cup AppRefs(u)
                             \cup UserRefs(u) \cup VictimRefs(u)
    BY DEF SlotRefs, QueueRefs, ServingRefs, AppRefs, UserRefs, VictimRefs
  <2>4. QED
    BY <1>0, <2>2, <2>3, SameEntries, SameApp, SameUsers DEF References
<1>5. /\ \A u \in Ups : Counted(u)' /\ Alive(u)'
      /\ ref' \in [Ups -> Nat] /\ deleted' \in SUBSET Ups
  <2>1. CASE w = None
    <3>1. None \notin Ups
      BY ParticipantAssumption
    <3>2. UNCHANGED <<ref, deleted>>
      BY <1>0, <2>1 DEF PutRef
    <3>3. \A u \in Ups : Counted(u)' /\ Alive(u)'
      BY <1>0, <1>1, <1>3, <2>1, <3>2, CallKeepsRefs
    <3>4. QED
      BY <3>2, <3>3 DEF TypeOK
  <2>2. CASE w # None
    <3>1. w \in Ups
      BY <1>0, <2>2 DEF CallType
    <3>2. <<"call", t>> \in References(w)
      BY RefTags
    <3>3. \A r \in Threads : call'[r].victim \in {call[r].victim, None}
      BY <1>0, <1>3, GotoType
    <3>4. QED
      BY <1>0, <1>4, <3>1, <3>2, <3>3, RefReleased
  <2>3. QED
    BY <2>1, <2>2
<1>7. TypeOK'
  BY <1>0, <1>3, <1>5, GotoType DEF TypeOK, appVars
<1>8. TableOK' /\ CallsOK' /\ DestroyedOnce'
  BY <1>0, <1>1, <1>3, GotoType DEF ParticipantInvariant, TableOK, CallsOK, DestroyedOnce
<1>9. QED
  BY <1>5, <1>7, <1>8, InvariantParts

LEMMA StartType ==
    ASSUME TypeOK, NEW t \in Threads, NEW op, Start(t, op)
    PROVE  calls' \in [Threads -> 0 .. MaxCalls] /\ call[t].pc = "idle"
  BY ParticipantAssumption DEF TypeOK, Start

(* A call that is between its sections has neither reference nor victim. *)
LEMMA NothingHeld ==
    ASSUME TypeOK, ParticipantInvariant, NEW t \in Threads,
           call[t].pc \in {"idle", "scan", "suspend", "clear"}
    PROVE  call[t] \in CallType /\ call[t].up = None /\ call[t].victim = None
  BY DEF TypeOK, ParticipantInvariant, CallsOK

(* A step that changes neither references nor the table's participants. *)
LEMMA QuietStep ==
    ASSUME TypeOK, ParticipantInvariant, NEW t \in Threads, NEW c \in CallType, Goto(t, c),
           call[t].pc \in {"idle", "scan", "suspend", "clear"},
           c.pc \in {"idle", "scan", "suspend", "clear"}, c.up = None, c.victim = None,
           c.pc \in {"suspend", "clear"} \/ c.then = "clear" => c.slot \in Slots,
           slots' \in [Slots -> [state : {"available", "removed", "created"},
                                 up : Ups \cup {None}]],
           \A s \in Slots : slots'[s].up = slots[s].up, TableOK',
           meta' \in [Ups -> MetaType \cup {None}], calls' \in [Threads -> 0 .. MaxCalls],
           UNCHANGED <<mem, ref, marked, inst, deleted, appVars, holds>>
    PROVE  TypeOK' /\ ParticipantInvariant'
<1>1. call[t].up = None /\ call[t].victim = None
  BY NothingHeld
<1>2. \A u \in Ups : Counted(u)' /\ Alive(u)'
  BY <1>1, CallKeepsRefs
<1>3. TypeOK'
  BY GotoType DEF TypeOK, appVars
<1>4. CallsOK'
  BY GotoType DEF ParticipantInvariant, CallsOK
<1>5. DestroyedOnce'
  BY <1>1, GotoType DEF ParticipantInvariant, DestroyedOnce
<1>6. QED
  BY <1>2, <1>3, <1>4, <1>5, InvariantParts

(* A step that begins with a reference on a participant of the table. *)
LEMMA TakeStep ==
    ASSUME TypeOK, ParticipantInvariant, NEW t \in Threads, NEW c \in CallType, Goto(t, c),
           call[t].pc \in {"idle", "scan", "suspend", "clear"},
           NEW s \in Slots, slots[s].up # None, c.up = slots[s].up, GetRef(slots[s].up),
           c.pc \in {"offer", "withdraw", "put"}, c.victim = None,
           c.then \in {"idle", "clear", "scan"}, c.then = "clear" => c.slot \in Slots,
           slots' \in [Slots -> [state : {"available", "removed", "created"},
                                 up : Ups \cup {None}]],
           \A r \in Slots : slots'[r].up = slots[r].up, TableOK',
           meta' \in [Ups -> MetaType \cup {None}], calls' \in [Threads -> 0 .. MaxCalls],
           UNCHANGED <<mem, marked, inst, deleted, appVars, holds>>
    PROVE  TypeOK' /\ ParticipantInvariant'
<1> DEFINE u == slots[s].up
<1>1. call[t].up = None /\ call[t].victim = None
  BY NothingHeld
<1>2. u \in Ups /\ mem[u] = "live" /\ ~marked[u]
  BY EntryAlive
<1>3. \A v \in Ups : Counted(v)' /\ Alive(v)'
  BY <1>1, <1>2, CallTakesRef
<1>4. TypeOK'
  <2>1. ref' \in [Ups -> Nat]
    BY <1>2 DEF TypeOK, GetRef
  <2>2. QED
    BY <2>1, GotoType DEF TypeOK, appVars
<1>5. CallsOK'
  BY GotoType DEF ParticipantInvariant, CallsOK
<1>6. DestroyedOnce'
  BY <1>1, GotoType DEF ParticipantInvariant, DestroyedOnce
<1>7. QED
  BY <1>3, <1>4, <1>5, <1>6, InvariantParts

(* An entry changes its state without becoming available. *)
LEMMA StateChange ==
    ASSUME TypeOK, ParticipantInvariant, NEW s \in Slots, slots[s].up # None,
           NEW x \in {"removed", "created"}, slots' = [slots EXCEPT ![s].state = x],
           \A u \in Ups : meta[u] \in MetaType => meta'[u] \in MetaType
    PROVE  /\ slots' \in [Slots -> [state : {"available", "removed", "created"},
                                    up : Ups \cup {None}]]
           /\ \A r \in Slots : slots'[r].up = slots[r].up
           /\ TableOK'
<1>1. /\ slots \in [Slots -> [state : {"available", "removed", "created"}, up : Ups \cup {None}]]
      /\ TableOK
  BY DEF TypeOK, ParticipantInvariant
<1>2. /\ slots' \in [Slots -> [state : {"available", "removed", "created"}, up : Ups \cup {None}]]
      /\ \A r \in Slots : slots'[r].up = slots[r].up
      /\ \A r \in Slots : r # s => slots'[r] = slots[r]
      /\ slots'[s].state = x
  BY <1>1
<1>3. QED
  BY <1>1, <1>2 DEF TableOK

LEMMA DestroyParticipantStep ==
    ASSUME TypeOK, ParticipantInvariant, NEW t \in Threads, NEW n \in Names, DestroyParticipant(t, n)
    PROVE  TypeOK' /\ ParticipantInvariant'
<1> DEFINE c == [Idle EXCEPT !.pc = "scan", !.name = n]
<1>1. c \in CallType /\ c.pc = "scan" /\ c.up = None /\ c.victim = None /\ c.then = "idle"
  BY IdleFields DEF CallType
<1>2. /\ calls' \in [Threads -> 0 .. MaxCalls] /\ call[t].pc = "idle" /\ Goto(t, c)
      /\ UNCHANGED <<slots, mem, ref, marked, meta, inst, deleted, appVars, holds>>
  BY StartType DEF DestroyParticipant, upVars
<1> HIDE DEF c
<1>3. TableOK'
  BY <1>2 DEF ParticipantInvariant, TableOK
<1>4. QED
  BY <1>1, <1>2, <1>3, QuietStep DEF TypeOK

LEMMA ScanStep ==
    ASSUME TypeOK, ParticipantInvariant, NEW t \in Threads, Scan(t)
    PROVE  TypeOK' /\ ParticipantInvariant'
<1> DEFINE found == {s \in Slots : (slots[s].up # None /\ meta[slots[s].up].name = call[t].name)
                                   /\ s > call[t].slot}
           c == IF found = {} THEN Idle
                ELSE [call[t] EXCEPT !.pc = "suspend", !.slot = Min(found),
                                     !.inst = inst[slots[Min(found)].up]]
<1>1. call[t].pc = "scan" /\ call[t] \in CallType /\ call[t].up = None /\ call[t].victim = None
  BY NothingHeld DEF Scan
<1>2. found = {s \in Occupied(LAMBDA u : meta[u].name = call[t].name) : s > call[t].slot}
  BY DEF Occupied
<1>3. /\ Goto(t, c)
      /\ UNCHANGED <<slots, mem, ref, marked, meta, inst, deleted, appVars, calls, holds>>
  BY <1>2 DEF Scan, upVars
<1>4. found # {} => /\ Min(found) \in Slots /\ Min(found) \in 0 .. NSlots
                    /\ inst[slots[Min(found)].up] \in Ups
  <2>1. found # {} => Min(found) \in found
    BY FirstMember
  <2>2. \A s \in Slots : s \in 0 .. NSlots
    BY ParticipantAssumption DEF Slots
  <2>3. \A s \in found : inst[slots[s].up] \in Ups
    BY EntryAlive
  <2>4. QED
    BY <2>1, <2>2, <2>3
<1>5. /\ c \in CallType /\ c.up = None /\ c.victim = None
      /\ c.pc \in {"idle", "suspend"} /\ (c.pc = "suspend" \/ c.then = "clear" => c.slot \in Slots)
  <2>1. CASE found = {}
    BY <2>1, IdleFields
  <2>2. CASE found # {}
    <3>1. [call[t] EXCEPT !.pc = "suspend", !.slot = Min(found),
                          !.inst = inst[slots[Min(found)].up]] \in CallType
      BY <1>1, <1>4, <2>2 DEF CallType
    <3>2. QED
      BY <1>1, <1>4, <2>2, <3>1 DEF CallType
  <2>3. QED
    BY <2>1, <2>2
<1> HIDE DEF c, found
<1>6. TableOK'
  BY <1>3 DEF ParticipantInvariant, TableOK
<1>7. QED
  BY <1>1, <1>3, <1>5, <1>6, QuietStep DEF TypeOK

(* EsifUpPm_SuspendParticipant, wherever it is called from. *)
LEMMA SuspendRefs ==
    ASSUME TypeOK, ParticipantInvariant, NEW t \in Threads, NEW i, NEW next \in CallType,
           call[t].pc \in {"idle", "suspend"},
           next.pc \in {"idle", "clear"}, next.up = None, next.victim = None,
           next.pc = "clear" \/ next.then = "clear" => next.slot \in Slots,
           SuspendStep(t, i, next), calls' \in [Threads -> 0 .. MaxCalls],
           UNCHANGED <<mem, marked, meta, inst, deleted, appVars, holds>>
    PROVE  TypeOK' /\ ParticipantInvariant'
<1> DEFINE s == InstanceSlot(i)
           u == slots[s].up
           c == [next EXCEPT !.pc = "withdraw", !.up = u, !.then = next.pc]
<1>0. /\ slots \in [Slots -> [state : {"available", "removed", "created"}, up : Ups \cup {None}]]
      /\ meta' \in [Ups -> MetaType \cup {None}] /\ TableOK
  BY DEF TypeOK, ParticipantInvariant
<1>1. CASE s # 0 /\ slots[s].state = "created"
  <2>1. s \in Slots /\ u # None
    BY <1>1, SearchFinds
  <2>2. u \in Ups /\ mem[u] = "live" /\ ~marked[u] /\ CanRef(u)
    BY <2>1, EntryAlive DEF CanRef
  <2>3. /\ slots' = [slots EXCEPT ![s].state = "removed"]
        /\ GetRef(u) /\ Goto(t, c)
    BY <1>1, <2>2 DEF SuspendStep
  <2>4. /\ c \in CallType /\ c.up = u /\ c.victim = None /\ c.pc = "withdraw" /\ c.then = next.pc
        /\ c.slot = next.slot
    BY <2>2 DEF CallType
  <2> HIDE DEF c, s
  <2>5. QED
    BY <1>0, <2>1, <2>3, <2>4, StateChange, TakeStep
<1>2. CASE ~(s # 0 /\ slots[s].state = "created")
  <2>1. Goto(t, next) /\ UNCHANGED <<slots, ref>>
    BY <1>2 DEF SuspendStep
  <2>2. TableOK'
    BY <1>0, <2>1 DEF TableOK
  <2>3. QED
    BY <1>0, <2>1, <2>2, QuietStep
<1>3. QED
  BY <1>1, <1>2

LEMMA SuspendParticipantStep ==
    ASSUME TypeOK, ParticipantInvariant, NEW t \in Threads, NEW i \in Instances,
           SuspendParticipant(t, i)
    PROVE  TypeOK' /\ ParticipantInvariant'
<1>2. /\ calls' \in [Threads -> 0 .. MaxCalls] /\ call[t].pc = "idle"
      /\ SuspendStep(t, i, Idle) /\ UNCHANGED <<mem, marked, meta, inst, deleted, appVars, holds>>
  BY StartType DEF SuspendParticipant
<1>3. QED
  BY <1>2, IdleFields, SuspendRefs

LEMMA SuspendFirstStep ==
    ASSUME TypeOK, ParticipantInvariant, NEW t \in Threads, SuspendFirst(t)
    PROVE  TypeOK' /\ ParticipantInvariant'
<1> DEFINE next == [call[t] EXCEPT !.pc = "clear"]
<1>1. /\ call[t].pc = "suspend" /\ call[t] \in CallType /\ call[t].up = None
      /\ call[t].victim = None /\ call[t].slot \in Slots
  BY NothingHeld DEF SuspendFirst, ParticipantInvariant, CallsOK
<1>2. /\ next \in CallType /\ next.pc = "clear" /\ next.up = None /\ next.victim = None
      /\ next.slot \in Slots
  BY <1>1 DEF CallType
<1>3. /\ SuspendStep(t, call[t].inst, next) /\ calls' \in [Threads -> 0 .. MaxCalls]
      /\ UNCHANGED <<mem, marked, meta, inst, deleted, appVars, holds>>
  BY DEF SuspendFirst, TypeOK
<1> HIDE DEF next
<1>4. QED
  BY <1>1, <1>2, <1>3, SuspendRefs

LEMMA ResumeParticipantStep ==
    ASSUME TypeOK, ParticipantInvariant, NEW t \in Threads, NEW i \in Instances,
           ResumeParticipant(t, i)
    PROVE  TypeOK' /\ ParticipantInvariant'
<1> DEFINE s == InstanceSlot(i)
           u == slots[s].up
           c == [Idle EXCEPT !.pc = "offer", !.up = u]
<1>1. s \in Slots /\ u # None
  BY SearchFinds
<1>2. u \in Ups /\ CanRef(u)
  BY <1>1, EntryAlive DEF CanRef
<1>3. /\ calls' \in [Threads -> 0 .. MaxCalls] /\ call[t].pc = "idle"
      /\ slots' = [slots EXCEPT ![s].state = "created"]
      /\ GetRef(u) /\ Goto(t, c)
      /\ UNCHANGED <<mem, marked, meta, inst, deleted, appVars, holds>>
  BY <1>2, StartType DEF ResumeParticipant
<1>4. c \in CallType /\ c.pc = "offer" /\ c.up = u /\ c.victim = None /\ c.then = "idle"
  BY <1>2, IdleFields DEF CallType
<1>5. meta' \in [Ups -> MetaType \cup {None}]
  BY <1>3 DEF TypeOK
<1> HIDE DEF c, s
<1>6. QED
  BY <1>1, <1>3, <1>4, <1>5, StateChange, TakeStep

LEMMA DestroyByInstanceStep ==
    ASSUME TypeOK, ParticipantInvariant, NEW t \in Threads, NEW i \in Instances,
           DestroyParticipantByInstance(t, i)
    PROVE  TypeOK' /\ ParticipantInvariant'
<1> DEFINE s == InstanceSlot(i)
           u == slots[s].up
           c == [Idle EXCEPT !.pc = "put", !.up = u, !.name = meta[u].name, !.then = "scan"]
<1>1. s \in Slots /\ u # None
  BY SearchFinds
<1>2. u \in Ups /\ mem[u] = "live"
  BY <1>1, EntryAlive
<1>3. /\ calls' \in [Threads -> 0 .. MaxCalls] /\ call[t].pc = "idle"
      /\ GetRef(u) /\ Goto(t, c)
      /\ UNCHANGED <<slots, mem, marked, meta, inst, deleted, appVars, holds>>
  BY StartType DEF DestroyParticipantByInstance
<1>4. meta[u].name \in Names \cup {None}
  BY <1>1 DEF ParticipantInvariant, TableOK, MetaType
<1>5. c \in CallType /\ c.pc = "put" /\ c.up = u /\ c.victim = None /\ c.then = "scan"
  BY <1>2, <1>4, IdleFields DEF CallType
<1>6. /\ meta' \in [Ups -> MetaType \cup {None}] /\ TableOK'
      /\ slots' \in [Slots -> [state : {"available", "removed", "created"}, up : Ups \cup {None}]]
  BY <1>3 DEF TypeOK, ParticipantInvariant, TableOK
<1> HIDE DEF c, s
<1>7. QED
  BY <1>1, <1>3, <1>5, <1>6, TakeStep

LEMMA RegisterAgainStep ==
    ASSUME TypeOK, ParticipantInvariant, NEW t \in Threads, NEW m \in Metas, RegisterAgain(t, m)
    PROVE  TypeOK' /\ ParticipantInvariant'
<1> DEFINE s == OverlapSlot(m)
           u == slots[s].up
           c == [Idle EXCEPT !.pc = "offer", !.up = u]
<1>1. s \in Slots /\ u # None
  BY SearchFinds DEF RegisterAgain
<1>2. u \in Ups /\ m.lf \in BOOLEAN
  BY <1>1, EntryAlive, ParticipantAssumption DEF MetaType
<1>3. /\ calls' \in [Threads -> 0 .. MaxCalls] /\ call[t].pc = "idle"
      /\ meta' = [meta EXCEPT ![u].lf = m.lf]
      /\ \/ GetRef(u) /\ slots' = [slots EXCEPT ![s].state = "created"] /\ Goto(t, c)
         \/ UNCHANGED <<slots, ref, call>>
      /\ UNCHANGED <<mem, marked, inst, deleted, appVars, holds>>
  BY StartType DEF RegisterAgain
<1>4. c \in CallType /\ c.pc = "offer" /\ c.up = u /\ c.victim = None /\ c.then = "idle"
  BY <1>2, IdleFields DEF CallType
<1> HIDE DEF c, s
<1>5. meta[u] \in MetaType
  BY <1>1 DEF ParticipantInvariant, TableOK
<1>6. meta \in [Ups -> MetaType \cup {None}]
  BY DEF TypeOK
<1>7. [meta[u] EXCEPT !.lf = m.lf] \in MetaType
  BY <1>2, <1>5 DEF MetaType
<1>8. /\ meta' \in [Ups -> MetaType \cup {None}]
      /\ \A v \in Ups : meta[v] \in MetaType => meta'[v] \in MetaType
  BY <1>2, <1>3, <1>6, <1>7
<1>9. CASE GetRef(u) /\ slots' = [slots EXCEPT ![s].state = "created"] /\ Goto(t, c)
  BY <1>1, <1>3, <1>4, <1>8, <1>9, StateChange, TakeStep
<1>10. CASE UNCHANGED <<slots, ref, call>>
  <2>1. call[t] \in CallType /\ Goto(t, call[t]) /\ call[t].up = None /\ call[t].victim = None
    BY <1>3, <1>10, NothingHeld DEF Goto, TypeOK
  <2>2. call[t].then = "clear" => call[t].slot \in Slots
    BY DEF ParticipantInvariant, CallsOK
  <2>3. TableOK'
    BY <1>8, <1>10, EntryAlive DEF ParticipantInvariant, TableOK
  <2>4. slots' \in [Slots -> [state : {"available", "removed", "created"}, up : Ups \cup {None}]]
    BY <1>10 DEF TypeOK
  <2>5. QED
    BY <1>3, <1>8, <1>10, <2>1, <2>2, <2>3, <2>4, QuietStep
<1>11. QED
  BY <1>3, <1>9, <1>10

----------------------------------------------------------------------------
(* EsifUp_DestroyParticipant *)

LEMMA MarkStep ==
    ASSUME TypeOK, ParticipantInvariant, NEW t \in Threads, Mark(t)
    PROVE  TypeOK' /\ ParticipantInvariant'
<1> DEFINE w == call[t].victim
           c == [call[t] EXCEPT !.pc = "drop"]
<1>1. /\ call[t] \in CallType /\ call[t].pc = "mark" /\ marked' = [marked EXCEPT ![w] = TRUE]
      /\ Goto(t, c)
      /\ UNCHANGED <<slots, mem, ref, meta, inst, deleted, appVars, calls, holds>>
  BY DEF Mark, TypeOK
<1>2. w \in Ups /\ mem[w] = "live"
  BY <1>1, ReferredAlive DEF ParticipantInvariant, CallsOK
<1>3. /\ c \in CallType /\ c.pc = "drop" /\ c.up = call[t].up /\ c.victim = w
      /\ c.then = call[t].then /\ c.slot = call[t].slot
  BY <1>1 DEF CallType
<1> HIDE DEF c
<1>4. /\ marked' \in [Ups -> BOOLEAN]
      /\ \A u \in Ups : marked'[u] # marked[u] => u = w /\ marked'[u] /\ mem[u] = "live"
  BY <1>1, <1>2 DEF TypeOK
<1>5. \A u \in Ups : Counted(u)' /\ Alive(u)'
  BY <1>1, <1>3, <1>4, CallKeepsRefs
<1>6. TypeOK'
  BY <1>1, <1>3, <1>4, GotoType DEF TypeOK, appVars
<1>7. TableOK' /\ CallsOK'
  BY <1>1, <1>3, GotoType DEF ParticipantInvariant, TableOK, CallsOK
<1>8. DestroyedOnce'
  <2>1. \A s \in Slots : slots[s].up # None => slots[s].up \in Ups
    BY DEF TypeOK
  <2>2. QED
    BY <1>1, <1>3, <1>4, <2>1, GotoType DEF ParticipantInvariant, DestroyedOnce
<1>9. QED
  BY <1>5, <1>6, <1>7, <1>8, InvariantParts

LEMMA DropStep ==
    ASSUME TypeOK, ParticipantInvariant, NEW t \in Threads, Drop(t)
    PROVE  TypeOK' /\ ParticipantInvariant'
<1> DEFINE w == call[t].victim
           c == [call[t] EXCEPT !.pc = "await"]
<1>1. /\ call[t] \in CallType /\ call[t].pc = "drop" /\ PutRef(w) /\ Goto(t, c)
      /\ UNCHANGED <<slots, mem, marked, meta, inst, appVars, calls, holds>>
  BY DEF Drop, TypeOK
<1>2. w \in Ups /\ mem[w] = "live" /\ None \notin Ups
  BY <1>1, ReferredAlive, ParticipantAssumption DEF ParticipantInvariant, CallsOK
<1>3. /\ c \in CallType /\ c.pc = "await" /\ c.up = call[t].up /\ c.victim = w
      /\ c.then = call[t].then /\ c.slot = call[t].slot
  BY <1>1 DEF CallType
<1> HIDE DEF c
<1>4. \A u \in Ups : References(u)' = IF u = w THEN References(u) \ {<<"victim", t>>}
                                               ELSE References(u)
  <2> SUFFICES ASSUME NEW u \in Ups
               PROVE  References(u)' = IF u = w THEN References(u) \ {<<"victim", t>>}
                                                ELSE References(u)
    OBVIOUS
  <2>1. /\ CallRefs(u)' = CallRefs(u)
        /\ VictimRefs(u)' = VictimRefs(u) \ (IF u = w THEN {<<"victim", t>>} ELSE {})
    BY <1>1, <1>3, CallChange DEF CallRefs, VictimRefs
  <2>2. <<"victim", t>> \notin SlotRefs(u) \cup QueueRefs(u) \cup ServingRefs(u) \cup AppRefs(u)
                               \cup UserRefs(u) \cup CallRefs(u)
    BY DEF SlotRefs, QueueRefs, ServingRefs, AppRefs, UserRefs, CallRefs
  <2>3. QED
    BY <1>1, <2>1, <2>2, SameEntries, SameApp, SameUsers DEF References
<1>5. <<"victim", t>> \in References(w)
  BY <1>1, RefTags
<1>6. \A r \in Threads : call'[r].victim \in {call[r].victim, None}
  BY <1>1, <1>3, GotoType
<1>7. /\ \A u \in Ups : Counted(u)' /\ Alive(u)'
      /\ ref' \in [Ups -> Nat] /\ deleted' \in SUBSET Ups
  BY <1>1, <1>2, <1>4, <1>5, <1>6, RefReleased
<1>8. TypeOK'
  BY <1>1, <1>3, <1>7, GotoType DEF TypeOK, appVars
<1>9. TableOK' /\ CallsOK' /\ DestroyedOnce'
  BY <1>1, <1>3, GotoType DEF ParticipantInvariant, TableOK, CallsOK, DestroyedOnce
<1>10. QED
  BY <1>7, <1>8, <1>9, InvariantParts

(* The participant is freed when its delete event is set: nothing refers to  *)
(* it, and no other thread is destroying it.                                 *)
LEMMA AwaitStep ==
    ASSUME TypeOK, ParticipantInvariant, NEW t \in Threads, Await(t)
    PROVE  TypeOK' /\ ParticipantInvariant'
<1> DEFINE w == call[t].victim
           c == [call[t] EXCEPT !.pc = call[t].then, !.victim = None]
<1>1. /\ call[t] \in CallType /\ call[t].pc = "await" /\ w \in deleted
      /\ mem' = [mem EXCEPT ![w] = "freed"] /\ Goto(t, c)
      /\ UNCHANGED <<slots, ref, marked, meta, inst, deleted, appVars, calls, holds>>
  BY DEF Await, TypeOK
<1>2. w \in Ups /\ mem[w] = "live" /\ w # None
  BY <1>1, ReferredAlive DEF ParticipantInvariant, CallsOK
<1>3. call[t].then = "offer" \/ (call[t].then = "scan" /\ call[t].up = None)
  BY <1>1 DEF ParticipantInvariant, CallsOK
<1>4. /\ c \in CallType /\ c.pc = call[t].then /\ c.up = call[t].up /\ c.victim = None
      /\ c.then = call[t].then /\ c.slot = call[t].slot
  BY <1>1, <1>3 DEF CallType
<1> HIDE DEF c
<1>5. ASSUME NEW u \in Ups PROVE Counted(u)' /\ Alive(u)'
  <2>1. Counted(u) /\ Alive(u)
    BY AllCounted DEF ParticipantInvariant
  <2>0. None \notin Ups
    BY ParticipantAssumption
  <2>2. CallRefs(u)' = CallRefs(u) /\ VictimRefs(u)' = VictimRefs(u)
    <3>1. <<"victim", t>> \notin VictimRefs(u)
      BY <1>1 DEF VictimRefs
    <3>2. c.victim # u
      BY <1>4, <2>0
    <3>a. c \in CallType /\ Goto(t, c)
      BY <1>1, <1>4
    <3>b. VictimRefs(u)' = (VictimRefs(u) \ {<<"victim", t>>})
                               \cup (IF c.victim = u /\ c.pc \in {"retire", "mark", "drop"}
                                       THEN {<<"victim", t>>} ELSE {})
      BY <3>a, CallChange
    <3>3. VictimRefs(u)' = VictimRefs(u)
      BY <3>1, <3>2, <3>b
    <3>4. CallRefs(u)' = CallRefs(u)
      BY <1>1, <1>4, CallChange DEF CallRefs
    <3>5. QED
      BY <3>3, <3>4
  <2>3. References(u)' = References(u)
    BY <1>1, <2>2, SameEntries, SameApp, SameUsers DEF References
  <2>4. mem \in [Ups -> {"unused", "live", "freed"}]
    BY DEF TypeOK
  <2>5. CASE u = w
    <3>1. References(u) = {}
      BY <1>1, <2>1, <2>5 DEF Alive
    <3>2. \A r \in Threads : call'[r].victim # u
      BY <1>1, <1>2, <1>4, <2>5, GotoType DEF ParticipantInvariant, DestroyedOnce
    <3>3. mem'[u] = "freed"
      BY <1>1, <1>2, <2>4, <2>5
    <3>4. Counted(u)'
      BY <2>1, <2>3, <3>1, <3>3 DEF Counted
    <3>5. QED
      BY <1>1, <1>2, <2>1, <2>3, <2>5, <3>2, <3>3, <3>4 DEF Alive
  <2>6. CASE u # w
    <3>1. mem'[u] = mem[u]
      BY <1>1, <2>4, <2>6
    <3>2. Counted(u)'
      BY <1>1, <2>1, <2>3, <3>1, RefsKept
    <3>3. \A r \in Threads : call'[r].victim = u => call[r].victim = u
      BY <1>1, <1>4, GotoType, ParticipantAssumption
    <3>4. QED
      BY <1>1, <2>1, <2>3, <3>1, <3>2, <3>3 DEF Alive
  <2>7. QED
    BY <2>5, <2>6
<1>6. TypeOK'
  BY <1>1, <1>2, <1>4, GotoType DEF TypeOK, appVars
<1>7. TableOK' /\ CallsOK'
  BY <1>1, <1>3, <1>4, GotoType DEF ParticipantInvariant, TableOK, CallsOK
<1>8. DestroyedOnce'
  BY <1>1, <1>4, GotoType DEF ParticipantInvariant, DestroyedOnce
<1>9. QED
  BY <1>5, <1>6, <1>7, <1>8, InvariantParts

(* The participant that the entry holds goes to the thread that destroys it, *)
(* with the table's reference.                                               *)
LEMMA ClearStep ==
    ASSUME TypeOK, ParticipantInvariant, NEW t \in Threads, Clear(t)
    PROVE  TypeOK' /\ ParticipantInvariant'
<1> DEFINE s == call[t].slot
           w == slots[s].up
           c == [call[t] EXCEPT !.pc = "mark", !.then = "scan", !.victim = w]
           d == [call[t] EXCEPT !.pc = "scan"]
<1>1. /\ call[t].pc = "clear" /\ slots' = [slots EXCEPT ![s] = [state |-> "available", up |-> None]]
      /\ Goto(t, IF w = None THEN d ELSE c)
      /\ UNCHANGED <<mem, ref, marked, meta, inst, deleted, appVars, calls, holds>>
  BY DEF Clear, upVars
<1>2. call[t] \in CallType /\ call[t].up = None /\ call[t].victim = None /\ s \in Slots
  BY <1>1, NothingHeld DEF ParticipantInvariant, CallsOK
<1>3. /\ slots \in [Slots -> [state : {"available", "removed", "created"}, up : Ups \cup {None}]]
      /\ TableOK
  BY DEF TypeOK, ParticipantInvariant
<1>4. /\ slots' \in [Slots -> [state : {"available", "removed", "created"}, up : Ups \cup {None}]]
      /\ slots'[s].up = None /\ slots'[s].state = "available"
      /\ \A r \in Slots : r # s => slots'[r] = slots[r]
  BY <1>1, <1>2, <1>3
<1>5. TableOK'
  BY <1>1, <1>2, <1>3, <1>4 DEF TableOK
<1>6. CASE w = None
  <2>1. /\ d \in CallType /\ d.pc = "scan" /\ d.up = None /\ d.victim = None
        /\ d.then = call[t].then /\ d.slot = s
    BY <1>2 DEF CallType
  <2> HIDE DEF d
  <2>2. \A r \in Slots : slots'[r].up = slots[r].up
    BY <1>4, <1>6
  <2>3. QED
    BY <1>1, <1>2, <1>4, <1>5, <1>6, <2>1, <2>2, QuietStep DEF TypeOK
<1>7. CASE w # None
  <2>1. w \in Ups /\ mem[w] = "live" /\ ~marked[w] /\ None \notin Ups
    BY <1>2, <1>7, EntryAlive, ParticipantAssumption
  <2>2. /\ c \in CallType /\ c.pc = "mark" /\ c.up = None /\ c.victim = w
        /\ c.then = "scan" /\ c.slot = s
    BY <1>2, <2>1 DEF CallType
  <2> HIDE DEF c, d
  <2>3. Goto(t, c)
    BY <1>1, <1>7
  <2>4. ASSUME NEW u \in Ups PROVE Counted(u)' /\ Alive(u)'
    <3>1. Counted(u) /\ Alive(u)
      BY AllCounted DEF ParticipantInvariant
    <3>2. /\ CallRefs(u)' = CallRefs(u)
          /\ VictimRefs(u)' = VictimRefs(u) \cup (IF u = w THEN {<<"victim", t>>} ELSE {})
      BY <1>2, <2>1, <2>2, <2>3, CallChange DEF CallRefs, VictimRefs
    <3>3. SlotRefs(u)' = SlotRefs(u) \ (IF u = w THEN {<<"slot", s>>} ELSE {})
      BY <1>2, <1>4, <2>1 DEF SlotRefs
    <3>4. <<"slot", s>> \notin QueueRefs(u) \cup ServingRefs(u) \cup AppRefs(u)
                               \cup UserRefs(u) \cup CallRefs(u) \cup VictimRefs(u)
      BY DEF QueueRefs, ServingRefs, AppRefs, UserRefs, CallRefs, VictimRefs
    <3>5. CASE u = w
      <4>1. References(u)' = (References(u) \ {<<"slot", s>>}) \cup {<<"victim", t>>}
        BY <1>1, <3>2, <3>3, <3>4, <3>5, SameApp, SameUsers DEF References
      <4>2. <<"slot", s>> \in References(u) /\ <<"victim", t>> \notin References(u)
        BY <1>2, <2>1, <3>5, RefTags
      <4>3. Counted(u)' /\ References(u) # {}
        BY <1>1, <3>1, <4>1, <4>2, RefMoved
      <4>4. QED
        BY <1>1, <2>1, <3>1, <3>5, <4>3 DEF Alive
    <3>6. CASE u # w
      <4>1. References(u)' = References(u)
        BY <1>1, <3>2, <3>3, <3>6, SameApp, SameUsers DEF References
      <4>2. Counted(u)'
        BY <1>1, <3>1, <4>1, RefsKept
      <4>3. \A r \in Threads : call'[r].victim = u => call[r].victim = u
        BY <2>2, <2>3, <3>6, GotoType
      <4>4. QED
        BY <1>1, <3>1, <4>1, <4>2, <4>3 DEF Alive
    <3>7. QED
      BY <3>5, <3>6
  <2>5. TypeOK'
    BY <1>1, <1>4, <2>2, <2>3, GotoType DEF TypeOK, appVars
  <2>6. CallsOK'
    BY <1>7, <2>2, <2>3, GotoType DEF ParticipantInvariant, CallsOK
  <2>7. DestroyedOnce'
    <3>1. \A r \in Slots : slots'[r].up # None => r # s /\ slots'[r].up = slots[r].up
                                                  /\ slots'[r].up # w
      BY <1>2, <1>3, <1>4, <1>7 DEF TableOK
    <3>2. \A r \in Threads : call[r].victim # w
      BY <1>2, <1>7 DEF ParticipantInvariant, DestroyedOnce
    <3>3. QED
      BY <1>1, <2>2, <2>3, <3>1, <3>2, GotoType DEF ParticipantInvariant, DestroyedOnce
  <2>8. QED
    BY <1>5, <2>4, <2>5, <2>6, <2>7, InvariantParts
<1>8. QED
  BY <1>6, <1>7


----------------------------------------------------------------------------
(* Registration *)

(* A new participant takes over an entry of the table, which is free or has  *)
(* a participant that the call will destroy.                                 *)
LEMMA InsertStep ==
    ASSUME TypeOK, ParticipantInvariant, NEW t \in Threads, call[t].pc = "idle",
           NEW w \in Ups, mem[w] = "unused", NEW m \in MetaType, NEW i \in Ups,
           CreateParticipant(w, m, i),
           NEW s \in Slots, slots' = [slots EXCEPT ![s] = [state |-> "created", up |-> w]],
           NEW c \in CallType, Goto(t, c), c.up = w, c.then = "idle",
           c.victim = slots[s].up, c.pc = IF slots[s].up = None THEN "offer" ELSE "retire",
           calls' \in [Threads -> 0 .. MaxCalls], UNCHANGED <<appVars, holds>>
    PROVE  TypeOK' /\ ParticipantInvariant'
<1> DEFINE v == slots[s].up
<1>0. None \notin Ups
  BY ParticipantAssumption
<1>1. call[t] \in CallType /\ call[t].up = None /\ call[t].victim = None
  BY NothingHeld
<1>2. /\ slots \in [Slots -> [state : {"available", "removed", "created"}, up : Ups \cup {None}]]
      /\ mem \in [Ups -> {"unused", "live", "freed"}] /\ ref \in [Ups -> Nat]
      /\ meta \in [Ups -> MetaType \cup {None}] /\ inst \in [Ups -> Ups \cup {None}]
      /\ TableOK /\ DestroyedOnce
  BY DEF TypeOK, ParticipantInvariant
<1>3. /\ slots' \in [Slots -> [state : {"available", "removed", "created"}, up : Ups \cup {None}]]
      /\ slots'[s].up = w /\ slots'[s].state = "created"
      /\ \A r \in Slots : r # s => slots'[r] = slots[r]
  BY <1>2
<1>4. /\ mem' \in [Ups -> {"unused", "live", "freed"}] /\ ref' \in [Ups -> Nat]
      /\ meta' \in [Ups -> MetaType \cup {None}] /\ inst' \in [Ups -> Ups \cup {None}]
      /\ mem'[w] = "live" /\ ref'[w] = 2 /\ meta'[w] = m /\ inst'[w] = i
      /\ UNCHANGED <<marked, deleted>>
      /\ \A u \in Ups : u # w => mem'[u] = mem[u] /\ ref'[u] = ref[u]
                                 /\ meta'[u] = meta[u] /\ inst'[u] = inst[u]
  BY <1>2 DEF CreateParticipant
<1>5. /\ Counted(w) /\ Alive(w) /\ References(w) = {} /\ ~marked[w] /\ w \notin deleted
      /\ \A r \in Threads : call[r].victim # w
  <2>1. Counted(w) /\ Alive(w)
    BY AllCounted DEF ParticipantInvariant
  <2>2. QED
    BY <2>1 DEF Counted, Alive
<1>6. \A r \in Slots : slots[r].up # w
  BY <1>0, <1>5, RefTags
<1>7. v # None => v \in Ups /\ mem[v] = "live" /\ ~marked[v]
  BY EntryAlive
<1>8. ASSUME NEW u \in Ups PROVE Counted(u)' /\ Alive(u)'
  <2>1. Counted(u) /\ Alive(u)
    BY AllCounted DEF ParticipantInvariant
  <2>2. CallRefs(u)' = CallRefs(u) \cup (IF u = w THEN {<<"call", t>>} ELSE {})
    <3>1. <<"call", t>> \notin CallRefs(u)
      BY <1>0, <1>1 DEF CallRefs
    <3>2. CallRefs(u)' = (CallRefs(u) \ {<<"call", t>>})
                               \cup (IF c.up = u THEN {<<"call", t>>} ELSE {})
      BY CallChange
    <3>3. QED
      BY <3>1, <3>2
  <2>3. VictimRefs(u)' = VictimRefs(u) \cup (IF u = v THEN {<<"victim", t>>} ELSE {})
    <3>1. <<"victim", t>> \notin VictimRefs(u)
      BY DEF VictimRefs
    <3>2. u = v => c.pc = "retire"
      BY <1>0
    <3>3. QED
      BY <3>1, <3>2, CallChange
  <2>4. SlotRefs(u)' = (SlotRefs(u) \ (IF u = v THEN {<<"slot", s>>} ELSE {}))
                         \cup (IF u = w THEN {<<"slot", s>>} ELSE {})
    BY <1>3, <1>6 DEF SlotRefs
  <2>5. <<"slot", s>> \notin QueueRefs(u) \cup ServingRefs(u) \cup AppRefs(u)
                             \cup UserRefs(u) \cup CallRefs(u) \cup VictimRefs(u)
    BY DEF QueueRefs, ServingRefs, AppRefs, UserRefs, CallRefs, VictimRefs
  <2>6. CASE u = w
    <3>0. w # v
      BY <1>6
    <3>1. References(u)' = References(u) \cup {<<"slot", s>>, <<"call", t>>}
      BY <2>2, <2>3, <2>4, <2>6, <3>0, SameApp, SameUsers DEF References
    <3>2. References(u)' = {<<"slot", s>>, <<"call", t>>}
      BY <1>5, <2>6, <3>1
    <3>3. <<"slot", s>> # <<"call", t>>
      OBVIOUS
    <3>4. Counted(u)'
      BY <1>4, <2>6, <3>2, <3>3, RefsNew
    <3>5. QED
      BY <1>4, <1>5, <2>6, <3>4 DEF Alive
  <2>7. CASE u = v /\ u # w
    <3>1. References(u)' = (References(u) \ {<<"slot", s>>}) \cup {<<"victim", t>>}
      BY <2>2, <2>3, <2>4, <2>5, <2>7, SameApp, SameUsers DEF References
    <3>2. <<"slot", s>> \in References(u) /\ <<"victim", t>> \notin References(u)
      BY <1>0, <1>1, <2>7, RefTags
    <3>3. Counted(u)' /\ References(u) # {}
      BY <1>4, <2>1, <2>7, <3>1, <3>2, RefMoved
    <3>4. QED
      BY <1>0, <1>4, <1>7, <2>1, <2>7, <3>3 DEF Alive
  <2>8. CASE u # v /\ u # w
    <3>1. References(u)' = References(u)
      BY <2>2, <2>3, <2>4, <2>8, SameApp, SameUsers DEF References
    <3>2. Counted(u)'
      BY <1>4, <2>1, <2>8, <3>1, RefsKept
    <3>3. \A r \in Threads : call'[r].victim = u => call[r].victim = u
      BY <2>8, GotoType
    <3>4. QED
      BY <1>4, <2>1, <2>8, <3>1, <3>2, <3>3 DEF Alive
  <2>9. QED
    BY <2>6, <2>7, <2>8
<1>9. TypeOK'
  BY <1>3, <1>4, GotoType DEF TypeOK, appVars
<1>10. TableOK'
  <2>1. \A r \in Slots : slots[r].up # None => slots[r].up \in Ups
    BY <1>2
  <2>2. QED
    BY <1>0, <1>2, <1>3, <1>4, <1>6, <2>1 DEF TableOK
<1>11. CallsOK'
  <2>1. c.victim # None <=> c.pc \in {"retire", "mark", "drop", "await"}
    OBVIOUS
  <2>2. c.pc \in {"offer", "retire"}
    OBVIOUS
  <2>3. QED
    BY <2>1, <2>2, GotoType DEF ParticipantInvariant, CallsOK
<1>12. DestroyedOnce'
  <2>1. ASSUME NEW r \in Slots, slots'[r].up # None
        PROVE  ~marked'[slots'[r].up] /\ \A q \in Threads : call'[q].victim # slots'[r].up
    <3>1. CASE r = s
      <4>1. slots'[r].up = w /\ c.victim # w
        BY <1>3, <1>6, <3>1
      <4>2. QED
        BY <1>4, <1>5, <4>1, GotoType
    <3>2. CASE r # s
      <4>1. slots'[r].up = slots[r].up /\ slots[r].up # None
        BY <1>3, <2>1, <3>2
      <4>2. slots[r].up # c.victim
        BY <1>2, <3>2, <4>1 DEF TableOK
      <4>3. QED
        BY <1>2, <1>4, <4>1, <4>2, GotoType DEF DestroyedOnce
    <3>3. QED
      BY <3>1, <3>2
  <2>2. ASSUME NEW q \in Threads, NEW r \in Threads, q # r, call'[q].victim # None
        PROVE  call'[q].victim # call'[r].victim
    <3>1. v # None => \A p \in Threads : call[p].victim # v
      BY <1>2 DEF DestroyedOnce
    <3>2. call'[t].victim = v /\ \A p \in Threads \ {t} : call'[p] = call[p]
      BY GotoType
    <3>3. call[q].victim # None => call[q].victim # call[r].victim
      BY <1>2, <2>2 DEF DestroyedOnce
    <3>4. QED
      BY <2>2, <3>1, <3>2, <3>3
  <2>3. QED
    BY <2>1, <2>2 DEF DestroyedOnce
<1>13. QED
  BY <1>8, <1>9, <1>10, <1>11, <1>12, InvariantParts

LEMMA NextUpFresh ==
    ASSUME Fresh # {}
    PROVE  NextUp \in Ups /\ mem[NextUp] = "unused"
<1>1. NextUp \in Fresh
  BY DEF NextUp
<1>2. QED
  BY <1>1 DEF Fresh

LEMMA RegisterNewStep ==
    ASSUME TypeOK, ParticipantInvariant, NEW t \in Threads, NEW m \in Metas, RegisterNew(t, m)
    PROVE  TypeOK' /\ ParticipantInvariant'
<1> DEFINE w == NextUp
           s == FreeSlot
           c == [Idle EXCEPT !.pc = "offer", !.up = w]
<1>1. w \in Ups /\ mem[w] = "unused" /\ m \in MetaType
  BY NextUpFresh, ParticipantAssumption DEF RegisterNew
<1>2. s \in Slots /\ slots[s].up = None
  BY SearchFinds DEF RegisterNew, ParticipantInvariant, TableOK
<1>3. /\ calls' \in [Threads -> 0 .. MaxCalls] /\ call[t].pc = "idle"
      /\ CreateParticipant(w, m, w)
      /\ slots' = [slots EXCEPT ![s] = [state |-> "created", up |-> w]]
      /\ Goto(t, c) /\ UNCHANGED <<appVars, holds>>
  BY StartType DEF RegisterNew
<1>4. c \in CallType /\ c.pc = "offer" /\ c.up = w /\ c.victim = None /\ c.then = "idle"
  BY <1>1, IdleFields DEF CallType
<1> HIDE DEF c, s, w
<1>5. QED
  BY <1>1, <1>2, <1>3, <1>4, InsertStep

LEMMA RegisterInsteadStep ==
    ASSUME TypeOK, ParticipantInvariant, NEW t \in Threads, NEW m \in Metas, RegisterInstead(t, m)
    PROVE  TypeOK' /\ ParticipantInvariant'
<1> DEFINE w == NextUp
           s == OverlapSlot(m)
           u == slots[s].up
           c == [Idle EXCEPT !.pc = "retire", !.up = w, !.victim = u]
<1>1. w \in Ups /\ mem[w] = "unused" /\ m \in MetaType
  BY NextUpFresh, ParticipantAssumption DEF RegisterInstead
<1>2. s \in Slots /\ u # None /\ u \in Ups /\ inst[u] \in Ups
  BY SearchFinds, EntryAlive DEF RegisterInstead
<1>3. /\ calls' \in [Threads -> 0 .. MaxCalls] /\ call[t].pc = "idle"
      /\ CreateParticipant(w, m, inst[u])
      /\ slots' = [slots EXCEPT ![s] = [state |-> "created", up |-> w]]
      /\ Goto(t, c) /\ UNCHANGED <<appVars, holds>>
  BY StartType DEF RegisterInstead
<1>4. c \in CallType /\ c.pc = "retire" /\ c.up = w /\ c.victim = u /\ c.then = "idle"
  BY <1>1, <1>2, IdleFields DEF CallType
<1> HIDE DEF c, s, w
<1>5. QED
  BY <1>1, <1>2, <1>3, <1>4, InsertStep

----------------------------------------------------------------------------
(* The queue thread and the users *)

(* Steps that leave the table and the calls alone. *)
LEMMA SameCalls ==
    ASSUME UNCHANGED <<slots, call>>, NEW u
    PROVE  SlotRefs(u)' = SlotRefs(u) /\ CallRefs(u)' = CallRefs(u)
           /\ VictimRefs(u)' = VictimRefs(u)
  BY DEF SlotRefs, CallRefs, VictimRefs

LEMMA RestKept ==
    ASSUME ParticipantInvariant, UNCHANGED <<slots, call, marked, meta>>
    PROVE  TableOK' /\ CallsOK' /\ DestroyedOnce'
  BY DEF ParticipantInvariant, TableOK, CallsOK, DestroyedOnce

(* A step takes one reference on a participant that is not marked. *)
LEMMA RefTaken ==
    ASSUME TypeOK, ParticipantInvariant, NEW w \in Ups, mem[w] = "live", ~marked[w], GetRef(w),
           UNCHANGED <<mem, marked, inst, deleted, call>>, NEW x, x \notin References(w),
           \A u \in Ups : References(u)' = IF u = w THEN References(u) \cup {x} ELSE References(u)
    PROVE  (\A u \in Ups : Counted(u)' /\ Alive(u)') /\ ref' \in [Ups -> Nat]
<1>1. ref' = [ref EXCEPT ![w] = ref[w] + 1] /\ ref \in [Ups -> Nat] /\ ref[w] + 1 \in Nat
  BY DEF GetRef, TypeOK
<1>2. ref' \in [Ups -> Nat]
  BY <1>1
<1>3. ASSUME NEW u \in Ups PROVE Counted(u)' /\ Alive(u)'
  <2>1. Counted(u) /\ Alive(u)
    BY AllCounted DEF ParticipantInvariant
  <2>2. CASE u = w
    <3>1. Counted(u)'
      BY <1>1, <2>1, <2>2, RefGained
    <3>2. QED
      BY <2>1, <2>2, <3>1 DEF Alive
  <2>3. CASE u # w
    <3>1. Counted(u)'
      BY <1>1, <2>1, <2>3, RefsKept
    <3>2. QED
      BY <2>1, <2>3, <3>1 DEF Alive
  <2>4. QED
    BY <2>2, <2>3
<1>4. QED
  BY <1>2, <1>3

(* The references of the items move up by one place, and the first becomes   *)
(* the item in hand: as many references as before.                           *)
LEMMA PullCounts ==
    ASSUME TypeOK, Pull, NEW u \in Ups, IsFiniteSet(References(u))
    PROVE  /\ IsFiniteSet(References(u)')
           /\ Cardinality(References(u)') = Cardinality(References(u))
<1> DEFINE O == SlotRefs(u) \cup AppRefs(u) \cup UserRefs(u) \cup CallRefs(u) \cup VictimRefs(u)
           Q == QueueRefs(u)
           T == QueueRefs(u)' \cup ServingRefs(u)'
           g(x) == IF x[1] = "queue"
                     THEN IF x[2] = 1 THEN <<"serving", 0>> ELSE <<"queue", x[2] - 1>>
                     ELSE x
           f == [x \in O \cup Q |-> g(x)]
<1>1. /\ queue \in Seq([up : Ups, create : BOOLEAN]) /\ queue # <<>> /\ queue' = Tail(queue)
      /\ serving.up = None /\ serving'.up = queue[1].up
      /\ UNCHANGED <<slots, appMap, call, holds>> /\ None \notin Ups
  BY ParticipantAssumption DEF TypeOK, Pull
<1>2. /\ Len(queue) \in Nat /\ Len(queue) > 0 /\ DOMAIN queue = 1 .. Len(queue)
      /\ DOMAIN queue' = 1 .. Len(queue) - 1
      /\ \A k \in 1 .. Len(queue) - 1 : queue'[k] = queue[k + 1]
  BY <1>1
<1>3. References(u) = O \cup Q
  BY <1>1 DEF References, ServingRefs
<1>4. References(u)' = O \cup T
  BY <1>1, SameCalls, SameUsers DEF References, AppRefs
<1>5. \A x \in O : x[1] # "queue" /\ x[1] # "serving"
  BY DEF SlotRefs, AppRefs, UserRefs, CallRefs, VictimRefs
<1>6. \A x : x \in Q <=> \E k \in 1 .. Len(queue) : x = <<"queue", k>> /\ queue[k].up = u
  BY <1>2 DEF QueueRefs
<1>7. \A x : x \in T <=> \/ x = <<"serving", 0>> /\ queue[1].up = u
                         \/ \E k \in 1 .. Len(queue) - 1 : x = <<"queue", k>> /\ queue[k + 1].up = u
  BY <1>1, <1>2 DEF QueueRefs, ServingRefs
<1> HIDE DEF O, Q, T
<1>8. ASSUME NEW x \in O \cup Q PROVE g(x) \in O \cup T
  <2>1. CASE x \in O
    BY <1>5, <2>1
  <2>2. CASE x \in Q
    <3>1. PICK k \in 1 .. Len(queue) : x = <<"queue", k>> /\ queue[k].up = u
      BY <1>6, <2>2
    <3>2. CASE k = 1
      BY <1>7, <3>1, <3>2
    <3>3. CASE k # 1
      <4>1. k - 1 \in 1 .. Len(queue) - 1 /\ (k - 1) + 1 = k
        BY <1>2, <3>3
      <4>2. g(x) = <<"queue", k - 1>>
        BY <3>1, <3>3
      <4>3. QED
        BY <1>7, <3>1, <4>1, <4>2
    <3>4. QED
      BY <3>2, <3>3
  <2>3. QED
    BY <2>1, <2>2
<1>9. ASSUME NEW x \in O \cup Q, NEW y \in O \cup Q, g(x) = g(y) PROVE x = y
  <2>1. CASE x \in O /\ y \in O
    BY <1>5, <1>9, <2>1
  <2>2. CASE x \in Q /\ y \in Q
    <3>1. PICK j \in 1 .. Len(queue) : x = <<"queue", j>>
      BY <1>6, <2>2
    <3>2. PICK k \in 1 .. Len(queue) : y = <<"queue", k>>
      BY <1>6, <2>2
    <3>3. g(x) = IF j = 1 THEN <<"serving", 0>> ELSE <<"queue", j - 1>>
      BY <3>1
    <3>4. g(y) = IF k = 1 THEN <<"serving", 0>> ELSE <<"queue", k - 1>>
      BY <3>2
    <3>5. j = k
      BY <1>2, <1>9, <3>3, <3>4
    <3>6. QED
      BY <3>1, <3>2, <3>5
  <2>3. ASSUME NEW a \in O, NEW b \in Q PROVE g(a) # g(b)
    <3>1. PICK k \in 1 .. Len(queue) : b = <<"queue", k>>
      BY <1>6
    <3>2. g(b)[1] \in {"serving", "queue"}
      BY <3>1
    <3>3. g(a) = a
      BY <1>5
    <3>4. QED
      BY <1>5, <3>2, <3>3
  <2>4. QED
    BY <1>9, <2>1, <2>2, <2>3
<1>10. ASSUME NEW y \in O \cup T PROVE \E x \in O \cup Q : g(x) = y
  <2>1. CASE y \in O
    BY <1>5, <2>1
  <2>2. CASE y = <<"serving", 0>> /\ queue[1].up = u
    <3>1. <<"queue", 1>> \in Q
      BY <1>2, <1>6, <2>2
    <3>2. g(<<"queue", 1>>) = y
      BY <2>2
    <3>3. QED
      BY <3>1, <3>2
  <2>3. ASSUME NEW k \in 1 .. Len(queue) - 1, y = <<"queue", k>>, queue[k + 1].up = u
        PROVE  \E x \in O \cup Q : g(x) = y
    <3>1. k + 1 \in 1 .. Len(queue) /\ k + 1 # 1 /\ (k + 1) - 1 = k
      BY <1>2
    <3>2. <<"queue", k + 1>> \in Q
      BY <1>6, <2>3, <3>1
    <3>3. g(<<"queue", k + 1>>) = <<"queue", k>>
      BY <3>1
    <3>4. QED
      BY <2>3, <3>2, <3>3
  <2>4. QED
    BY <1>7, <2>1, <2>2, <2>3
<1> HIDE DEF g
<1>11. f \in Bijection(O \cup Q, O \cup T)
  <2>1. f \in [O \cup Q -> O \cup T]
    BY <1>8
  <2>2. \A x, y \in O \cup Q : f[x] = f[y] => x = y
    BY <1>9
  <2>3. \A y \in O \cup T : \E x \in O \cup Q : f[x] = y
    BY <1>10
  <2>4. QED
    BY <2>1, <2>2, <2>3 DEF Bijection, Injection, Surjection, IsInjective
<1>12. IsFiniteSet(O \cup T) /\ Cardinality(O \cup T) = Cardinality(O \cup Q)
  <2>1. ExistsBijection(O \cup Q, O \cup T)
    BY <1>11 DEF ExistsBijection
  <2>2. QED
    BY <1>3, <2>1, FS_Bijection
<1>13. QED
  BY <1>3, <1>4, <1>12

LEMMA PullStep ==
    ASSUME TypeOK, ParticipantInvariant, Pull
    PROVE  TypeOK' /\ ParticipantInvariant'
<1>1. /\ UNCHANGED <<slots, mem, ref, marked, meta, inst, deleted, appMap, call, calls, holds>>
      /\ queue \in Seq([up : Ups, create : BOOLEAN]) /\ queue # <<>> /\ queue' = Tail(queue)
      /\ serving' = [up |-> Head(queue).up, create |-> Head(queue).create, applied |-> FALSE]
  BY DEF Pull, TypeOK, upVars
<1>2. ASSUME NEW u \in Ups PROVE Counted(u)' /\ Alive(u)'
  <2>1. Counted(u) /\ Alive(u)
    BY AllCounted DEF ParticipantInvariant
  <2>2. IsFiniteSet(References(u))
    BY <2>1 DEF Counted
  <2>3. IsFiniteSet(References(u)') /\ Cardinality(References(u)') = Cardinality(References(u))
    BY <2>2, PullCounts
  <2>4. References(u) = {} => References(u)' = {}
    BY <2>2, <2>3, FS_EmptySet
  <2>5. QED
    BY <1>1, <2>1, <2>3, <2>4 DEF Counted, Alive
<1>3. TypeOK'
  <2> DEFINE Item == [up : Ups, create : BOOLEAN]
  <2>0. queue \in Seq(Item) /\ queue # <<>>
    BY <1>1
  <2>1. Head(queue) \in Item /\ Tail(queue) \in Seq(Item)
    <3> HIDE DEF Item
    <3>1. QED
      BY <2>0
  <2>2. serving' \in [up : Ups \cup {None}, create : BOOLEAN, applied : BOOLEAN]
    BY <1>1, <2>1
  <2>3. QED
    BY <1>1, <2>1, <2>2 DEF TypeOK
<1>4. QED
  BY <1>1, <1>2, <1>3, RestKept, InvariantParts

(* The record of the item in hand after it was applied. *)
LEMMA AppliedItem ==
    ASSUME TypeOK, serving' = [serving EXCEPT !.applied = TRUE], NEW u
    PROVE  /\ serving' \in [up : Ups \cup {None}, create : BOOLEAN, applied : BOOLEAN]
           /\ ServingRefs(u)' = ServingRefs(u)
  BY DEF TypeOK, ServingRefs

LEMMA CreateInAppStep ==
    ASSUME TypeOK, ParticipantInvariant, CreateInApp
    PROVE  TypeOK' /\ ParticipantInvariant'
<1> DEFINE w == serving.up
           i == inst[w]
<1>1. /\ w # None /\ serving' = [serving EXCEPT !.applied = TRUE]
      /\ UNCHANGED <<slots, mem, marked, meta, inst, deleted, queue, call, calls, holds>>
      /\ \/ UNCHANGED <<appMap, ref>>
         \/ appMap[i] = None /\ CanRef(w) /\ GetRef(w) /\ appMap' = [appMap EXCEPT ![i] = w]
         \/ appMap[i] = None /\ appMap' = [appMap EXCEPT ![i] = "broken"] /\ UNCHANGED ref
  BY DEF CreateInApp
<1>2. w \in Ups /\ mem[w] = "live" /\ i \in Ups /\ None \notin Ups /\ "broken" \notin Ups
  BY <1>1, ReferredAlive, ParticipantAssumption
<1>3. appMap \in [Ups -> Ups \cup {None, "broken"}] /\ ref \in [Ups -> Nat]
  BY DEF TypeOK
<1> HIDE DEF w, i
<1>4. \A u \in Ups : /\ SlotRefs(u)' = SlotRefs(u) /\ CallRefs(u)' = CallRefs(u)
                     /\ VictimRefs(u)' = VictimRefs(u) /\ UserRefs(u)' = UserRefs(u)
                     /\ QueueRefs(u)' = QueueRefs(u) /\ ServingRefs(u)' = ServingRefs(u)
  BY <1>1, SameCalls, SameUsers, AppliedItem DEF QueueRefs
<1>5. /\ \A u \in Ups : Counted(u)' /\ Alive(u)'
      /\ ref' \in [Ups -> Nat] /\ appMap' \in [Ups -> Ups \cup {None, "broken"}]
  <2>1. CASE appMap[i] = None /\ CanRef(w) /\ GetRef(w) /\ appMap' = [appMap EXCEPT ![i] = w]
    <3>1. \A u \in Ups : AppRefs(u)' = IF u = w THEN AppRefs(u) \cup {<<"app", i>>} ELSE AppRefs(u)
      BY <1>2, <1>3, <2>1 DEF AppRefs
    <3>2. \A u \in Ups : References(u)' = IF u = w THEN References(u) \cup {<<"app", i>>}
                                                   ELSE References(u)
      BY <1>4, <3>1 DEF References
    <3>3. <<"app", i>> \notin References(w)
      BY <1>2, <2>1, RefTags
    <3>4. ~marked[w]
      BY <2>1 DEF CanRef
    <3>5. (\A u \in Ups : Counted(u)' /\ Alive(u)') /\ ref' \in [Ups -> Nat]
      BY <1>1, <1>2, <2>1, <3>2, <3>3, <3>4, RefTaken
    <3>6. QED
      BY <1>2, <1>3, <2>1, <3>5
  <2>2. CASE /\ UNCHANGED ref
             /\ \/ UNCHANGED appMap
                \/ appMap[i] = None /\ appMap' = [appMap EXCEPT ![i] = "broken"]
    <3>1. \A u \in Ups : AppRefs(u)' = AppRefs(u)
      BY <1>2, <1>3, <2>2 DEF AppRefs
    <3>2. \A u \in Ups : References(u)' = References(u)
      BY <1>4, <3>1 DEF References
    <3>3. \A u \in Ups : Counted(u) /\ Alive(u)
      BY AllCounted DEF ParticipantInvariant
    <3>4. \A u \in Ups : Counted(u)'
      BY <1>1, <2>2, <3>2, <3>3, RefsKept
    <3>5. \A u \in Ups : Alive(u)'
      BY <1>1, <3>2, <3>3 DEF Alive
    <3>6. QED
      BY <1>2, <1>3, <2>2, <3>4, <3>5
  <2>3. QED
    BY <1>1, <2>1, <2>2
<1>6. TypeOK'
  BY <1>1, <1>5, AppliedItem DEF TypeOK
<1>7. QED
  BY <1>1, <1>5, <1>6, RestKept, InvariantParts

LEMMA DestroyInAppStep ==
    ASSUME TypeOK, ParticipantInvariant, DestroyInApp
    PROVE  TypeOK' /\ ParticipantInvariant'
<1> DEFINE i == inst[serving.up]
           w == appMap[i]
<1>1. /\ serving.up # None /\ serving' = [serving EXCEPT !.applied = TRUE]
      /\ UNCHANGED <<slots, mem, marked, meta, inst, queue, call, calls, holds>>
      /\ IF w \in Ups THEN PutRef(w) /\ appMap' = [appMap EXCEPT ![i] = None]
                      ELSE UNCHANGED <<ref, deleted, appMap>>
  BY DEF DestroyInApp
<1>2. i \in Ups /\ None \notin Ups
  BY <1>1, ReferredAlive, ParticipantAssumption
<1>3. /\ appMap \in [Ups -> Ups \cup {None, "broken"}] /\ ref \in [Ups -> Nat]
      /\ deleted \in SUBSET Ups
  BY DEF TypeOK
<1> HIDE DEF i
<1>4. \A u \in Ups : /\ SlotRefs(u)' = SlotRefs(u) /\ CallRefs(u)' = CallRefs(u)
                     /\ VictimRefs(u)' = VictimRefs(u) /\ UserRefs(u)' = UserRefs(u)
                     /\ QueueRefs(u)' = QueueRefs(u) /\ ServingRefs(u)' = ServingRefs(u)
  BY <1>1, SameCalls, SameUsers, AppliedItem DEF QueueRefs
<1>5. /\ \A u \in Ups : Counted(u)' /\ Alive(u)'
      /\ ref' \in [Ups -> Nat] /\ deleted' \in SUBSET Ups
      /\ appMap' \in [Ups -> Ups \cup {None, "broken"}]
  <2>1. CASE w \in Ups
    <3>1. \A u \in Ups : AppRefs(u)' = IF u = w THEN AppRefs(u) \ {<<"app", i>>} ELSE AppRefs(u)
      BY <1>1, <1>2, <1>3, <2>1 DEF AppRefs
    <3>2. \A u \in Ups : <<"app", i>> \notin SlotRefs(u) \cup QueueRefs(u) \cup ServingRefs(u)
                             \cup UserRefs(u) \cup CallRefs(u) \cup VictimRefs(u)
      BY DEF SlotRefs, QueueRefs, ServingRefs, UserRefs, CallRefs, VictimRefs
    <3>3. \A u \in Ups : References(u)' = IF u = w THEN References(u) \ {<<"app", i>>}
                                                   ELSE References(u)
      BY <1>4, <3>1, <3>2 DEF References
    <3>4. <<"app", i>> \in References(w)
      BY <1>2, RefTags
    <3>5. PutRef(w) /\ \A t \in Threads : call'[t].victim \in {call[t].victim, None}
      BY <1>1, <2>1
    <3> HIDE DEF w
    <3>6. /\ \A u \in Ups : Counted(u)' /\ Alive(u)'
          /\ ref' \in [Ups -> Nat] /\ deleted' \in SUBSET Ups
      BY <1>1, <2>1, <3>3, <3>4, <3>5, RefReleased
    <3>7. QED
      BY <1>1, <1>2, <1>3, <2>1, <3>6
  <2>2. CASE w \notin Ups
    <3>1. \A u \in Ups : References(u)' = References(u)
      BY <1>1, <1>4, <2>2 DEF References, AppRefs
    <3>2. \A u \in Ups : Counted(u) /\ Alive(u)
      BY AllCounted DEF ParticipantInvariant
    <3>3. \A u \in Ups : Counted(u)'
      BY <1>1, <2>2, <3>1, <3>2, RefsKept
    <3>4. \A u \in Ups : Alive(u)'
      BY <1>1, <2>2, <3>1, <3>2 DEF Alive
    <3>5. QED
      BY <1>1, <1>3, <2>2, <3>3, <3>4
  <2>3. QED
    BY <2>1, <2>2
<1>6. TypeOK'
  BY <1>1, <1>5, AppliedItem DEF TypeOK
<1>7. QED
  BY <1>1, <1>5, <1>6, RestKept, InvariantParts

LEMMA ServedStep ==
    ASSUME TypeOK, ParticipantInvariant, Served
    PROVE  TypeOK' /\ ParticipantInvariant'
<1> DEFINE w == serving.up
<1>1. /\ PutRef(w) /\ serving' = NoItem
      /\ UNCHANGED <<slots, mem, marked, meta, inst, queue, appMap, call, calls, holds>>
  BY DEF Served
<1>2. /\ serving' \in [up : Ups \cup {None}, create : BOOLEAN, applied : BOOLEAN]
      /\ serving'.up = None /\ w \in Ups \cup {None} /\ None \notin Ups
  BY <1>1, ParticipantAssumption DEF NoItem, TypeOK
<1>3. \A u \in Ups : References(u)' = IF u = w THEN References(u) \ {<<"serving", 0>>}
                                               ELSE References(u)
  <2>1. \A u \in Ups : ServingRefs(u)' = {} /\ (u # w => ServingRefs(u) = {})
                       /\ (u = w => ServingRefs(u) = {<<"serving", 0>>})
    BY <1>2 DEF ServingRefs
  <2>2. \A u \in Ups : <<"serving", 0>> \notin SlotRefs(u) \cup QueueRefs(u) \cup AppRefs(u)
                             \cup UserRefs(u) \cup CallRefs(u) \cup VictimRefs(u)
    BY DEF SlotRefs, QueueRefs, AppRefs, UserRefs, CallRefs, VictimRefs
  <2>3. \A u \in Ups : /\ SlotRefs(u)' = SlotRefs(u) /\ CallRefs(u)' = CallRefs(u)
                       /\ VictimRefs(u)' = VictimRefs(u) /\ UserRefs(u)' = UserRefs(u)
                       /\ QueueRefs(u)' = QueueRefs(u) /\ AppRefs(u)' = AppRefs(u)
    BY <1>1, SameCalls, SameUsers DEF QueueRefs, AppRefs
  <2>4. QED
    BY <2>1, <2>2, <2>3 DEF References
<1>4. \A t \in Threads : call'[t].victim \in {call[t].victim, None}
  BY <1>1
<1>5. /\ \A u \in Ups : Counted(u)' /\ Alive(u)'
      /\ ref' \in [Ups -> Nat] /\ deleted' \in SUBSET Ups
  <2>1. CASE w \in Ups
    <3>1. <<"serving", 0>> \in References(w)
      BY RefTags
    <3>2. QED
      BY <1>1, <1>3, <1>4, <2>1, <3>1, RefReleased
  <2>2. CASE w = None
    <3>1. UNCHANGED <<ref, deleted>>
      BY <1>1, <2>2 DEF PutRef
    <3>2. \A u \in Ups : Counted(u) /\ Alive(u) /\ References(u)' = References(u)
      BY <1>2, <1>3, <2>2, AllCounted DEF ParticipantInvariant
    <3>3. \A u \in Ups : Counted(u)'
      BY <1>1, <3>1, <3>2, RefsKept
    <3>4. \A u \in Ups : Alive(u)'
      BY <1>1, <3>1, <3>2 DEF Alive
    <3>5. QED
      BY <3>1, <3>3, <3>4 DEF TypeOK
  <2>3. QED
    BY <1>2, <2>1, <2>2
<1>6. TypeOK'
  BY <1>1, <1>2, <1>5 DEF TypeOK
<1>7. QED
  BY <1>1, <1>5, <1>6, RestKept, InvariantParts

LEMMA AcquireStep ==
    ASSUME TypeOK, ParticipantInvariant, NEW p \in Users, NEW i \in Instances, Acquire(p, i)
    PROVE  TypeOK' /\ ParticipantInvariant'
<1> DEFINE s == InstanceSlot(i)
           w == slots[s].up
<1>1. /\ holds[p] = None /\ GetRef(w) /\ holds' = [holds EXCEPT ![p] = w]
      /\ UNCHANGED <<slots, mem, marked, meta, inst, deleted, appVars, call, calls>>
  BY DEF Acquire
<1>2. s \in Slots /\ w # None
  BY SearchFinds
<1>3. w \in Ups /\ mem[w] = "live" /\ ~marked[w] /\ None \notin Ups
  BY <1>2, EntryAlive, ParticipantAssumption
<1>4. holds \in [Users -> Ups \cup {None}]
  BY DEF TypeOK
<1> HIDE DEF w, s
<1>5. \A u \in Ups : UserRefs(u)' = IF u = w THEN UserRefs(u) \cup {<<"user", p>>} ELSE UserRefs(u)
  BY <1>1, <1>3, <1>4 DEF UserRefs
<1>6. \A u \in Ups : References(u)' = IF u = w THEN References(u) \cup {<<"user", p>>}
                                               ELSE References(u)
  BY <1>1, <1>5, SameCalls, SameApp DEF References
<1>7. <<"user", p>> \notin References(w)
  BY <1>1, <1>3, RefTags
<1>8. (\A u \in Ups : Counted(u)' /\ Alive(u)') /\ ref' \in [Ups -> Nat]
  BY <1>1, <1>3, <1>6, <1>7, RefTaken
<1>9. TypeOK'
  BY <1>1, <1>3, <1>4, <1>8 DEF TypeOK, appVars
<1>10. QED
  BY <1>1, <1>8, <1>9, RestKept, InvariantParts

LEMMA ReleaseStep ==
    ASSUME TypeOK, ParticipantInvariant, NEW p \in Users, Release(p)
    PROVE  TypeOK' /\ ParticipantInvariant'
<1> DEFINE w == holds[p]
<1>1. /\ w # None /\ PutRef(w) /\ holds' = [holds EXCEPT ![p] = None]
      /\ UNCHANGED <<slots, mem, marked, meta, inst, appVars, call, calls>>
  BY DEF Release
<1>2. holds \in [Users -> Ups \cup {None}] /\ w \in Ups /\ None \notin Ups
  BY <1>1, ParticipantAssumption DEF TypeOK
<1>3. \A u \in Ups : UserRefs(u)' = IF u = w THEN UserRefs(u) \ {<<"user", p>>} ELSE UserRefs(u)
  BY <1>1, <1>2 DEF UserRefs
<1>4. \A u \in Ups : <<"user", p>> \notin SlotRefs(u) \cup QueueRefs(u) \cup ServingRefs(u)
                           \cup AppRefs(u) \cup CallRefs(u) \cup VictimRefs(u)
  BY DEF SlotRefs, QueueRefs, ServingRefs, AppRefs, CallRefs, VictimRefs
<1>5. \A u \in Ups : References(u)' = IF u = w THEN References(u) \ {<<"user", p>>}
                                               ELSE References(u)
  BY <1>1, <1>3, <1>4, SameCalls, SameApp DEF References
<1>6. <<"user", p>> \in References(w)
  BY RefTags
<1>7. \A t \in Threads : call'[t].victim \in {call[t].victim, None}
  BY <1>1
<1> HIDE DEF w
<1>8. /\ \A u \in Ups : Counted(u)' /\ Alive(u)'
      /\ ref' \in [Ups -> Nat] /\ deleted' \in SUBSET Ups
  BY <1>1, <1>2, <1>5, <1>6, <1>7, RefReleased
<1>9. TypeOK'
  BY <1>1, <1>2, <1>8 DEF TypeOK, appVars
<1>10. QED
  BY <1>1, <1>8, <1>9, RestKept, InvariantParts

----------------------------------------------------------------------------
(* The theorems *)

LEMMA InitParticipants ==
    ASSUME Init
    PROVE  TypeOK /\ ParticipantInvariant
<1>1. None \notin Ups /\ "broken" \notin Ups /\ MaxCalls \in Nat /\ NSlots \in Nat
  BY ParticipantAssumption
<1>2. TypeOK
  <2>1. /\ serving \in [up : Ups \cup {None}, create : BOOLEAN, applied : BOOLEAN]
        /\ call \in [Threads -> CallType]
    BY IdleFields DEF Init, NoItem
  <2>2. queue \in Seq([up : Ups, create : BOOLEAN])
    BY DEF Init
  <2>3. QED
    BY <1>1, <2>1, <2>2 DEF Init, TypeOK
<1>3. \A u \in Ups : References(u) = {}
  BY <1>1, IdleFields DEF Init, NoItem, References, SlotRefs, QueueRefs, ServingRefs, AppRefs,
     UserRefs, CallRefs, VictimRefs
<1>4. RefsFinite /\ ReferencesAccounted
  BY <1>3, FS_EmptySet DEF Init, RefsFinite, ReferencesAccounted
<1>5. TableOK /\ CallsOK /\ DestroyedOnce
  BY IdleFields DEF Init, TableOK, CallsOK, DestroyedOnce
<1>6. LifeOK
  BY <1>1, <1>3, IdleFields DEF Init, LifeOK
<1>7. QED
  BY <1>2, <1>4, <1>5, <1>6 DEF ParticipantInvariant

LEMMA StutterStep ==
    ASSUME TypeOK, ParticipantInvariant, UNCHANGED vars
    PROVE  TypeOK' /\ ParticipantInvariant'
<1>1. UNCHANGED <<slots, mem, ref, marked, meta, inst, deleted, queue, serving, appMap,
                  call, calls, holds>>
  BY DEF vars, upVars, appVars
<1>2. TypeOK'
  BY <1>1 DEF TypeOK
<1>3. \A u \in Ups : References(u)' = References(u)
  BY <1>1 DEF References, SlotRefs, QueueRefs, ServingRefs, AppRefs, UserRefs, CallRefs, VictimRefs
<1>4. \A u \in Ups : Counted(u) /\ Alive(u)
  BY AllCounted DEF ParticipantInvariant
<1>5. \A u \in Ups : Counted(u)' /\ Alive(u)'
  BY <1>1, <1>3, <1>4 DEF Counted, Alive
<1>6. QED
  BY <1>1, <1>2, <1>5, RestKept, InvariantParts

LEMMA NextStep ==
    ASSUME TypeOK, ParticipantInvariant, [Next]_vars
    PROVE  TypeOK' /\ ParticipantInvariant'
<1>1. ASSUME NEW t \in Threads, Step(t) PROVE TypeOK' /\ ParticipantInvariant'
  BY <1>1, RetireStep, OfferStep, WithdrawStep, PutStep, ScanStep, SuspendFirstStep, ClearStep,
     MarkStep, DropStep, AwaitStep DEF Step
<1>2. ASSUME NEW t \in Threads, Call(t) PROVE TypeOK' /\ ParticipantInvariant'
  BY <1>2, RegisterNewStep, RegisterAgainStep, RegisterInsteadStep, SuspendParticipantStep,
     ResumeParticipantStep, DestroyByInstanceStep, DestroyParticipantStep DEF Call
<1>3. ASSUME Serve PROVE TypeOK' /\ ParticipantInvariant'
  BY <1>3, PullStep, CreateInAppStep, DestroyInAppStep, ServedStep DEF Serve
<1>4. QED
  BY <1>1, <1>2, <1>3, AcquireStep, ReleaseStep, StutterStep DEF Next

(* TypeOK and ParticipantInvariant hold in every reachable state: the        *)
(* inductive argument over all operations of esif_uf_pm.c, the life of an    *)
(* EsifUp and the application manager's participant queue.                   *)
THEOREM ParticipantInvariantHolds ==
    Spec => [](TypeOK /\ ParticipantInvariant)
<1>1. Init => TypeOK /\ ParticipantInvariant
  BY InitParticipants
<1>2. TypeOK /\ ParticipantInvariant /\ [Next]_vars => (TypeOK /\ ParticipantInvariant)'
  BY NextStep
<1>3. QED
  BY <1>1, <1>2, PTL DEF Spec

(* The state of the participant manager has its types in every reachable     *)
(* state: in particular no reference count goes below zero.                  *)
THEOREM ParticipantTypeCorrect ==
    Spec => []TypeOK
  BY ParticipantInvariantHolds, PTL

(* EsifUp_GetRef and EsifUp_PutRef balance over the table, the queue, the    *)
(* application, users and calls in progress: a live participant's refCount   *)
(* is the number of references to it, and a freed one is referred to by none.*)
THEOREM ReferencesAreAccounted ==
    Spec => []ReferencesAccounted
<1>1. TypeOK /\ ParticipantInvariant => ReferencesAccounted
  BY DEF ParticipantInvariant
<1>2. QED
  BY <1>1, ParticipantInvariantHolds, PTL

(* EsifUp_DestroyParticipant runs at most once for a participant: what is in *)
(* the table is not marked, and no two threads destroy the same one.         *)
THEOREM ParticipantsDestroyedOnce ==
    Spec => []DestroyedOnce
<1>1. TypeOK /\ ParticipantInvariant => DestroyedOnce
  BY DEF ParticipantInvariant
<1>2. QED
  BY <1>1, ParticipantInvariantHolds, PTL
====
