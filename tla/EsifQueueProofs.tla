---- MODULE EsifQueueProofs ----
(***************************************************************************)
(* Machine-checked proofs about EsifQueue, for any capacity, any number of *)
(* items and app creations, with timed and untimed waits.  TypeOK and      *)
(* QueueInvariant are inductive together: that there is at most one waiter *)
(* or token, and that the size is the length, is what keeps the types.     *)
(* The step is proved in three parts - the event, the list, the wakeups -  *)
(* each with one step per action.                                          *)
(***************************************************************************)
EXTENDS EsifQueue, TLAPS

(* The event and its semaphore. *)
EventPart ==
    /\ signaled \in BOOLEAN /\ waiters \in 0 .. 1 /\ sem \in 0 .. 1
    /\ sigChanged \in BOOLEAN
    /\ TokensMatchWaiters /\ LateDownFallsThrough /\ TokenGivenBySet

(* The list, and the item the consumer holds. *)
ListPart ==
    /\ list \in Seq(Items) /\ currentSize \in 0 .. MaxSize
    /\ next \in 1 .. MaxItems + 1 /\ item \in Items \cup {0}
    /\ SizeMatchesList /\ HeldItemIsReal /\ FifoOrder

(* Who will wake whom. *)
WakePart ==
    NoLostWakeup /\ StopReachesConsumer /\ StopIsOrderly /\ NoWaitersAtDestroy

(* The control state and the history, which nothing above constrains. *)
ControlPart ==
    /\ cpc \in {"check", "wait", "down", "relock", "lateDown", "dequeue", "process",
                "requeue", "exited"}
    /\ timedOut \in BOOLEAN /\ timed \in BOOLEAN /\ exitFlag \in BOOLEAN /\ creationsLeft \in Nat
    /\ creator \in {"idle", "creating", "signal"}
    /\ mpc \in {"up", "signal", "join", "drain", "gone"}
    /\ served \subseteq Items /\ lost \subseteq Items /\ destroyed \subseteq Items

(* What esif_link_list_node_remove on the head leaves. *)
LEMMA TailFacts ==
  ASSUME NEW S, NEW s \in Seq(S), s # << >>
  PROVE  /\ Len(s) \in Nat /\ Len(s) > 0
         /\ Head(s) = s[1] /\ Head(s) \in S
         /\ Tail(s) \in Seq(S) /\ Len(Tail(s)) = Len(s) - 1
         /\ \A k \in 1 .. Len(s) - 1 : Tail(s)[k] = s[k + 1]
  OBVIOUS

(* An item put at the front moves the others back by one. *)
LEMMA PrependFacts ==
  ASSUME NEW S, NEW x \in S, NEW s \in Seq(S)
  PROVE  /\ <<x>> \o s \in Seq(S)
         /\ Len(<<x>> \o s) = Len(s) + 1
         /\ (<<x>> \o s)[1] = x
         /\ \A k \in 2 .. Len(s) + 1 : (<<x>> \o s)[k] = s[k - 1]
  OBVIOUS

(* Taking the head keeps the order, any bound, and leaves only larger ones. *)
LEMMA TailOrdered ==
  ASSUME NEW s \in Seq(Nat), s # << >>, NEW n \in Nat,
         \A j, k \in DOMAIN s : j < k => s[j] < s[k],
         \A k \in DOMAIN s : s[k] < n
  PROVE  /\ \A j, k \in DOMAIN Tail(s) : j < k => Tail(s)[j] < Tail(s)[k]
         /\ \A k \in DOMAIN Tail(s) : Head(s) < Tail(s)[k] /\ Tail(s)[k] < n
         /\ Head(s) < n
         /\ \A m \in Nat : (\A k \in DOMAIN s : m < s[k])
                           => \A k \in DOMAIN Tail(s) : m < Tail(s)[k]
<1>1. /\ Len(s) \in Nat /\ Len(s) > 0 /\ Head(s) = s[1]
      /\ DOMAIN s = 1 .. Len(s) /\ DOMAIN Tail(s) = 1 .. Len(s) - 1
      /\ \A k \in 1 .. Len(s) - 1 : Tail(s)[k] = s[k + 1]
  BY TailFacts
<1>2. 1 \in DOMAIN s /\ \A k \in DOMAIN Tail(s) : k + 1 \in DOMAIN s /\ k \in Int /\ 1 < k + 1
  BY <1>1
<1>3. ASSUME NEW j \in DOMAIN Tail(s), NEW k \in DOMAIN Tail(s), j < k
      PROVE  Tail(s)[j] < Tail(s)[k]
  <2>1. j + 1 \in DOMAIN s /\ k + 1 \in DOMAIN s /\ j + 1 < k + 1
    BY <1>2, <1>3
  <2>2. s[j + 1] < s[k + 1]
    BY <2>1
  <2>3. QED
    BY <1>1, <2>2
<1>4. ASSUME NEW k \in DOMAIN Tail(s)
      PROVE  Head(s) < Tail(s)[k] /\ Tail(s)[k] < n
  <2>1. Tail(s)[k] = s[k + 1]
    BY <1>1
  <2>2. s[1] < s[k + 1] /\ s[k + 1] < n
    BY <1>2
  <2>3. QED
    BY <1>1, <2>1, <2>2
<1>5. ASSUME NEW m \in Nat, \A k \in DOMAIN s : m < s[k], NEW k \in DOMAIN Tail(s)
      PROVE  m < Tail(s)[k]
  BY <1>1, <1>2, <1>5
<1>6. Head(s) < n
  BY <1>1, <1>2
<1>7. QED
  BY <1>3, <1>4, <1>5, <1>6

(* Putting a smaller item in front keeps the order and the bound. *)
LEMMA PrependOrdered ==
  ASSUME NEW s \in Seq(Nat), NEW x \in Nat, NEW n \in Nat, x < n,
         \A j, k \in DOMAIN s : j < k => s[j] < s[k],
         \A k \in DOMAIN s : x < s[k] /\ s[k] < n
  PROVE  LET t == <<x>> \o s IN
         /\ \A j, k \in DOMAIN t : j < k => t[j] < t[k]
         /\ \A k \in DOMAIN t : t[k] < n
<1> DEFINE t == <<x>> \o s
<1>1. /\ Len(s) \in Nat /\ t[1] = x
      /\ DOMAIN s = 1 .. Len(s) /\ DOMAIN t = 1 .. Len(s) + 1
      /\ \A k \in 2 .. Len(s) + 1 : t[k] = s[k - 1]
  BY PrependFacts
<1> HIDE DEF t
<1>2. \A k \in DOMAIN t : k \in Nat /\ (k = 1 \/ (k \in 2 .. Len(s) + 1 /\ k - 1 \in DOMAIN s))
  BY <1>1
<1>3. ASSUME NEW j \in DOMAIN t, NEW k \in DOMAIN t, j < k
      PROVE  t[j] < t[k]
  <2>1. k - 1 \in DOMAIN s /\ t[k] = s[k - 1] /\ k \in Nat /\ j \in Nat
    BY <1>1, <1>2, <1>3
  <2>2. CASE j = 1
    BY <1>1, <2>1, <2>2
  <2>3. CASE j # 1
    <3>1. j - 1 \in DOMAIN s /\ t[j] = s[j - 1] /\ j - 1 < k - 1
      BY <1>1, <1>2, <1>3, <2>1, <2>3
    <3>2. QED
      BY <2>1, <3>1
  <2>4. QED
    BY <2>2, <2>3
<1>4. ASSUME NEW k \in DOMAIN t
      PROVE  t[k] < n
  BY <1>1, <1>2
<1>5. QED
  BY <1>3, <1>4 DEF t

(* No action leaves a token too many or too few. *)
LEMMA EventStep ==
  ASSUME TypeOK, QueueInvariant, [Next]_vars
  PROVE  EventPart'
<1> USE QueueAssumption DEF TypeOK, EventPart, QueueInvariant, TokensMatchWaiters,
         LateDownFallsThrough, TokenGivenBySet
<1>1. CASE Enqueue
  BY <1>1 DEF Enqueue, Usable, EventSet, EventUnlocked, consumerVars, ownerVars
<1>2. CASE ConsumerCheck
  BY <1>2 DEF ConsumerCheck, eventVars, queueVars, ownerVars, historyVars
<1>3. CASE ConsumerWait
  <2>1. waiters = 0 /\ sem = 0
    BY <1>3 DEF ConsumerWait
  <2>2. CASE signaled
    BY <1>3, <2>1, <2>2 DEF ConsumerWait
  <2>3. CASE ~signaled
    <3>1. cpc' = "down" /\ waiters' = 1 /\ sem' = 0 /\ signaled' \in BOOLEAN
      BY <1>3, <2>1, <2>3 DEF ConsumerWait
    <3>2. sigChanged' = FALSE
      BY <1>3, <2>3, Zenon DEF ConsumerWait
    <3>3. sigChanged' \in BOOLEAN /\ ~sigChanged'
      BY <3>2, Zenon
    <3>4. QED
      BY <3>1, <3>3
  <2>4. QED
    BY <2>2, <2>3
<1>4. CASE ConsumerDown
  BY <1>4 DEF ConsumerDown, queueVars, ownerVars, historyVars
<1>5. CASE ConsumerTimeout
  BY <1>5 DEF ConsumerTimeout, eventVars, queueVars, ownerVars, historyVars
<1>6. CASE ConsumerRelock
  BY <1>6 DEF ConsumerRelock, queueVars, ownerVars, historyVars
<1>7. CASE ConsumerLateDown
  BY <1>7 DEF ConsumerLateDown, queueVars, ownerVars, historyVars
<1>8. CASE ConsumerDequeue
  BY <1>8 DEF ConsumerDequeue, Dequeue, EventUnlocked, ownerVars, historyVars
<1>9. CASE ConsumerProcess
  BY <1>9 DEF ConsumerProcess, eventVars, queueVars, ownerVars
<1>10. CASE ConsumerRequeue
  <2>1. waiters = 0 /\ sem = 0
    BY <1>10 DEF ConsumerRequeue
  <2>2. waiters' = 0 /\ sem' = 0 /\ signaled' \in BOOLEAN /\ sigChanged' \in BOOLEAN
    BY <1>10, <2>1 DEF ConsumerRequeue, EventSet, eventVars
  <2>3. cpc' = "check"
    BY <1>10 DEF ConsumerRequeue
  <2>4. QED
    BY <2>2, <2>3
<1>11. CASE AppCreateStart
  BY <1>11 DEF AppCreateStart, eventVars, queueVars, consumerVars, historyVars
<1>12. CASE AppCreateDone
  BY <1>12 DEF AppCreateDone, eventVars, queueVars, consumerVars, historyVars
<1>13. CASE AppCreateSignal
  <2>1. CASE Usable
    BY <1>13, <2>1 DEF AppCreateSignal, EventSet, EventUnlocked, consumerVars
  <2>2. CASE ~Usable
    BY <1>13, <2>2 DEF AppCreateSignal, eventVars, consumerVars
  <2>3. QED
    BY <2>1, <2>2
<1>14. CASE StopFlag
  BY <1>14 DEF StopFlag, eventVars, queueVars, consumerVars, historyVars
<1>15. CASE StopSignal
  BY <1>15 DEF StopSignal, EventSet, EventUnlocked, queueVars, consumerVars, historyVars
<1>16. CASE StopJoin
  BY <1>16 DEF StopJoin, eventVars, queueVars, consumerVars, historyVars
<1>17. CASE DestroyItem
  BY <1>17 DEF DestroyItem, Dequeue, EventUnlocked, consumerVars, ownerVars
<1>18. CASE DestroyQueue
  <2>1. waiters = 0 /\ sem = 0
    BY <1>18 DEF DestroyQueue, StopIsOrderly
  <2>2. QED
    BY <1>18, <2>1 DEF DestroyQueue, consumerVars
<1>19. CASE UNCHANGED vars
  BY <1>19 DEF vars, eventVars, queueVars, consumerVars, ownerVars, historyVars
<1> QED
  BY <1>1, <1>2, <1>3, <1>4, <1>5, <1>6, <1>7, <1>8, <1>9, <1>10,
     <1>11, <1>12, <1>13, <1>14, <1>15, <1>16, <1>17, <1>18, <1>19
  DEF Next, ConsumerStep, StopStep

(* No action breaks the order of the list or its count. *)
LEMMA ListStep ==
  ASSUME TypeOK, QueueInvariant, [Next]_vars
  PROVE  ListPart'
<1> USE QueueAssumption DEF TypeOK, Items, ListPart, QueueInvariant, SizeMatchesList,
         HeldItemIsReal, FifoOrder
<1>1. CASE Enqueue
  BY <1>1 DEF Enqueue, Usable, EventSet, EventUnlocked, consumerVars, ownerVars
<1>2. CASE ConsumerCheck
  BY <1>2 DEF ConsumerCheck, eventVars, queueVars, ownerVars, historyVars
<1>3. CASE ConsumerWait
  BY <1>3 DEF ConsumerWait, queueVars, ownerVars, historyVars
<1>4. CASE ConsumerDown
  BY <1>4 DEF ConsumerDown, queueVars, ownerVars, historyVars
<1>5. CASE ConsumerTimeout
  BY <1>5 DEF ConsumerTimeout, eventVars, queueVars, ownerVars, historyVars
<1>6. CASE ConsumerRelock
  BY <1>6 DEF ConsumerRelock, queueVars, ownerVars, historyVars
<1>7. CASE ConsumerLateDown
  BY <1>7 DEF ConsumerLateDown, queueVars, ownerVars, historyVars
<1>8. CASE ConsumerDequeue
  <2>1. CASE list = << >>
    BY <1>8, <2>1 DEF ConsumerDequeue, Dequeue, historyVars
  <2>2. CASE list # << >>
    <3>1. /\ list' = Tail(list) /\ currentSize' = currentSize - 1
          /\ item' = Head(list) /\ cpc' = "process" /\ next' = next
      BY <1>8, <2>2 DEF ConsumerDequeue, Dequeue, historyVars
    <3>2. /\ Len(list) \in Nat /\ Len(list) > 0
          /\ item' = list[1] /\ item' \in Items
          /\ list' \in Seq(Items) /\ Len(list') = Len(list) - 1
          /\ \A k \in 1 .. Len(list) - 1 : list'[k] = list[k + 1]
      BY <2>2, <3>1, TailFacts
    <3>3. list \in Seq(Nat) /\ next \in Nat
      BY Items \subseteq Nat
    <3>4. SizeMatchesList' /\ currentSize' \in 0 .. MaxSize
      BY <3>1, <3>2
    <3>5. /\ \A j, k \in DOMAIN Tail(list) : j < k => Tail(list)[j] < Tail(list)[k]
          /\ \A k \in DOMAIN Tail(list) : Head(list) < Tail(list)[k] /\ Tail(list)[k] < next
          /\ Head(list) < next
      BY <2>2, <3>3, TailOrdered
    <3>6. HeldItemIsReal' /\ FifoOrder'
      <4>1. item' # 0
        BY <3>2
      <4>2. QED
        BY <3>1, <3>5, <4>1
    <3>7. QED
      BY <3>1, <3>2, <3>4, <3>6
  <2>3. QED
    BY <2>1, <2>2
<1>9. CASE ConsumerProcess
  BY <1>9 DEF ConsumerProcess, eventVars, queueVars, ownerVars
<1>10. CASE ConsumerRequeue
  <2>1. CASE UNCHANGED queueVars
    BY <1>10, <2>1 DEF ConsumerRequeue, queueVars
  <2>2. CASE currentSize < MaxSize /\ list' = <<item>> \o list /\ currentSize' = currentSize + 1
    <3>1. item # 0 /\ item \in Items /\ item' = 0 /\ cpc' = "check" /\ next' = next
      BY <1>10 DEF ConsumerRequeue
    <3>2. /\ list' \in Seq(Items) /\ Len(list') = Len(list) + 1
          /\ list'[1] = item
          /\ \A k \in 2 .. Len(list) + 1 : list'[k] = list[k - 1]
      BY <2>2, <3>1, PrependFacts
    <3>3. list \in Seq(Nat) /\ next \in Nat /\ item \in Nat
      BY <3>1
    <3>4. SizeMatchesList' /\ currentSize' \in 0 .. MaxSize
      BY <2>2, <3>2
    <3>5. LET t == <<item>> \o list IN
          /\ \A j, k \in DOMAIN t : j < k => t[j] < t[k]
          /\ \A k \in DOMAIN t : t[k] < next
      BY <3>1, <3>3, PrependOrdered
    <3>6. HeldItemIsReal' /\ FifoOrder'
      <4>1. 0 < next'
        BY <3>1
      <4>2. /\ \A j, k \in DOMAIN list' : j < k => list'[j] < list'[k]
            /\ \A k \in DOMAIN list' : list'[k] < next'
        BY <2>2, <3>1, <3>5
      <4>3. QED
        BY <3>1, <4>1, <4>2
    <3>7. QED
      BY <3>1, <3>2, <3>4, <3>6
  <2>3. QED
    BY <1>10, <2>1, <2>2 DEF ConsumerRequeue
<1>11. CASE AppCreateStart
  BY <1>11 DEF AppCreateStart, eventVars, queueVars, consumerVars, historyVars
<1>12. CASE AppCreateDone
  BY <1>12 DEF AppCreateDone, eventVars, queueVars, consumerVars, historyVars
<1>13. CASE AppCreateSignal
  BY <1>13
  DEF AppCreateSignal, EventSet, EventUnlocked, eventVars, queueVars, consumerVars,
      historyVars
<1>14. CASE StopFlag
  BY <1>14 DEF StopFlag, eventVars, queueVars, consumerVars, historyVars
<1>15. CASE StopSignal
  BY <1>15 DEF StopSignal, EventSet, EventUnlocked, queueVars, consumerVars, historyVars
<1>16. CASE StopJoin
  BY <1>16 DEF StopJoin, eventVars, queueVars, consumerVars, historyVars
<1>17. CASE DestroyItem
  <2>1. /\ list' = Tail(list) /\ currentSize' = currentSize - 1
        /\ item' = item /\ cpc' = cpc /\ next' = next
    BY <1>17 DEF DestroyItem, Dequeue, consumerVars
  <2>2. /\ Len(list) \in Nat /\ Len(list) > 0
        /\ list' \in Seq(Items) /\ Len(list') = Len(list) - 1
        /\ \A k \in 1 .. Len(list) - 1 : list'[k] = list[k + 1]
    BY <1>17, <2>1, TailFacts DEF DestroyItem
  <2>3. list \in Seq(Nat) /\ next \in Nat /\ item \in Nat
    OBVIOUS
  <2>4. SizeMatchesList' /\ currentSize' \in 0 .. MaxSize
    BY <2>1, <2>2
  <2>5. HeldItemIsReal' /\ FifoOrder'
    <3>1. /\ \A j, k \in DOMAIN Tail(list) : j < k => Tail(list)[j] < Tail(list)[k]
          /\ \A k \in DOMAIN Tail(list) : Tail(list)[k] < next
          /\ item # 0 => \A k \in DOMAIN Tail(list) : item < Tail(list)[k]
      BY <1>17, <2>3, TailOrdered DEF DestroyItem
    <3>2. QED
      BY <2>1, <3>1
  <2>6. QED
    BY <2>1, <2>2, <2>4, <2>5
<1>18. CASE DestroyQueue
  BY <1>18 DEF DestroyQueue, EventUnlocked, queueVars, consumerVars, historyVars
<1>19. CASE UNCHANGED vars
  BY <1>19 DEF vars, eventVars, queueVars, consumerVars, ownerVars, historyVars
<1> QED
  BY <1>1, <1>2, <1>3, <1>4, <1>5, <1>6, <1>7, <1>8, <1>9, <1>10,
     <1>11, <1>12, <1>13, <1>14, <1>15, <1>16, <1>17, <1>18, <1>19
  DEF Next, ConsumerStep, StopStep

(* No action loses a wakeup. *)
LEMMA WakeStep ==
  ASSUME TypeOK, QueueInvariant, [Next]_vars
  PROVE  WakePart'
<1> USE QueueAssumption
DEF TypeOK, Items, WakePart, QueueInvariant, SizeMatchesList, TokensMatchWaiters,
         TokenGivenBySet, NoLostWakeup, StopReachesConsumer, StopIsOrderly,
         NoWaitersAtDestroy
<1>1. CASE Enqueue
  BY <1>1 DEF Enqueue, Usable, EventSet, EventUnlocked, consumerVars, ownerVars
<1>2. CASE ConsumerCheck
  BY <1>2 DEF ConsumerCheck, eventVars, queueVars, ownerVars, historyVars
<1>3. CASE ConsumerWait
  BY <1>3 DEF ConsumerWait, queueVars, ownerVars, historyVars
<1>4. CASE ConsumerDown
  BY <1>4 DEF ConsumerDown, queueVars, ownerVars, historyVars
<1>5. CASE ConsumerTimeout
  BY <1>5 DEF ConsumerTimeout, eventVars, queueVars, ownerVars, historyVars
<1>6. CASE ConsumerRelock
  BY <1>6 DEF ConsumerRelock, queueVars, ownerVars, historyVars
<1>7. CASE ConsumerLateDown
  BY <1>7 DEF ConsumerLateDown, queueVars, ownerVars, historyVars
<1>8. CASE ConsumerDequeue
  <2>1. CASE list = << >>
    BY <1>8, <2>1 DEF ConsumerDequeue, Dequeue, EventUnlocked, ownerVars
  <2>2. CASE list # << >>
    <3>1. /\ list' = Tail(list) /\ currentSize' = currentSize - 1
          /\ signaled' = (signaled /\ currentSize' # 0) /\ cpc' = "process"
          /\ UNCHANGED <<waiters, sem, exitFlag, mpc>>
      BY <1>8, <2>2 DEF ConsumerDequeue, Dequeue, ownerVars
    <3>2. list' \in Seq(Items) /\ Len(list') = Len(list) - 1
      BY <2>2, <3>1, TailFacts
    <3>3. list' # << >> => currentSize' # 0
      BY <3>1, <3>2
    <3>4. mpc \notin {"drain", "gone"}
      BY <1>8 DEF ConsumerDequeue
    <3>5. QED
      BY <2>2, <3>1, <3>3, <3>4
  <2>3. QED
    BY <2>1, <2>2
<1>9. CASE ConsumerProcess
  BY <1>9 DEF ConsumerProcess, eventVars, queueVars, ownerVars
<1>10. CASE ConsumerRequeue
  BY <1>10 DEF ConsumerRequeue, EventSet, EventUnlocked, eventVars, queueVars, ownerVars
<1>11. CASE AppCreateStart
  BY <1>11 DEF AppCreateStart, eventVars, queueVars, consumerVars, historyVars
<1>12. CASE AppCreateDone
  BY <1>12 DEF AppCreateDone, eventVars, queueVars, consumerVars, historyVars
<1>13. CASE AppCreateSignal
  BY <1>13
  DEF AppCreateSignal, EventSet, EventUnlocked, eventVars, queueVars, consumerVars,
      historyVars
<1>14. CASE StopFlag
  BY <1>14 DEF StopFlag, eventVars, queueVars, consumerVars, historyVars
<1>15. CASE StopSignal
  BY <1>15 DEF StopSignal, EventSet, EventUnlocked, queueVars, consumerVars, historyVars
<1>16. CASE StopJoin
  BY <1>16 DEF StopJoin, eventVars, queueVars, consumerVars, historyVars
<1>17. CASE DestroyItem
  <2>1. /\ list' = Tail(list) /\ currentSize' = currentSize - 1
        /\ signaled' = (signaled /\ currentSize' # 0)
        /\ UNCHANGED <<waiters, sem, exitFlag, mpc, cpc>> /\ mpc = "drain"
    BY <1>17 DEF DestroyItem, Dequeue, consumerVars, ownerVars
  <2>2. list # << >>
    BY <1>17 DEF DestroyItem
  <2>3. list' \in Seq(Items) /\ Len(list') = Len(list) - 1
    BY <2>1, <2>2, TailFacts
  <2>4. list' # << >> => currentSize' # 0
    BY <2>1, <2>3
  <2>5. QED
    BY <2>1, <2>2, <2>4
<1>18. CASE DestroyQueue
  BY <1>18 DEF DestroyQueue, EventUnlocked, queueVars, consumerVars, historyVars
<1>19. CASE UNCHANGED vars
  BY <1>19 DEF vars, eventVars, queueVars, consumerVars, ownerVars, historyVars
<1> QED
  BY <1>1, <1>2, <1>3, <1>4, <1>5, <1>6, <1>7, <1>8, <1>9, <1>10,
     <1>11, <1>12, <1>13, <1>14, <1>15, <1>16, <1>17, <1>18, <1>19
  DEF Next, ConsumerStep, StopStep

(* No action leaves the control states. *)
LEMMA ControlStep ==
  ASSUME TypeOK, QueueInvariant, [Next]_vars
  PROVE  ControlPart'
<1> USE QueueAssumption DEF TypeOK, Items, ControlPart, QueueInvariant, HeldItemIsReal
<1>1. CASE Enqueue
  BY <1>1 DEF Enqueue, Usable, EventSet, EventUnlocked, consumerVars, ownerVars
<1>2. CASE ConsumerCheck
  BY <1>2 DEF ConsumerCheck, eventVars, queueVars, ownerVars, historyVars
<1>3. CASE ConsumerWait
  BY <1>3 DEF ConsumerWait, queueVars, ownerVars, historyVars
<1>4. CASE ConsumerDown
  BY <1>4 DEF ConsumerDown, queueVars, ownerVars, historyVars
<1>5. CASE ConsumerTimeout
  BY <1>5 DEF ConsumerTimeout, eventVars, queueVars, ownerVars, historyVars
<1>6. CASE ConsumerRelock
  BY <1>6 DEF ConsumerRelock, queueVars, ownerVars, historyVars
<1>7. CASE ConsumerLateDown
  BY <1>7 DEF ConsumerLateDown, queueVars, ownerVars, historyVars
<1>8. CASE ConsumerDequeue
  BY <1>8 DEF ConsumerDequeue, Dequeue, EventUnlocked, ownerVars, historyVars
<1>9. CASE ConsumerProcess
  <2>1. item \in Items
    BY <1>9 DEF ConsumerProcess
  <2>2. served' \subseteq Items
    BY <1>9, <2>1 DEF ConsumerProcess
  <2>3. QED
    BY <1>9, <2>2 DEF ConsumerProcess, ownerVars
<1>10. CASE ConsumerRequeue
  <2>1. item \in Items
    BY <1>10 DEF ConsumerRequeue
  <2>2. lost' \subseteq Items
    BY <1>10, <2>1 DEF ConsumerRequeue
  <2>3. QED
    BY <1>10, <2>2 DEF ConsumerRequeue, ownerVars
<1>11. CASE AppCreateStart
  BY <1>11 DEF AppCreateStart, eventVars, queueVars, consumerVars, historyVars
<1>12. CASE AppCreateDone
  BY <1>12 DEF AppCreateDone, eventVars, queueVars, consumerVars, historyVars
<1>13. CASE AppCreateSignal
  BY <1>13
  DEF AppCreateSignal, EventSet, EventUnlocked, eventVars, queueVars, consumerVars,
      historyVars
<1>14. CASE StopFlag
  BY <1>14 DEF StopFlag, eventVars, queueVars, consumerVars, historyVars
<1>15. CASE StopSignal
  BY <1>15 DEF StopSignal, EventSet, EventUnlocked, queueVars, consumerVars, historyVars
<1>16. CASE StopJoin
  BY <1>16 DEF StopJoin, eventVars, queueVars, consumerVars, historyVars
<1>17. CASE DestroyItem
  <2>1. Head(list) \in Items
    BY <1>17, TailFacts DEF DestroyItem
  <2>2. destroyed' \subseteq Items
    BY <1>17, <2>1 DEF DestroyItem
  <2>3. QED
    BY <1>17, <2>2 DEF DestroyItem, consumerVars, ownerVars
<1>18. CASE DestroyQueue
  BY <1>18 DEF DestroyQueue, EventUnlocked, queueVars, consumerVars, historyVars
<1>19. CASE UNCHANGED vars
  BY <1>19 DEF vars, eventVars, queueVars, consumerVars, ownerVars, historyVars
<1> QED
  BY <1>1, <1>2, <1>3, <1>4, <1>5, <1>6, <1>7, <1>8, <1>9, <1>10,
     <1>11, <1>12, <1>13, <1>14, <1>15, <1>16, <1>17, <1>18, <1>19
  DEF Next, ConsumerStep, StopStep

(* TypeOK and QueueInvariant are inductive. *)
LEMMA InvariantInductive == Spec => [](TypeOK /\ QueueInvariant)
<1>1. Init => TypeOK /\ QueueInvariant
  <2>1. SUFFICES ASSUME Init PROVE EventPart /\ ListPart /\ WakePart /\ ControlPart
    BY DEF TypeOK, QueueInvariant, EventPart, ListPart, WakePart, ControlPart
  <2>2. EventPart
    <3>1. /\ signaled \in BOOLEAN /\ waiters = 0 /\ sem = 0 /\ sigChanged \in BOOLEAN
          /\ cpc = "check"
      BY <2>1 DEF Init
    <3>2. QED
      BY <3>1 DEF EventPart, TokensMatchWaiters, LateDownFallsThrough, TokenGivenBySet
  <2>3. ListPart
    <3>1. list = << >> /\ Len(list) = 0 /\ DOMAIN list = {} /\ list \in Seq(Items)
      BY <2>1 DEF Init
    <3>2. QED
      BY <2>1, <3>1, QueueAssumption
      DEF Init, ListPart, SizeMatchesList, HeldItemIsReal, FifoOrder
  <2>4. WakePart
    BY <2>1 DEF Init, WakePart, NoLostWakeup, StopReachesConsumer, StopIsOrderly,
                NoWaitersAtDestroy
  <2>5. ControlPart
    BY <2>1, QueueAssumption DEF Init, ControlPart
  <2>6. QED
    BY <2>2, <2>3, <2>4, <2>5
<1>2. TypeOK /\ QueueInvariant /\ [Next]_vars => (TypeOK /\ QueueInvariant)'
  <2>1. SUFFICES ASSUME TypeOK, QueueInvariant, [Next]_vars
                 PROVE  (TypeOK /\ QueueInvariant)'
    OBVIOUS
  <2>2. EventPart' /\ ListPart' /\ WakePart' /\ ControlPart'
    BY <2>1, EventStep, ListStep, WakeStep, ControlStep
  <2>3. QED
    BY <2>2 DEF TypeOK, QueueInvariant, EventPart, ListPart, WakePart, ControlPart
<1>3. QED
  BY <1>1, <1>2, PTL DEF Spec

(* The types hold: the semaphore never has two tokens and the queue never   *)
(* more than max_size items.                                                *)
THEOREM QueueTypeCorrect == Spec => []TypeOK
  BY InvariantInductive, PTL

(* The invariant of queue, event and threads holds in every reachable state. *)
THEOREM QueueInvariantHolds == Spec => []QueueInvariant
  BY InvariantInductive, PTL

(* esif_ccb_event_try_wait keeps waiters and tokens in step when a timeout  *)
(* races with a set, and its second wait, under the lock, never blocks.     *)
THEOREM TimedWaitSound == Spec => [](TokensMatchWaiters /\ LateDownFallsThrough)
<1>1. QueueInvariant => TokensMatchWaiters /\ LateDownFallsThrough
  BY DEF QueueInvariant
<1>2. QED
  BY <1>1, InvariantInductive, PTL

(* The consumer never sleeps on a queue with items without a token on its   *)
(* way, although esif_queue_dequeue resets the event.                       *)
THEOREM WakeupsNotLost == Spec => []NoLostWakeup
<1>1. QueueInvariant => NoLostWakeup
  BY DEF QueueInvariant
<1>2. QED
  BY <1>1, InvariantInductive, PTL

(* Stopping the thread: the signal reaches it, and the queue is destroyed   *)
(* only when it has left the event.                                         *)
THEOREM StopSound == Spec => [](StopReachesConsumer /\ NoWaitersAtDestroy)
<1>1. QueueInvariant => StopReachesConsumer /\ NoWaitersAtDestroy
  BY DEF QueueInvariant
<1>2. QED
  BY <1>1, InvariantInductive, PTL

(* First in, first out, across requeues; and current_size is the length. *)
THEOREM QueueIsFifo == Spec => [](FifoOrder /\ SizeMatchesList)
<1>1. QueueInvariant => FifoOrder /\ SizeMatchesList
  BY DEF QueueInvariant
<1>2. QED
  BY <1>1, InvariantInductive, PTL

(* Sequences: what the abstract queue sees of the held item and the list. *)
LEMMA PrependAppend ==
  ASSUME NEW S, NEW x \in S, NEW y \in S, NEW s \in Seq(S)
  PROVE  <<x>> \o Append(s, y) = Append(<<x>> \o s, y)
  OBVIOUS

LEMMA PrependHeadTail ==
  ASSUME NEW S, NEW x \in S, NEW s \in Seq(S)
  PROVE  /\ <<x>> \o s # << >>
         /\ Head(<<x>> \o s) = x /\ Tail(<<x>> \o s) = s
         /\ Len(<<x>> \o s) = Len(s) + 1
         /\ s # << >> => <<Head(s)>> \o Tail(s) = s
  OBVIOUS

(* Every step of the queue is a step of the abstract queue or none. *)
LEMMA FifoStep ==
  ASSUME TypeOK, QueueInvariant, [Next]_vars
  PROVE  [Fifo!Next]_(Fifo!vars)
<1> USE QueueAssumption DEF Fifo!Next, Fifo!vars
<1>0. /\ list \in Seq(Items) /\ item \in Items \cup {0} /\ 0 \notin Items
      /\ Len(list) \in Nat /\ Len(list) <= MaxSize /\ currentSize = Len(list)
      /\ cpc \in {"process", "requeue"} <=> item # 0
  BY DEF TypeOK, QueueInvariant, SizeMatchesList, HeldItemIsReal, Items
<1>a. ASSUME UNCHANGED <<next, list, item, served, lost, destroyed>>
      PROVE  UNCHANGED (Fifo!vars)
  BY <1>a DEF Pending
<1>1. CASE Enqueue
  <2>1. /\ next <= MaxItems /\ next \in Items /\ currentSize < MaxSize
        /\ list' = Append(list, next) /\ next' = next + 1
        /\ UNCHANGED <<item, served, lost, destroyed>>
    BY <1>1 DEF Enqueue, consumerVars, TypeOK, Items
  <2>2. Pending' = Append(Pending, next)
    BY <1>0, <2>1, PrependAppend DEF Pending
  <2>3. Len(Pending) < MaxSize + 1
    BY <1>0, <2>1, PrependHeadTail DEF Pending
  <2>4. QED
    BY <2>1, <2>2, <2>3 DEF Fifo!Submit
<1>2. CASE ConsumerDequeue
  <2>1. item = 0 /\ UNCHANGED <<next, served, lost, destroyed>>
    BY <1>0, <1>2 DEF ConsumerDequeue, historyVars
  <2>2. CASE list = << >>
    <3>1. list' = list /\ item' = 0
      BY <1>2, <2>2 DEF ConsumerDequeue, Dequeue
    <3>2. QED
      BY <1>a, <2>1, <3>1
  <2>3. CASE list # << >>
    <3>1. list' = Tail(list) /\ item' = Head(list) /\ item' # 0
      BY <1>0, <1>2, <2>3, TailFacts DEF ConsumerDequeue, Dequeue
    <3>2. Pending' = Pending
      BY <1>0, <2>1, <2>3, <3>1, TailFacts, PrependHeadTail DEF Pending
    <3>3. QED
      BY <2>1, <3>2
  <2>4. QED
    BY <2>2, <2>3
<1>3. CASE ConsumerProcess
  <2>1. item \in Items /\ item # 0 /\ UNCHANGED <<next, list, lost, destroyed>>
    BY <1>0, <1>3 DEF ConsumerProcess, queueVars
  <2>2. CASE creator = "creating"
    BY <1>a, <1>3, <2>1, <2>2 DEF ConsumerProcess
  <2>3. CASE creator # "creating"
    <3>1. item' = 0 /\ served' = served \cup {item}
      BY <1>3, <2>3 DEF ConsumerProcess
    <3>2. Pending # << >> /\ Head(Pending) = item /\ Pending' = Tail(Pending)
      BY <1>0, <2>1, <3>1, PrependHeadTail DEF Pending
    <3>3. QED
      BY <2>1, <3>1, <3>2 DEF Fifo!Deliver
  <2>4. QED
    BY <2>2, <2>3
<1>4. CASE ConsumerRequeue
  <2>1. item \in Items /\ item # 0 /\ item' = 0 /\ UNCHANGED <<next, served, destroyed>>
    BY <1>0, <1>4 DEF ConsumerRequeue
  <2>2. CASE list' = <<item>> \o list /\ lost' = lost
    <3>1. Pending' = Pending
      BY <2>1, <2>2 DEF Pending
    <3>2. QED
      BY <2>1, <2>2, <3>1
  <2>3. CASE lost' = lost \cup {item} /\ list' = list
    <3>1. Pending # << >> /\ Head(Pending) = item /\ Pending' = Tail(Pending)
      BY <1>0, <2>1, <2>3, PrependHeadTail DEF Pending
    <3>2. (lost \cup destroyed)' = (lost \cup destroyed) \cup {Head(Pending)}
      BY <2>1, <2>3, <3>1
    <3>3. QED
      BY <2>1, <3>1, <3>2 DEF Fifo!Discard
  <2>4. QED
    BY <1>4, <2>2, <2>3 DEF ConsumerRequeue, queueVars
<1>5. CASE DestroyItem
  <2>1. /\ item = 0 /\ list # << >> /\ list' = Tail(list)
        /\ destroyed' = destroyed \cup {Head(list)} /\ UNCHANGED <<item, next, served, lost>>
    BY <1>0, <1>5 DEF DestroyItem, Dequeue, consumerVars, QueueInvariant, StopIsOrderly
  <2>2. Pending = list /\ Pending' = Tail(Pending)
    BY <2>1 DEF Pending
  <2>3. QED
    BY <2>1, <2>2 DEF Fifo!Discard
<1>6. CASE \/ ConsumerCheck \/ ConsumerWait \/ ConsumerDown \/ ConsumerTimeout
           \/ ConsumerRelock \/ ConsumerLateDown
  BY <1>a, <1>6 DEF ConsumerCheck, ConsumerWait, ConsumerDown, ConsumerTimeout,
                    ConsumerRelock, ConsumerLateDown, queueVars, historyVars
<1>7. CASE \/ AppCreateStart \/ AppCreateDone \/ AppCreateSignal \/ StopFlag
           \/ StopSignal \/ StopJoin \/ DestroyQueue
  BY <1>a, <1>7 DEF AppCreateStart, AppCreateDone, AppCreateSignal, StopFlag, StopSignal,
                    StopJoin, DestroyQueue, queueVars, consumerVars, historyVars
<1>8. CASE UNCHANGED vars
  BY <1>a, <1>8 DEF vars, queueVars, consumerVars, historyVars
<1> QED
  BY <1>1, <1>2, <1>3, <1>4, <1>5, <1>6, <1>7, <1>8 DEF Next, ConsumerStep, StopStep

(* esif_queue.c with its consumer, its timeouts, its requeues and its stop  *)
(* implements the bounded first-in first-out queue of BoundedFifo.          *)
THEOREM QueueImplementsFifo == Spec => ImplementsFifo
<1>1. Init => Fifo!Init
  BY DEF Init, Fifo!Init, Pending
<1>2. TypeOK /\ QueueInvariant /\ [Next]_vars => [Fifo!Next]_(Fifo!vars)
  BY FifoStep
<1>3. QED
  BY <1>1, <1>2, InvariantInductive, PTL DEF Spec, ImplementsFifo, Fifo!Spec
====
