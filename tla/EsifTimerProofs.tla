---- MODULE EsifTimerProofs ----
(***************************************************************************)
(* Machine-checked proofs about EsifTimer, for any sets of timers, client  *)
(* threads and workers and any bounds.  TimerInvariant is inductive: each  *)
(* action has a lemma showing that it preserves it, with one step for each *)
(* conjunct the action can disturb.  The properties the callers rely on    *)
(* follow from it.                                                         *)
(***************************************************************************)
EXTENDS EsifTimer, TLAPS

(* The handles tried by esif_ccb_tmrm_get_next_handle are u32 values. *)
LEMMA CandidateIsHandle ==
  ASSUME TypeOK, NEW k \in Nat
  PROVE  Candidate(k) \in Handles
<1>1. nextHandle + k \in Nat
  BY ConstantsAssumption DEF TypeOK, Handles
<1>2. QED
  BY <1>1, ConstantsAssumption DEF Candidate, Handles

(* Freeing a node keeps the types of what it writes. *)
LEMMA DestroyNodeTypes ==
  ASSUME TypeOK, NEW i \in Items, NEW wake, DestroyNode(i, wake)
  PROVE  /\ status' \in [Items -> {"unborn", "created", "listed", "freed"}]
         /\ destroyList' \in [Items -> SUBSET Threads]
         /\ armed' \in [Items -> 0 .. MaxSets]
         /\ eventSet' \in [Threads -> BOOLEAN]
<1>1. eventSet' \in [Threads -> BOOLEAN]
  BY Zenon DEF DestroyNode
<1>2. QED
  BY <1>1, ConstantsAssumption DEF DestroyNode, TypeOK

(* So does marking a timer for deletion, with or without a waiter. *)
LEMMA KillFoundTypes ==
  ASSUME TypeOK, NEW i \in Items, NEW waiter \in SUBSET Threads,
         KillFound(i, waiter)
  PROVE  /\ marked' \in [Items -> BOOLEAN]
         /\ status' \in [Items -> {"unborn", "created", "listed", "freed"}]
         /\ destroyList' \in [Items -> SUBSET Threads]
         /\ armed' \in [Items -> 0 .. MaxSets]
         /\ eventSet' \in [Threads -> BOOLEAN]
<1>1. marked' \in [Items -> BOOLEAN]
  BY DEF KillFound, TypeOK
<1>2. CASE inCb[i]
  BY <1>1, <1>2 DEF KillFound, TypeOK
<1>3. CASE ~inCb[i]
  <2>1. DestroyNode(i, destroyList[i] \cup waiter)
    BY <1>3 DEF KillFound
  <2>2. QED
    BY <1>1, <2>1, DestroyNodeTypes
<1>4. QED
  BY <1>2, <1>3

(* A kill_w_wait call has the right types whoever makes it. *)
LEMMA KillWaitCallTypes ==
  ASSUME TypeOK, NEW t \in Threads, NEW h \in Handles, KillWaitCall(t, h)
  PROVE  /\ marked' \in [Items -> BOOLEAN]
         /\ status' \in [Items -> {"unborn", "created", "listed", "freed"}]
         /\ destroyList' \in [Items -> SUBSET Threads]
         /\ armed' \in [Items -> 0 .. MaxSets]
         /\ eventSet' \in [Threads -> BOOLEAN]
         /\ opItem' \in [Threads -> Items \cup {None}]
<1>1. CASE \E i \in FindByHandle(h) :
             KillFound(i, {t}) /\ opItem' = [opItem EXCEPT ![t] = i]
  <2>1. PICK i \in FindByHandle(h) :
             KillFound(i, {t}) /\ opItem' = [opItem EXCEPT ![t] = i]
    BY <1>1
  <2>2. i \in Items /\ {t} \in SUBSET Threads
    BY DEF FindByHandle, Listed
  <2>3. opItem' \in [Threads -> Items \cup {None}]
    BY <2>1, <2>2 DEF TypeOK
  <2>4. QED
    BY <2>1, <2>2, <2>3, KillFoundTypes
<1>2. CASE /\ eventSet' = [eventSet EXCEPT ![t] = TRUE]
           /\ UNCHANGED <<opItem, marked, status, destroyList, armed>>
  BY <1>2 DEF TypeOK
<1>3. QED
  BY <1>1, <1>2, Zenon DEF KillWaitCall

(* The initial state satisfies the invariant. *)
LEMMA InitInvariant ==
  ASSUME Init
  PROVE  TypeOK /\ TimerInvariant
<1>1. TypeOK
  <2>1. 0 \in 0 .. MaxSets /\ 0 \in Handles
    BY ConstantsAssumption DEF Handles
  <2>2. /\ inCb \in [Items -> BOOLEAN] /\ marked \in [Items -> BOOLEAN]
        /\ setIsPending \in [Items -> BOOLEAN]
        /\ armFailed \in [Items -> BOOLEAN]
        /\ eventSet \in [Threads -> BOOLEAN]
    BY Zenon DEF Init
  <2>3. /\ handle \in [Items -> Handles]
        /\ cbHandle \in [Items -> 0 .. MaxSets]
        /\ objCb \in [Items -> 0 .. MaxSets]
        /\ armed \in [Items -> 0 .. MaxSets]
    BY <2>1 DEF Init
  <2>4. QED
    BY <2>1, <2>2, <2>3 DEF Init, TypeOK
<1>2. TimerInvariant
  BY ConstantsAssumption
  DEF Init, TimerInvariant, Listed, Threads, OneCallbackPerTimer,
      CallbackItemLive, UnlistedIsBlank, InCbMeansWorker, CbHandlesFresh,
      ArmedForLatestSet, PendingOnlyInCallback, IdleCallsClean,
      InitCallsCarryItem, WaitCallsOnList, ExiterCalls, DestroyListValid,
      LiveHandlesUnique, SetIsNotLost
<1>3. QED
  BY <1>1, <1>2

----------------------------------------------------------------------------
(* Initialising the manager touches no timer. *)
LEMMA TmrmInitStep ==
  ASSUME TypeOK, TimerInvariant, TmrmInit
  PROVE  TypeOK' /\ TimerInvariant'
<1> USE ConstantsAssumption
    DEF TypeOK, TimerInvariant, mgrVars, itemVars, objVars, threadVars,
        exitVars, Threads, Listed, TmrmInit
<1>1. TypeOK'
  BY DEF Handles
<1>2. /\ OneCallbackPerTimer'
      /\ CallbackItemLive'
      /\ UnlistedIsBlank'
      /\ InCbMeansWorker'
      /\ CbHandlesFresh'
      /\ ArmedForLatestSet'
      /\ PendingOnlyInCallback'
      /\ IdleCallsClean'
      /\ InitCallsCarryItem'
      /\ WaitCallsOnList'
      /\ ExiterCalls'
      /\ DestroyListValid'
      /\ LiveHandlesUnique'
      /\ SetIsNotLost'
  BY DEF OneCallbackPerTimer, CallbackItemLive, UnlistedIsBlank,
         InCbMeansWorker, CbHandlesFresh, ArmedForLatestSet,
         PendingOnlyInCallback, IdleCallsClean, InitCallsCarryItem,
         WaitCallsOnList, ExiterCalls, DestroyListValid, LiveHandlesUnique,
         SetIsNotLost
<1>3. QED
  BY <1>1, <1>2

(* A new item is blank, and its handle differs from every live one and from
   those carried by other inits. *)
LEMMA TimerInitGetHandleStep ==
  ASSUME TypeOK, TimerInvariant, NEW t \in Callers, NEW i \in Items,
         TimerInitGetHandle(t, i)
  PROVE  TypeOK' /\ TimerInvariant'
<1> USE ConstantsAssumption
    DEF TypeOK, TimerInvariant, mgrVars, itemVars, objVars, threadVars,
        exitVars, Threads, Listed, TimerInitGetHandle, MayCall, Callers,
        Candidate, HandleInUse, FindByHandle
<1>1. TypeOK'
  <2> HIDE DEF Candidate, HandleInUse
  <2>1. \A k \in 1 .. HandleRetries : Candidate(k) \in Handles
    BY CandidateIsHandle
  <2>2. Candidate(HandleRetries) \in Handles
    BY CandidateIsHandle
  <2>3. QED
    BY <2>1, <2>2
<1>2. /\ OneCallbackPerTimer'
      /\ InCbMeansWorker'
      /\ CbHandlesFresh'
  BY DEF OneCallbackPerTimer, InCbMeansWorker, CbHandlesFresh
<1>3. CallbackItemLive'
  BY DEF CallbackItemLive
<1>4. UnlistedIsBlank'
  BY DEF UnlistedIsBlank
<1>5. ArmedForLatestSet'
  BY DEF ArmedForLatestSet
<1>6. PendingOnlyInCallback'
  BY DEF PendingOnlyInCallback
<1>7. IdleCallsClean'
  BY DEF IdleCallsClean
<1>8. InitCallsCarryItem'
  <2>1. CASE /\ status' = [status EXCEPT ![i] = "created"]
             /\ op' = [op EXCEPT ![t] = "init"]
             /\ opItem' = [opItem EXCEPT ![t] = i]
    <3>1. op'[t] = "init" /\ opItem'[t] = i /\ ~eventSet'[t]
      BY <2>1 DEF IdleCallsClean
    <3>2. \A u \in Threads : u # t => op'[u] = op[u] /\ opItem'[u] = opItem[u]
      BY <2>1
    <3>3. \A j \in Items : j # i => status'[j] = status[j]
      BY <2>1
    <3>4. status'[i] = "created"
      BY <2>1
    <3>5. \A u \in Threads : op[u] = "init" => u # t /\ opItem[u] # i
      BY DEF InitCallsCarryItem
    <3>6. \A j \in Items : status'[j] = "created" =>
            \E u \in Threads : op'[u] = "init" /\ opItem'[u] = j
      BY <3>1, <3>2, <3>3, <3>5 DEF InitCallsCarryItem
    <3>7. QED
      BY <3>1, <3>2, <3>3, <3>4, <3>5, <3>6 DEF InitCallsCarryItem
  <2>2. CASE status' = [status EXCEPT ![i] = "freed"] /\ UNCHANGED <<op, opItem>>
    BY <2>2 DEF InitCallsCarryItem
  <2>3. QED
    BY <2>1, <2>2
<1>9. WaitCallsOnList'
  BY DEF WaitCallsOnList, IdleCallsClean
<1>10. ExiterCalls'
  BY DEF ExiterCalls
<1>11. DestroyListValid'
  BY DEF DestroyListValid
<1>12. LiveHandlesUnique'
  BY DEF LiveHandlesUnique, InitCallsCarryItem
<1>13. SetIsNotLost'
  BY DEF SetIsNotLost
<1>14. QED
  BY <1>1, <1>2, <1>3, <1>4, <1>5, <1>6, <1>7, <1>8, <1>9, <1>10, <1>11,
     <1>12, <1>13

(* The item carried by the init reaches the list blank, or is freed. *)
LEMMA TimerInitAddStep ==
  ASSUME TypeOK, TimerInvariant, NEW t \in Callers, TimerInitAdd(t)
  PROVE  TypeOK' /\ TimerInvariant'
<1> USE ConstantsAssumption
    DEF TypeOK, TimerInvariant, mgrVars, itemVars, objVars, threadVars,
        exitVars, Threads, Listed, TimerInitAdd, Callers
<1>1. TypeOK'
  BY DEF Handles, InitCallsCarryItem
<1>2. /\ OneCallbackPerTimer'
      /\ InCbMeansWorker'
      /\ CbHandlesFresh'
  BY DEF OneCallbackPerTimer, InCbMeansWorker, CbHandlesFresh
<1>3. CallbackItemLive'
  BY DEF CallbackItemLive, InitCallsCarryItem
<1>4. UnlistedIsBlank'
  BY DEF UnlistedIsBlank, InitCallsCarryItem
<1>5. ArmedForLatestSet'
  BY DEF ArmedForLatestSet, InitCallsCarryItem
<1>6. PendingOnlyInCallback'
  BY DEF PendingOnlyInCallback, InitCallsCarryItem, UnlistedIsBlank
<1>7. IdleCallsClean'
  BY DEF IdleCallsClean, InitCallsCarryItem
<1>8. InitCallsCarryItem'
  BY DEF InitCallsCarryItem
<1>9. WaitCallsOnList'
  BY DEF WaitCallsOnList, InitCallsCarryItem
<1>10. ExiterCalls'
  BY DEF ExiterCalls
<1>11. DestroyListValid'
  BY DEF DestroyListValid
<1>12. LiveHandlesUnique'
  BY DEF LiveHandlesUnique, InitCallsCarryItem
<1>13. SetIsNotLost'
  BY DEF SetIsNotLost, InitCallsCarryItem, UnlistedIsBlank
<1>14. QED
  BY <1>1, <1>2, <1>3, <1>4, <1>5, <1>6, <1>7, <1>8, <1>9, <1>10, <1>11,
     <1>12, <1>13

(* A kill frees the timer, or marks it when a worker is in its callback. *)
LEMMA TimerKillStep ==
  ASSUME TypeOK, TimerInvariant, NEW t \in Callers, NEW h \in Handles,
         TimerKill(t, h)
  PROVE  TypeOK' /\ TimerInvariant'
<1> USE ConstantsAssumption
    DEF TypeOK, TimerInvariant, mgrVars, itemVars, objVars, threadVars,
        exitVars, Threads, Listed, TimerKill, MayCall, Callers, FindByHandle,
        KillFound, DestroyNode
<1>1. TypeOK'
  <2>1. PICK i \in FindByHandle(h) : KillFound(i, {})
    BY DEF TimerKill
  <2>2. i \in Items /\ {} \in SUBSET Threads
    OBVIOUS
  <2> HIDE DEF KillFound, FindByHandle
  <2>3. QED
    BY <2>1, <2>2, KillFoundTypes
<1>2. /\ OneCallbackPerTimer'
      /\ InCbMeansWorker'
      /\ CbHandlesFresh'
      /\ ExiterCalls'
  BY DEF OneCallbackPerTimer, InCbMeansWorker, CbHandlesFresh, ExiterCalls
<1>3. CallbackItemLive'
  BY DEF CallbackItemLive, InCbMeansWorker
<1>4. UnlistedIsBlank'
  BY DEF UnlistedIsBlank
<1>5. ArmedForLatestSet'
  BY DEF ArmedForLatestSet
<1>6. PendingOnlyInCallback'
  BY DEF PendingOnlyInCallback
<1>7. IdleCallsClean'
  BY DEF IdleCallsClean, DestroyListValid
<1>8. InitCallsCarryItem'
  BY DEF InitCallsCarryItem, DestroyListValid
<1>9. WaitCallsOnList'
  BY DEF WaitCallsOnList, DestroyListValid
<1>10. DestroyListValid'
  BY DEF DestroyListValid
<1>11. LiveHandlesUnique'
  BY DEF LiveHandlesUnique
<1>12. SetIsNotLost'
  BY DEF SetIsNotLost
<1>13. QED
  BY <1>1, <1>2, <1>3, <1>4, <1>5, <1>6, <1>7, <1>8, <1>9, <1>10, <1>11, <1>12

(* A kill_w_wait does the same and either is signalled at once or joins the
   destroy list. *)
LEMMA TimerKillWaitStep ==
  ASSUME TypeOK, TimerInvariant, NEW t \in Callers, NEW h \in Handles,
         TimerKillWait(t, h)
  PROVE  TypeOK' /\ TimerInvariant'
<1> USE ConstantsAssumption
    DEF TypeOK, TimerInvariant, mgrVars, itemVars, objVars, threadVars,
        exitVars, Threads, Listed, TimerKillWait, MayCall, Callers,
        FindByHandle, KillWaitCall, KillFound, DestroyNode
<1>1. TypeOK'
  <2> HIDE DEF KillFound, FindByHandle
  <2>1. t \in Threads /\ op' \in [Threads -> {"none", "init", "kill_w_wait"}]
    OBVIOUS
  <2>2. QED
    BY <2>1, KillWaitCallTypes
<1>2. /\ OneCallbackPerTimer'
      /\ InCbMeansWorker'
      /\ CbHandlesFresh'
  BY DEF OneCallbackPerTimer, InCbMeansWorker, CbHandlesFresh
<1>3. CallbackItemLive'
  BY DEF CallbackItemLive, InCbMeansWorker
<1>4. UnlistedIsBlank'
  BY DEF UnlistedIsBlank
<1>5. ArmedForLatestSet'
  BY DEF ArmedForLatestSet
<1>6. PendingOnlyInCallback'
  BY DEF PendingOnlyInCallback
<1>7. IdleCallsClean'
  BY DEF IdleCallsClean, DestroyListValid
<1>8. InitCallsCarryItem'
  BY DEF InitCallsCarryItem, DestroyListValid
<1>9. WaitCallsOnList'
  BY DEF WaitCallsOnList, DestroyListValid, IdleCallsClean
<1>10. ExiterCalls'
  BY DEF ExiterCalls
<1>11. DestroyListValid'
  <2>1. CASE \E i \in Listed : /\ inCb[i] /\ KillFound(i, {t})
                             /\ opItem' = [opItem EXCEPT ![t] = i]
    BY <2>1 DEF DestroyListValid, IdleCallsClean
  <2>2. CASE \E i \in Listed : /\ ~inCb[i] /\ KillFound(i, {t})
                             /\ opItem' = [opItem EXCEPT ![t] = i]
    BY <2>2 DEF DestroyListValid, IdleCallsClean
  <2>3. CASE /\ eventSet' = [eventSet EXCEPT ![t] = TRUE]
             /\ UNCHANGED <<opItem, marked, status, destroyList, armed>>
    BY <2>3 DEF DestroyListValid, IdleCallsClean
  <2>4. QED
    BY <2>1, <2>2, <2>3
<1>12. LiveHandlesUnique'
  BY DEF LiveHandlesUnique
<1>13. SetIsNotLost'
  BY DEF SetIsNotLost
<1>14. QED
  BY <1>1, <1>2, <1>3, <1>4, <1>5, <1>6, <1>7, <1>8, <1>9, <1>10, <1>11,
     <1>12, <1>13

(* A call that returns was on no destroy list any more. *)
LEMMA TimerKillWaitReturnStep ==
  ASSUME TypeOK, TimerInvariant, NEW t \in Callers, TimerKillWaitReturn(t)
  PROVE  TypeOK' /\ TimerInvariant'
<1> USE ConstantsAssumption
    DEF TypeOK, TimerInvariant, mgrVars, itemVars, objVars, threadVars,
        exitVars, Threads, Listed, TimerKillWaitReturn, Callers,
        KillWaitReturn
<1>1. TypeOK'
  BY DEF Handles
<1>2. /\ OneCallbackPerTimer'
      /\ CallbackItemLive'
      /\ UnlistedIsBlank'
      /\ InCbMeansWorker'
      /\ CbHandlesFresh'
      /\ ArmedForLatestSet'
      /\ PendingOnlyInCallback'
      /\ LiveHandlesUnique'
      /\ SetIsNotLost'
  BY DEF OneCallbackPerTimer, CallbackItemLive, UnlistedIsBlank,
         InCbMeansWorker, CbHandlesFresh, ArmedForLatestSet,
         PendingOnlyInCallback, LiveHandlesUnique, SetIsNotLost
<1>3. IdleCallsClean'
  BY DEF IdleCallsClean
<1>4. InitCallsCarryItem'
  BY DEF InitCallsCarryItem
<1>5. WaitCallsOnList'
  BY DEF WaitCallsOnList
<1>6. ExiterCalls'
  BY DEF ExiterCalls
<1>7. DestroyListValid'
  BY DEF DestroyListValid
<1>8. QED
  BY <1>1, <1>2, <1>3, <1>4, <1>5, <1>6, <1>7

(* A set takes a callback handle that no timer, OS timer or signal carries. *)
LEMMA TimerSetStep ==
  ASSUME TypeOK, TimerInvariant, NEW t \in Callers, NEW h \in Handles,
         TimerSet(t, h)
  PROVE  TypeOK' /\ TimerInvariant'
<1> USE ConstantsAssumption
    DEF TypeOK, TimerInvariant, mgrVars, itemVars, objVars, threadVars,
        exitVars, Threads, Listed, TimerSet, MayCall, Callers, FindByHandle,
        EnableTimer
<1>1. TypeOK'
  BY DEF Handles
<1>2. /\ OneCallbackPerTimer'
      /\ CallbackItemLive'
      /\ InCbMeansWorker'
      /\ IdleCallsClean'
      /\ InitCallsCarryItem'
      /\ WaitCallsOnList'
      /\ ExiterCalls'
      /\ DestroyListValid'
      /\ LiveHandlesUnique'
  BY DEF OneCallbackPerTimer, CallbackItemLive, InCbMeansWorker,
         IdleCallsClean, InitCallsCarryItem, WaitCallsOnList, ExiterCalls,
         DestroyListValid, LiveHandlesUnique
<1>3. UnlistedIsBlank'
  BY DEF UnlistedIsBlank
<1>4. CbHandlesFresh'
  BY DEF CbHandlesFresh
<1>5. ArmedForLatestSet'
  BY DEF ArmedForLatestSet, CbHandlesFresh
<1>6. PendingOnlyInCallback'
  BY DEF PendingOnlyInCallback, CbHandlesFresh
<1>7. SetIsNotLost'
  BY DEF SetIsNotLost
<1>8. QED
  BY <1>1, <1>2, <1>3, <1>4, <1>5, <1>6, <1>7

(* An expiry turns the armed OS timer of the latest set into a signal. *)
LEMMA ExpireStep ==
  ASSUME TypeOK, TimerInvariant, NEW i \in Items, Expire(i)
  PROVE  TypeOK' /\ TimerInvariant'
<1> USE ConstantsAssumption
    DEF TypeOK, TimerInvariant, mgrVars, itemVars, objVars, threadVars,
        exitVars, Threads, Listed, Expire
<1>1. TypeOK'
  <2>1. armed[i] \in 1 .. MaxSets
    OBVIOUS
  <2>2. signals' \in SUBSET (1 .. MaxSets)
    BY <2>1
  <2>3. armed' \in [Items -> 0 .. MaxSets]
    OBVIOUS
  <2>4. QED
    BY <2>2, <2>3
<1>2. /\ OneCallbackPerTimer'
      /\ CallbackItemLive'
      /\ UnlistedIsBlank'
      /\ InCbMeansWorker'
      /\ IdleCallsClean'
      /\ InitCallsCarryItem'
      /\ WaitCallsOnList'
      /\ ExiterCalls'
      /\ DestroyListValid'
      /\ LiveHandlesUnique'
  BY DEF OneCallbackPerTimer, CallbackItemLive, UnlistedIsBlank,
         InCbMeansWorker, IdleCallsClean, InitCallsCarryItem, WaitCallsOnList,
         ExiterCalls, DestroyListValid, LiveHandlesUnique
<1>3. CbHandlesFresh'
  BY DEF CbHandlesFresh, ArmedForLatestSet
<1>4. ArmedForLatestSet'
  BY DEF ArmedForLatestSet, CbHandlesFresh
<1>5. PendingOnlyInCallback'
  BY DEF PendingOnlyInCallback, ArmedForLatestSet, CbHandlesFresh
<1>6. SetIsNotLost'
  BY DEF SetIsNotLost
<1>7. QED
  BY <1>1, <1>2, <1>3, <1>4, <1>5, <1>6

(* The timer a signal is matched with is in nobody's callback. *)
LEMMA CallbackEnterStep ==
  ASSUME TypeOK, TimerInvariant, NEW w \in Workers, NEW c \in 1 .. MaxSets,
         CallbackEnter(w, c)
  PROVE  TypeOK' /\ TimerInvariant'
<1> USE ConstantsAssumption
    DEF TypeOK, TimerInvariant, mgrVars, itemVars, objVars, threadVars,
        exitVars, Threads, Listed, CallbackEnter, FindByCb
<1>1. TypeOK'
  BY DEF Handles
<1>2. /\ IdleCallsClean'
      /\ InitCallsCarryItem'
      /\ ExiterCalls'
      /\ DestroyListValid'
      /\ LiveHandlesUnique'
  BY DEF IdleCallsClean, InitCallsCarryItem, ExiterCalls, DestroyListValid,
         LiveHandlesUnique
<1>3. OneCallbackPerTimer'
  BY DEF OneCallbackPerTimer, InCbMeansWorker, PendingOnlyInCallback
<1>4. CallbackItemLive'
  BY DEF CallbackItemLive
<1>5. UnlistedIsBlank'
  BY DEF UnlistedIsBlank
<1>6. InCbMeansWorker'
  BY DEF InCbMeansWorker
<1>7. CbHandlesFresh'
  BY DEF CbHandlesFresh
<1>8. ArmedForLatestSet'
  BY DEF ArmedForLatestSet
<1>9. PendingOnlyInCallback'
  BY DEF PendingOnlyInCallback
<1>10. WaitCallsOnList'
  BY DEF WaitCallsOnList
<1>11. SetIsNotLost'
  BY DEF SetIsNotLost, CbHandlesFresh
<1>12. QED
  BY <1>1, <1>2, <1>3, <1>4, <1>5, <1>6, <1>7, <1>8, <1>9, <1>10, <1>11

(* Dropping a stale signal loses no set: no live timer has its handle. *)
LEMMA CallbackStaleStep ==
  ASSUME TypeOK, TimerInvariant, NEW w \in Workers, NEW c \in 1 .. MaxSets,
         CallbackStale(w, c)
  PROVE  TypeOK' /\ TimerInvariant'
<1> USE ConstantsAssumption
    DEF TypeOK, TimerInvariant, mgrVars, itemVars, objVars, threadVars,
        exitVars, Threads, Listed, CallbackStale, FindByCb
<1>1. TypeOK'
  BY DEF Handles
<1>2. /\ OneCallbackPerTimer'
      /\ CallbackItemLive'
      /\ UnlistedIsBlank'
      /\ InCbMeansWorker'
      /\ IdleCallsClean'
      /\ InitCallsCarryItem'
      /\ WaitCallsOnList'
      /\ ExiterCalls'
      /\ DestroyListValid'
      /\ LiveHandlesUnique'
  BY DEF OneCallbackPerTimer, CallbackItemLive, UnlistedIsBlank,
         InCbMeansWorker, IdleCallsClean, InitCallsCarryItem, WaitCallsOnList,
         ExiterCalls, DestroyListValid, LiveHandlesUnique
<1>3. CbHandlesFresh'
  BY DEF CbHandlesFresh
<1>4. ArmedForLatestSet'
  BY DEF ArmedForLatestSet
<1>5. PendingOnlyInCallback'
  BY DEF PendingOnlyInCallback
<1>6. SetIsNotLost'
  BY DEF SetIsNotLost
<1>7. QED
  BY <1>1, <1>2, <1>3, <1>4, <1>5, <1>6

(* The end of a callback frees a marked timer and signals its waiters, or
   arms the pending set. *)
LEMMA CallbackExitStep ==
  ASSUME TypeOK, TimerInvariant, NEW w \in Workers, CallbackExit(w)
  PROVE  TypeOK' /\ TimerInvariant'
<1> USE ConstantsAssumption
    DEF TypeOK, TimerInvariant, mgrVars, itemVars, objVars, threadVars,
        exitVars, Threads, Listed, CallbackExit, DestroyNode, EnableTimer
<1>1. TypeOK'
  <2>1. CASE marked[cbItem[w]]
    BY <2>1, DestroyNodeTypes
  <2>2. CASE ~marked[cbItem[w]]
    <3>1. cbItem[w] \in Items /\ objCb[cbItem[w]] \in 0 .. MaxSets
      OBVIOUS
    <3>2. /\ armed' \in [Items -> 0 .. MaxSets]
          /\ armFailed' \in [Items -> BOOLEAN]
      BY <2>2, <3>1
    <3>3. QED
      BY <2>2, <3>1, <3>2
  <2>3. QED
    BY <2>1, <2>2
<1>2. /\ CbHandlesFresh'
      /\ ExiterCalls'
  BY DEF CbHandlesFresh, ExiterCalls
<1>3. OneCallbackPerTimer'
  BY DEF OneCallbackPerTimer
<1>4. CallbackItemLive'
  BY DEF CallbackItemLive, OneCallbackPerTimer
<1>5. UnlistedIsBlank'
  BY DEF UnlistedIsBlank
<1>6. InCbMeansWorker'
  BY DEF InCbMeansWorker, OneCallbackPerTimer
<1>7. ArmedForLatestSet'
  BY DEF ArmedForLatestSet, CallbackItemLive, PendingOnlyInCallback,
         SetIsNotLost, InCbMeansWorker
<1>8. PendingOnlyInCallback'
  BY DEF PendingOnlyInCallback
<1>9. IdleCallsClean'
  BY DEF IdleCallsClean, DestroyListValid
<1>10. InitCallsCarryItem'
  BY DEF InitCallsCarryItem, DestroyListValid, CallbackItemLive
<1>11. WaitCallsOnList'
  BY DEF WaitCallsOnList, DestroyListValid
<1>12. DestroyListValid'
  BY DEF DestroyListValid
<1>13. LiveHandlesUnique'
  BY DEF LiveHandlesUnique
<1>14. SetIsNotLost'
  BY DEF SetIsNotLost, CallbackItemLive, InCbMeansWorker
<1>15. QED
  BY <1>1, <1>2, <1>3, <1>4, <1>5, <1>6, <1>7, <1>8, <1>9, <1>10, <1>11,
     <1>12, <1>13, <1>14

(* Starting the exit only marks the manager. *)
LEMMA TmrmExitStep ==
  ASSUME TypeOK, TimerInvariant, TmrmExit
  PROVE  TypeOK' /\ TimerInvariant'
<1> USE ConstantsAssumption
    DEF TypeOK, TimerInvariant, mgrVars, itemVars, objVars, threadVars,
        exitVars, Threads, Listed, TmrmExit
<1>1. TypeOK'
  BY DEF Handles
<1>2. /\ OneCallbackPerTimer'
      /\ CallbackItemLive'
      /\ UnlistedIsBlank'
      /\ InCbMeansWorker'
      /\ CbHandlesFresh'
      /\ ArmedForLatestSet'
      /\ PendingOnlyInCallback'
      /\ IdleCallsClean'
      /\ InitCallsCarryItem'
      /\ WaitCallsOnList'
      /\ DestroyListValid'
      /\ LiveHandlesUnique'
      /\ SetIsNotLost'
  BY DEF OneCallbackPerTimer, CallbackItemLive, UnlistedIsBlank,
         InCbMeansWorker, CbHandlesFresh, ArmedForLatestSet,
         PendingOnlyInCallback, IdleCallsClean, InitCallsCarryItem,
         WaitCallsOnList, DestroyListValid, LiveHandlesUnique, SetIsNotLost
<1>3. ExiterCalls'
  BY DEF ExiterCalls
<1>4. QED
  BY <1>1, <1>2, <1>3

(* Choosing the next timer to kill changes no timer. *)
LEMMA ExitGetFirstStep ==
  ASSUME TypeOK, TimerInvariant, ExitGetFirst
  PROVE  TypeOK' /\ TimerInvariant'
<1> USE ConstantsAssumption
    DEF TypeOK, TimerInvariant, mgrVars, itemVars, objVars, threadVars,
        exitVars, Threads, Listed, ExitGetFirst
<1>1. TypeOK'
  BY DEF Handles
<1>2. /\ OneCallbackPerTimer'
      /\ CallbackItemLive'
      /\ UnlistedIsBlank'
      /\ InCbMeansWorker'
      /\ CbHandlesFresh'
      /\ ArmedForLatestSet'
      /\ PendingOnlyInCallback'
      /\ IdleCallsClean'
      /\ InitCallsCarryItem'
      /\ WaitCallsOnList'
      /\ DestroyListValid'
      /\ LiveHandlesUnique'
      /\ SetIsNotLost'
  BY DEF OneCallbackPerTimer, CallbackItemLive, UnlistedIsBlank,
         InCbMeansWorker, CbHandlesFresh, ArmedForLatestSet,
         PendingOnlyInCallback, IdleCallsClean, InitCallsCarryItem,
         WaitCallsOnList, DestroyListValid, LiveHandlesUnique, SetIsNotLost
<1>3. ExiterCalls'
  BY DEF ExiterCalls
<1>4. QED
  BY <1>1, <1>2, <1>3

(* The exit's kill_w_wait is the clients' one. *)
LEMMA ExitKillStep ==
  ASSUME TypeOK, TimerInvariant, ExitKill
  PROVE  TypeOK' /\ TimerInvariant'
<1> USE ConstantsAssumption
    DEF TypeOK, TimerInvariant, mgrVars, itemVars, objVars, threadVars,
        exitVars, Threads, Listed, ExitKill, KillWaitCall, KillFound,
        DestroyNode, FindByHandle
<1>1. TypeOK'
  <2> HIDE DEF KillFound, FindByHandle
  <2>1. op' \in [Threads -> {"none", "init", "kill_w_wait"}]
    OBVIOUS
  <2>2. QED
    BY <2>1, KillWaitCallTypes
<1>2. /\ OneCallbackPerTimer'
      /\ InCbMeansWorker'
      /\ CbHandlesFresh'
  BY DEF OneCallbackPerTimer, InCbMeansWorker, CbHandlesFresh
<1>3. CallbackItemLive'
  BY DEF CallbackItemLive, InCbMeansWorker
<1>4. UnlistedIsBlank'
  BY DEF UnlistedIsBlank
<1>5. ArmedForLatestSet'
  BY DEF ArmedForLatestSet
<1>6. PendingOnlyInCallback'
  BY DEF PendingOnlyInCallback
<1>7. IdleCallsClean'
  BY DEF IdleCallsClean, DestroyListValid
<1>8. InitCallsCarryItem'
  BY DEF InitCallsCarryItem, DestroyListValid, ExiterCalls
<1>9. WaitCallsOnList'
  <2>1. CASE \E i \in Listed : /\ inCb[i] /\ KillFound(i, {Exiter})
                             /\ opItem' = [opItem EXCEPT ![Exiter] = i]
    BY <2>1 DEF WaitCallsOnList, DestroyListValid, IdleCallsClean, ExiterCalls
  <2>2. CASE \E i \in Listed : /\ ~inCb[i] /\ KillFound(i, {Exiter})
                             /\ opItem' = [opItem EXCEPT ![Exiter] = i]
    <3>1. PICK i \in Listed : /\ ~inCb[i] /\ KillFound(i, {Exiter})
                             /\ opItem' = [opItem EXCEPT ![Exiter] = i]
      BY <2>2
    <3>2. status' = [status EXCEPT ![i] = "freed"] /\ UNCHANGED inCb
      BY <3>1
    <3>3. eventSet'[Exiter] /\ opItem'[Exiter] = i /\ status'[i] = "freed"
      BY <3>1, <3>2
    <3>4. ASSUME NEW u \in Threads, u # Exiter, op[u] = "kill_w_wait"
          PROVE  opItem[u] # i \/ eventSet'[u]
      BY <3>1, <3>4 DEF WaitCallsOnList
    <3>5. ASSUME NEW u \in Threads, u # Exiter, op[u] = "kill_w_wait"
          PROVE  opItem'[u] = opItem[u] /\ (eventSet'[u] <=> eventSet[u])
      BY <3>1, <3>5 DEF DestroyListValid, WaitCallsOnList
    <3>6. QED
      BY <3>1, <3>2, <3>3, <3>4, <3>5 DEF WaitCallsOnList
  <2>3. CASE /\ eventSet' = [eventSet EXCEPT ![Exiter] = TRUE]
             /\ UNCHANGED <<opItem, marked, status, destroyList, armed>>
    BY <2>3 DEF WaitCallsOnList, DestroyListValid, IdleCallsClean, ExiterCalls
  <2>4. QED
    BY <2>1, <2>2, <2>3
<1>10. ExiterCalls'
  BY DEF ExiterCalls
<1>11. DestroyListValid'
  BY DEF DestroyListValid, IdleCallsClean, ExiterCalls
<1>12. LiveHandlesUnique'
  BY DEF LiveHandlesUnique
<1>13. SetIsNotLost'
  BY DEF SetIsNotLost
<1>14. QED
  BY <1>1, <1>2, <1>3, <1>4, <1>5, <1>6, <1>7, <1>8, <1>9, <1>10, <1>11,
     <1>12, <1>13

(* Its return is the clients' one. *)
LEMMA ExitKillReturnStep ==
  ASSUME TypeOK, TimerInvariant, ExitKillReturn
  PROVE  TypeOK' /\ TimerInvariant'
<1> USE ConstantsAssumption
    DEF TypeOK, TimerInvariant, mgrVars, itemVars, objVars, threadVars,
        exitVars, Threads, Listed, ExitKillReturn, KillWaitReturn
<1>1. TypeOK'
  BY DEF Handles
<1>2. /\ OneCallbackPerTimer'
      /\ CallbackItemLive'
      /\ UnlistedIsBlank'
      /\ InCbMeansWorker'
      /\ CbHandlesFresh'
      /\ ArmedForLatestSet'
      /\ PendingOnlyInCallback'
      /\ LiveHandlesUnique'
      /\ SetIsNotLost'
  BY DEF OneCallbackPerTimer, CallbackItemLive, UnlistedIsBlank,
         InCbMeansWorker, CbHandlesFresh, ArmedForLatestSet,
         PendingOnlyInCallback, LiveHandlesUnique, SetIsNotLost
<1>3. IdleCallsClean'
  BY DEF IdleCallsClean
<1>4. InitCallsCarryItem'
  BY DEF InitCallsCarryItem
<1>5. WaitCallsOnList'
  BY DEF WaitCallsOnList
<1>6. ExiterCalls'
  BY DEF ExiterCalls
<1>7. DestroyListValid'
  BY DEF DestroyListValid
<1>8. QED
  BY <1>1, <1>2, <1>3, <1>4, <1>5, <1>6, <1>7

(* Finishing the exit changes no timer. *)
LEMMA ExitFinishStep ==
  ASSUME TypeOK, TimerInvariant, ExitFinish
  PROVE  TypeOK' /\ TimerInvariant'
<1> USE ConstantsAssumption
    DEF TypeOK, TimerInvariant, mgrVars, itemVars, objVars, threadVars,
        exitVars, Threads, Listed, ExitFinish
<1>1. TypeOK'
  BY DEF Handles
<1>2. /\ OneCallbackPerTimer'
      /\ CallbackItemLive'
      /\ UnlistedIsBlank'
      /\ InCbMeansWorker'
      /\ CbHandlesFresh'
      /\ ArmedForLatestSet'
      /\ PendingOnlyInCallback'
      /\ IdleCallsClean'
      /\ InitCallsCarryItem'
      /\ WaitCallsOnList'
      /\ DestroyListValid'
      /\ LiveHandlesUnique'
      /\ SetIsNotLost'
  BY DEF OneCallbackPerTimer, CallbackItemLive, UnlistedIsBlank,
         InCbMeansWorker, CbHandlesFresh, ArmedForLatestSet,
         PendingOnlyInCallback, IdleCallsClean, InitCallsCarryItem,
         WaitCallsOnList, DestroyListValid, LiveHandlesUnique, SetIsNotLost
<1>3. ExiterCalls'
  BY DEF ExiterCalls
<1>4. QED
  BY <1>1, <1>2, <1>3

----------------------------------------------------------------------------
(* A step that changes no variable preserves everything. *)
LEMMA StutterStep ==
  ASSUME TypeOK, TimerInvariant, UNCHANGED vars
  PROVE  TypeOK' /\ TimerInvariant'
<1> USE DEF vars, mgrVars, itemVars, objVars, threadVars, exitVars
<1>1. TypeOK'
  BY DEF TypeOK
<1>2. TimerInvariant'
  BY DEF TimerInvariant, Listed, OneCallbackPerTimer, CallbackItemLive,
         UnlistedIsBlank, InCbMeansWorker, CbHandlesFresh, ArmedForLatestSet,
         PendingOnlyInCallback, IdleCallsClean, InitCallsCarryItem,
         WaitCallsOnList, ExiterCalls, DestroyListValid, LiveHandlesUnique,
         SetIsNotLost
<1>3. QED
  BY <1>1, <1>2

(* Every step of the specification preserves the invariant. *)
LEMMA NextInvariant ==
  ASSUME TypeOK, TimerInvariant, [Next]_vars
  PROVE  TypeOK' /\ TimerInvariant'
<1>1. CASE TmrmInit
  BY <1>1, TmrmInitStep
<1>2. ASSUME NEW t \in Callers, NEW i \in Items, TimerInitGetHandle(t, i)
      PROVE  TypeOK' /\ TimerInvariant'
  BY <1>2, TimerInitGetHandleStep
<1>3. ASSUME NEW t \in Callers, TimerInitAdd(t) \/ TimerKillWaitReturn(t)
      PROVE  TypeOK' /\ TimerInvariant'
  BY <1>3, TimerInitAddStep, TimerKillWaitReturnStep
<1>4. ASSUME NEW t \in Callers, NEW h \in Handles,
             TimerKill(t, h) \/ TimerKillWait(t, h) \/ TimerSet(t, h)
      PROVE  TypeOK' /\ TimerInvariant'
  BY <1>4, TimerKillStep, TimerKillWaitStep, TimerSetStep
<1>5. ASSUME NEW i \in Items, Expire(i)
      PROVE  TypeOK' /\ TimerInvariant'
  BY <1>5, ExpireStep
<1>6. ASSUME NEW w \in Workers, NEW c \in 1 .. MaxSets,
             CallbackEnter(w, c) \/ CallbackStale(w, c)
      PROVE  TypeOK' /\ TimerInvariant'
  BY <1>6, CallbackEnterStep, CallbackStaleStep
<1>7. ASSUME NEW w \in Workers, CallbackExit(w)
      PROVE  TypeOK' /\ TimerInvariant'
  BY <1>7, CallbackExitStep
<1>8. CASE TmrmExit \/ ExitGetFirst \/ ExitKill \/ ExitKillReturn \/ ExitFinish
  BY <1>8, TmrmExitStep, ExitGetFirstStep, ExitKillStep, ExitKillReturnStep,
     ExitFinishStep
<1>9. CASE UNCHANGED vars
  BY <1>9, StutterStep
<1>10. QED
  BY <1>1, <1>2, <1>3, <1>4, <1>5, <1>6, <1>7, <1>8, <1>9 DEF Next

(* The state of the timer manager keeps its types in every behaviour: in    *)
(* particular every handle stays within its 32-bit range.                   *)
THEOREM TypeCorrect == Spec => []TypeOK
<1>1. Init => TypeOK /\ TimerInvariant
  BY InitInvariant
<1>2. TypeOK /\ TimerInvariant /\ [Next]_vars => (TypeOK /\ TimerInvariant)'
  BY NextInvariant
<1>3. QED
  BY <1>1, <1>2, PTL DEF Spec

(* The inductive invariant holds in every reachable state. *)
THEOREM InvariantHolds == Spec => [](TypeOK /\ TimerInvariant)
<1>1. Init => TypeOK /\ TimerInvariant
  BY InitInvariant
<1>2. TypeOK /\ TimerInvariant /\ [Next]_vars => (TypeOK /\ TimerInvariant)'
  BY NextInvariant
<1>3. QED
  BY <1>1, <1>2, PTL DEF Spec

(* esif_ccb_tmrm_callback: at most one worker is in a timer's callback, and  *)
(* the item it comes back to has not been freed by a kill in the meantime.   *)
THEOREM CallbackExclusive == Spec => [](OneCallbackPerTimer /\ CallbackItemLive)
<1>1. TypeOK /\ TimerInvariant => OneCallbackPerTimer /\ CallbackItemLive
  BY DEF TimerInvariant
<1>2. QED
  BY <1>1, InvariantHolds, PTL

(* esif_ccb_timer_kill_w_wait returns only when the killed timer is freed,   *)
(* disarmed and in no worker's callback.                                     *)
THEOREM KillWaitSynchronous == Spec => []KillWaitIsSynchronous
<1>1. TypeOK /\ TimerInvariant => KillWaitIsSynchronous
  <2>1. SUFFICES ASSUME TypeOK, TimerInvariant, NEW t \in Threads,
                        eventSet[t], opItem[t] # None
                 PROVE  /\ status[opItem[t]] = "freed"
                        /\ \A w \in Workers : cbItem[w] # opItem[t]
                        /\ armed[opItem[t]] = 0
    BY DEF KillWaitIsSynchronous
  <2>2. op[t] = "kill_w_wait" /\ opItem[t] \in Items
    BY <2>1 DEF TypeOK, TimerInvariant, IdleCallsClean, InitCallsCarryItem
  <2>3. status[opItem[t]] = "freed"
    BY <2>1, <2>2 DEF TimerInvariant, WaitCallsOnList
  <2>4. QED
    BY <2>1, <2>2, <2>3 DEF TypeOK, TimerInvariant, CallbackItemLive,
                            ArmedForLatestSet
<1>2. QED
  BY <1>1, InvariantHolds, PTL

(* A thread blocked in kill_w_wait is on the destroy list of a timer whose   *)
(* callback some worker is running; what is on a destroy list is such a      *)
(* thread's event.                                                           *)
THEOREM WaitersSafe == Spec => [](WaitersWillBeSignalled /\ DestroyListValid)
<1>1. TypeOK /\ TimerInvariant => WaitersWillBeSignalled
  BY DEF TypeOK, TimerInvariant, WaitersWillBeSignalled, WaitCallsOnList,
         InCbMeansWorker
<1>2. TypeOK /\ TimerInvariant => DestroyListValid
  BY DEF TimerInvariant
<1>3. QED
  BY <1>1, <1>2, InvariantHolds, PTL

(* Two timers on the list never share a handle, wherever the wrapped counter *)
(* stands.                                                                   *)
THEOREM HandlesAreUnique == Spec => []HandlesUnique
<1>1. TypeOK /\ TimerInvariant => HandlesUnique
  BY DEF TimerInvariant, HandlesUnique, LiveHandlesUnique, Listed
<1>2. QED
  BY <1>1, InvariantHolds, PTL

(* No set of a live timer is lost except by a failure to arm the OS timer.   *)
THEOREM SetsAreNotLost == Spec => []SetIsNotLost
<1>1. TypeOK /\ TimerInvariant => SetIsNotLost
  BY DEF TimerInvariant
<1>2. QED
  BY <1>1, InvariantHolds, PTL

(* A callback starts only on a timer that is unmarked, in no callback and    *)
(* neither armed nor pending for a later expiry.                             *)
THEOREM CallbacksStartFresh == Spec => CallbackStartsFresh
<1> DEFINE Fresh == \A w \in Workers : cbItem[w] = None /\ cbItem'[w] # None =>
                      LET i == cbItem'[w] IN
                      ~marked[i] /\ ~inCb[i] /\ armed[i] = 0 /\ ~setIsPending[i]
<1>1. ASSUME TypeOK, TimerInvariant, [Next]_vars
      PROVE  [Fresh]_vars
  <2>1. SUFFICES ASSUME NEW w \in Workers, cbItem[w] = None, cbItem'[w] # None
                 PROVE  LET i == cbItem'[w] IN
                        ~marked[i] /\ ~inCb[i] /\ armed[i] = 0 /\ ~setIsPending[i]
    OBVIOUS
  <2>2. PICK v \in Workers, c \in 1 .. MaxSets : CallbackEnter(v, c)
    <3> USE <1>1, <2>1
        DEF vars, mgrVars, itemVars, objVars, threadVars, exitVars
    <3>1. cbItem' # cbItem
      OBVIOUS
    <3>2. ~UNCHANGED vars
      BY <3>1
    <3>3. ~TmrmInit
      BY <3>1 DEF TmrmInit
    <3>4. ASSUME NEW t \in Callers, NEW i \in Items
          PROVE  ~TimerInitGetHandle(t, i)
      BY <3>1 DEF TimerInitGetHandle
    <3>5. ASSUME NEW t \in Callers
          PROVE  ~(TimerInitAdd(t) \/ TimerKillWaitReturn(t))
      BY <3>1 DEF TimerInitAdd, TimerKillWaitReturn, KillWaitReturn
    <3>6. ASSUME NEW t \in Callers, NEW h \in Handles
          PROVE  ~(TimerKill(t, h) \/ TimerKillWait(t, h) \/ TimerSet(t, h))
      BY <3>1 DEF TimerKill, TimerKillWait, KillWaitCall, TimerSet
    <3>7. ASSUME NEW i \in Items
          PROVE  ~Expire(i)
      BY <3>1 DEF Expire
    <3>8. ASSUME NEW u \in Workers, NEW c \in 1 .. MaxSets
          PROVE  ~CallbackStale(u, c)
      BY <3>1 DEF CallbackStale
    <3>9. ASSUME NEW u \in Workers
          PROVE  ~CallbackExit(u)
      BY DEF CallbackExit, TypeOK
    <3>10. ~(TmrmExit \/ ExitGetFirst \/ ExitKill \/ ExitKillReturn \/ ExitFinish)
      BY <3>1 DEF TmrmExit, ExitGetFirst, ExitKill, ExitKillReturn, ExitFinish,
                  KillWaitCall, KillWaitReturn
    <3>11. QED
      BY <3>2, <3>3, <3>4, <3>5, <3>6, <3>7, <3>8, <3>9, <3>10 DEF Next
  <2>3. PICK i \in Items : /\ cbItem' = [cbItem EXCEPT ![v] = i]
                           /\ status[i] = "listed" /\ cbHandle[i] = c
    BY <2>2 DEF CallbackEnter, FindByCb, Listed
  <2>4. c \in signals /\ cbItem'[w] = i
    BY <1>1, <2>1, <2>2, <2>3 DEF CallbackEnter, TypeOK
  <2>5. QED
    BY <1>1, <2>3, <2>4 DEF TypeOK, TimerInvariant, ArmedForLatestSet,
                            PendingOnlyInCallback
<1>2. QED
  BY <1>1, InvariantHolds, PTL DEF Spec, CallbackStartsFresh
====
