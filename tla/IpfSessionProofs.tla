---- MODULE IpfSessionProofs ----
(***************************************************************************)
(* Proofs about IpfSession.  TypeOK and SessionInvariant are inductive     *)
(* together; the safety properties follow from them.  There is one lemma   *)
(* per action, and lemmas for what they share: a step that expires         *)
(* transactions, one that changes a single transaction, and one that       *)
(* changes none.                                                           *)
(***************************************************************************)
EXTENDS IpfSession, TLAPS

USE SessionAssumption DEF Callers, Trx

-----------------------------------------------------------------------------
(* Transaction records and sequences. *)

(* The head of a nonempty sequence is one of its elements, and the tail is a *)
(* sequence of them.                                                         *)
LEMMA TailType ==
  ASSUME NEW S, NEW s \in Seq(S), s # << >>
  PROVE  Head(s) \in S /\ Tail(s) \in Seq(S)
OBVIOUS

(* A transaction that was never created is a transaction record. *)
LEMMA UnusedRecord ==
  Unused \in Transaction
BY DEF Unused, Transaction

(* Setting one field of a transaction gives a transaction record. *)
LEMMA UpdateRecord ==
  ASSUME NEW t \in Transaction
  PROVE  /\ [t EXCEPT !.mem = "live"] \in Transaction
         /\ [t EXCEPT !.ref = 1] \in Transaction
         /\ [t EXCEPT !.ref = 2] \in Transaction
         /\ [t EXCEPT !.request = TRUE] \in Transaction
         /\ [t EXCEPT !.request = FALSE] \in Transaction
         /\ [t EXCEPT !.sync = 0] \in Transaction
         /\ [t EXCEPT !.sync = 1] \in Transaction
         /\ [t EXCEPT !.due = TRUE] \in Transaction
<1>1. /\ [t EXCEPT !.mem = "live"] \in Transaction
      /\ [t EXCEPT !.request = TRUE] \in Transaction
      /\ [t EXCEPT !.request = FALSE] \in Transaction
      /\ [t EXCEPT !.due = TRUE] \in Transaction
  BY DEF Transaction
<1>2. [t EXCEPT !.ref = 1] \in Transaction
  BY DEF Transaction
<1>3. [t EXCEPT !.ref = 2] \in Transaction
  BY DEF Transaction
<1>4. [t EXCEPT !.sync = 0] \in Transaction
  BY DEF Transaction
<1>5. [t EXCEPT !.sync = 1] \in Transaction
  BY DEF Transaction
<1>6. QED
  BY <1>1, <1>2, <1>3, <1>4, <1>5

(* What IrpcTransaction_Create makes: live, one reference, a request and     *)
(* nothing else.                                                             *)
LEMMA NewRecord ==
  LET r == [Unused EXCEPT !.mem = "live", !.ref = 1, !.request = TRUE]
  IN  /\ r \in Transaction /\ r.mem = "live" /\ r.ref = 1 /\ r.request = TRUE
      /\ r.response = None /\ r.sync = 0
<1>1. PICK u \in Transaction : u = Unused /\ u.sync = 0 /\ u.response = None
  BY UnusedRecord DEF Unused
<1>2. PICK v \in Transaction : v = [u EXCEPT !.mem = "live"]
  BY UpdateRecord
<1>3. PICK w \in Transaction : w = [v EXCEPT !.ref = 1]
  BY UpdateRecord
<1>4. PICK r \in Transaction : r = [w EXCEPT !.request = TRUE]
  BY UpdateRecord
<1>5. r = [u EXCEPT !.mem = "live", !.ref = 1, !.request = TRUE]
  BY <1>2, <1>3, <1>4 DEF Transaction
<1>6. /\ r.mem = "live" /\ r.ref = 1 /\ r.request = TRUE
      /\ r.response = u.response /\ r.sync = u.sync
  BY <1>5 DEF Transaction
<1>7. QED
  BY <1>1, <1>5, <1>6

(* IrpcTransaction_PutRef frees on the last reference and leaves the rest    *)
(* alone before that.                                                        *)
LEMMA PutRefRecord ==
  ASSUME NEW t \in Transaction, t.ref # 0
  PROVE  /\ PutRef(t) \in Transaction
         /\ t.ref = 1 => PutRef(t).mem = "freed"
         /\ t.ref = 2 => /\ PutRef(t).ref = 1 /\ PutRef(t).mem = t.mem
                         /\ PutRef(t).request = t.request
                         /\ PutRef(t).response = t.response /\ PutRef(t).sync = t.sync
<1>1. CASE t.ref = 1
  BY <1>1, UnusedRecord DEF PutRef, Transaction
<1>2. CASE t.ref = 2
  <2>1. PutRef(t) = [t EXCEPT !.ref = 1]
    BY <1>2 DEF PutRef
  <2>2. QED
    BY <1>2, <2>1 DEF Transaction
<1>3. QED
  BY <1>1, <1>2 DEF Transaction

(* The same for a transaction that leaves the pool, which also drops its     *)
(* timestamp.                                                                *)
LEMMA LeaveRecord ==
  ASSUME NEW t \in Transaction, t.ref # 0
  PROVE  /\ Leave(t) \in Transaction
         /\ t.ref = 1 => Leave(t).mem = "freed"
         /\ t.ref = 2 => /\ Leave(t).ref = 1 /\ Leave(t).mem = t.mem
                         /\ Leave(t).request = t.request
                         /\ Leave(t).response = t.response /\ Leave(t).sync = t.sync
<1>1. PICK q \in Transaction : q = [t EXCEPT !.due = FALSE]
  BY DEF Transaction
<1>2. /\ q.ref = t.ref /\ q.mem = t.mem /\ q.request = t.request
      /\ q.response = t.response /\ q.sync = t.sync
  BY <1>1 DEF Transaction
<1>3. Leave(t) = PutRef(q)
  BY <1>1 DEF Leave
<1>4. QED
  BY <1>2, <1>3, PutRefRecord

(* The record that IpfTrxMgr_ExpireTimeout leaves: neither request nor       *)
(* response, and signalled.                                                  *)
LEMMA ExpiredRecord ==
  ASSUME NEW t \in Transaction, t.sync = 0
  PROVE  LET q == [t EXCEPT !.request = FALSE, !.response = None, !.sync = @ + 1]
         IN  /\ q \in Transaction /\ q.mem = t.mem /\ q.ref = t.ref
             /\ q.request = FALSE /\ q.response = None /\ q.sync = 1
<1> DEFINE q == [t EXCEPT !.request = FALSE, !.response = None, !.sync = @ + 1]
<1>1. PICK u \in Transaction : u = [t EXCEPT !.request = FALSE, !.response = None]
  BY DEF Transaction
<1>2. q = [u EXCEPT !.sync = 1]
  BY <1>1 DEF Transaction
<1>3. q \in Transaction
  BY <1>2 DEF Transaction
<1>4. q.mem = t.mem /\ q.ref = t.ref /\ q.request = FALSE /\ q.response = None /\ q.sync = 1
  BY DEF Transaction
<1>5. QED
  BY <1>3, <1>4

-----------------------------------------------------------------------------
(* What several actions have in common. *)

(* During a call the caller has a live transaction that no other caller has, *)
(* with one reference for itself and one for the pool.                       *)
LEMMA CallerHasTrx ==
  ASSUME TypeOK, SessionInvariant, NEW c \in Callers, caller[c] # "idle"
  PROVE  /\ mine[c] \in Trx /\ Owned(mine[c]) /\ trx[mine[c]] \in Transaction
         /\ trx[mine[c]].mem = "live"
         /\ trx[mine[c]].ref = IF mine[c] \in pool THEN 2 ELSE 1
         /\ \A d \in Callers : d # c => mine[d] # mine[c]
<1>1. mine[c] \in Trx /\ Owned(mine[c]) /\ \A d \in Callers : d # c => mine[d] # mine[c]
  BY DEF SessionInvariant, CallersHaveTrx, TypeOK, Owned
<1>2. QED
  BY <1>1 DEF SessionInvariant, RefsCounted, TypeOK

(* When one owned transaction changes and its count fits the pool, all       *)
(* counts are still right.                                                   *)
LEMMA OneTrxChanged ==
  ASSUME TypeOK, SessionInvariant, NEW x \in Trx, NEW r \in Transaction,
         trx' = [trx EXCEPT ![x] = r], UNCHANGED <<nextId, mine>>,
         pool' \subseteq Trx, \A y \in Trx : y # x => (y \in pool' <=> y \in pool),
         Owned(x), r.mem = "live", r.ref = IF x \in pool' THEN 2 ELSE 1,
         x \in pool' => r.sync = 0
  PROVE  /\ RefsCounted' /\ trx' \in [Trx -> Transaction]
         /\ trx'[x] = r /\ \A y \in Trx : y # x => trx'[y] = trx[y]
<1>1. /\ trx' \in [Trx -> Transaction] /\ trx'[x] = r
      /\ \A y \in Trx : y # x => trx'[y] = trx[y]
  BY DEF TypeOK
<1>2. \A y : Owned(y)' <=> Owned(y)
  BY DEF Owned
<1>3. RefsCounted'
  <2> SUFFICES ASSUME NEW y \in Trx
               PROVE  /\ y >= nextId => trx'[y] = Unused
                      /\ trx'[y].mem = "live" <=> y \in pool' \/ Owned(y)
                      /\ trx'[y].mem = "live" => trx'[y].ref = (IF y \in pool' THEN 1 ELSE 0)
                                                             + (IF Owned(y) THEN 1 ELSE 0)
                      /\ y \in pool' => trx'[y].sync = 0
    BY <1>2 DEF RefsCounted
  <2>1. CASE y = x
    <3>1. ~(x >= nextId)
      BY DEF SessionInvariant, RefsCounted, Unused
    <3>2. QED
      BY <1>1, <2>1, <3>1
  <2>2. CASE y # x
    BY <1>1, <2>2 DEF SessionInvariant, RefsCounted
  <2>3. QED
    BY <2>1, <2>2
<1>4. QED
  BY <1>1, <1>3

(* The record of what was dropped stays as it is. *)
LEMMA DroppedKept ==
  ASSUME TypeOK, SessionInvariant, UNCHANGED dropped, nextId' \in {nextId, nextId + 1}
  PROVE  DroppedOK'
BY DEF TypeOK, SessionInvariant, DroppedOK

(* A step that touches neither transactions nor callers, and does not change *)
(* whether the I/O thread has one in its hand, keeps what the invariant says *)
(* of them.                                                                  *)
LEMMA TransactionsUntouched ==
  ASSUME SessionInvariant, UNCHANGED <<trx, nextId, pool, caller, mine, held, dropped>>,
         io = "got" <=> io' = "got", io = "done" => io' = "done"
  PROVE  /\ CallersHaveTrx' /\ RefsCounted' /\ CallsBegin' /\ CallersStay'
         /\ NoLostTransaction' /\ DroppedOK'
<1>1. (\A x : Owned(x)' <=> Owned(x)) /\ (\A c \in Callers : Committed(c)' <=> Committed(c))
  BY DEF Owned, Committed
<1>2. CallersHaveTrx' /\ CallsBegin'
  BY DEF SessionInvariant, CallersHaveTrx, CallsBegin
<1>3. RefsCounted'
  BY <1>1 DEF SessionInvariant, RefsCounted
<1>4. CallersStay' /\ NoLostTransaction' /\ DroppedOK'
  BY <1>1 DEF SessionInvariant, CallersStay, NoLostTransaction, DroppedOK
<1>5. QED
  BY <1>2, <1>3, <1>4

(* What the expiry of transactions of the pool does to each of them: an      *)
(* owned one stays with the one reference of its caller and is signalled     *)
(* once, the others are freed.                                               *)
LEMMA ExpireEffect ==
  ASSUME TypeOK, RefsCounted, NEW S \in SUBSET pool, Expire(S)
  PROVE  /\ pool' = pool \ S /\ pool' \subseteq Trx
         /\ trx' \in [Trx -> Transaction]
         /\ \A x \in Trx : x \notin S => trx'[x] = trx[x]
         /\ \A x \in S : Owned(x) =>
              /\ trx'[x].mem = "live" /\ trx'[x].ref = 1 /\ trx'[x].request = FALSE
              /\ trx'[x].response = None /\ trx'[x].sync = 1
         /\ \A x \in S : ~Owned(x) => trx'[x].mem = "freed"
<1>1. S \subseteq Trx /\ pool' = pool \ S /\ pool' \subseteq Trx
  BY DEF TypeOK, Expire
<1>2. \A x \in S : /\ trx[x] \in Transaction /\ trx[x].mem = "live" /\ trx[x].sync = 0
                   /\ trx[x].ref = IF Owned(x) THEN 2 ELSE 1
  BY <1>1 DEF TypeOK, RefsCounted
<1>3. \A x \in Trx : x \notin S => trx'[x] = trx[x]
  BY DEF Expire
<1>4. ASSUME NEW x \in S
      PROVE  /\ trx'[x] \in Transaction
             /\ Owned(x) =>
                  /\ trx'[x].mem = "live" /\ trx'[x].ref = 1 /\ trx'[x].request = FALSE
                  /\ trx'[x].response = None /\ trx'[x].sync = 1
             /\ ~Owned(x) => trx'[x].mem = "freed"
  <2>1. PICK q : q = [trx[x] EXCEPT !.request = FALSE, !.response = None, !.sync = @ + 1]
    OBVIOUS
  <2>2. /\ q \in Transaction /\ q.mem = "live" /\ q.request = FALSE /\ q.response = None
        /\ q.sync = 1 /\ q.ref = IF Owned(x) THEN 2 ELSE 1
    BY <1>2, <2>1, ExpiredRecord
  <2>3. trx'[x] = Leave(q)
    BY <1>1, <2>1 DEF Expire
  <2>4. QED
    BY <2>2, <2>3, LeaveRecord
<1>5. trx' \in [Trx -> Transaction]
  <2>1. \A x \in Trx : trx'[x] \in Transaction
    BY <1>3, <1>4 DEF TypeOK
  <2>2. QED
    BY <2>1 DEF Expire
<1>6. QED
  BY <1>1, <1>3, <1>4, <1>5

(* Expiry keeps what the invariant says of transactions and callers, and     *)
(* every waiting caller that was signalled before, or was expired, is        *)
(* signalled.                                                                *)
LEMMA ExpirePreserves ==
  ASSUME TypeOK, SessionInvariant, NEW S \in SUBSET pool, Expire(S),
         UNCHANGED <<nextId, caller, mine, held, dropped>>
  PROVE  /\ CallersHaveTrx' /\ RefsCounted' /\ CallsBegin' /\ NoLostTransaction'
         /\ io # "done" => \A x \in pool' : \E c \in Callers : mine'[c] = x /\ Committed(c)'
         /\ held' # None => \E c \in Callers : mine'[c] = held' /\ Committed(c)'
         /\ \A c \in Callers : caller'[c] = "wait" /\ (trx[mine[c]].sync = 1 \/ mine[c] \in S)
               => trx'[mine'[c]].sync = 1
<1>0. /\ pool' = pool \ S
      /\ \A x \in Trx : x \notin S => trx'[x] = trx[x]
      /\ \A x \in S : Owned(x) =>
              /\ trx'[x].mem = "live" /\ trx'[x].ref = 1 /\ trx'[x].request = FALSE
              /\ trx'[x].response = None /\ trx'[x].sync = 1
      /\ \A x \in S : ~Owned(x) => trx'[x].mem = "freed"
  BY ExpireEffect DEF SessionInvariant
<1>1. \A x : Owned(x)' <=> Owned(x)
  BY DEF Owned
<1>2. \A c \in Callers : Committed(c)' <=> Committed(c)
  BY DEF Committed
<1>a. ASSUME NEW c \in Callers, caller[c] # "idle"
      PROVE  mine[c] \in Trx /\ Owned(mine[c])
  BY <1>a DEF SessionInvariant, CallersHaveTrx, TypeOK, Owned
<1>3. CallersHaveTrx'
  BY DEF SessionInvariant, CallersHaveTrx
<1>4. RefsCounted'
  <2> SUFFICES ASSUME NEW x \in Trx
               PROVE  /\ x >= nextId => trx'[x] = Unused
                      /\ trx'[x].mem = "live" <=> x \in pool' \/ Owned(x)
                      /\ trx'[x].mem = "live" => trx'[x].ref = (IF x \in pool' THEN 1 ELSE 0)
                                                             + (IF Owned(x) THEN 1 ELSE 0)
                      /\ x \in pool' => trx'[x].sync = 0
    BY <1>1 DEF RefsCounted
  <2>1. CASE x \in S
    <3>1. trx[x].mem = "live" /\ ~(x >= nextId)
      BY <2>1 DEF SessionInvariant, RefsCounted, Unused
    <3>2. QED
      BY <1>0, <2>1, <3>1
  <2>2. CASE x \notin S
    BY <1>0, <2>2 DEF SessionInvariant, RefsCounted
  <2>3. QED
    BY <2>1, <2>2
<1>5. CallsBegin'
  <2> SUFFICES ASSUME NEW c \in Callers
               PROVE  /\ caller[c] \in {"check", "add"} =>
                           mine[c] \notin pool' \cup dropped /\ trx'[mine[c]].sync = 0
                           /\ trx'[mine[c]].response = None /\ trx'[mine[c]].request
                      /\ caller[c] = "take" /\ ~trx'[mine[c]].request => trx'[mine[c]].sync = 1
    BY DEF CallsBegin
  <2>1. QED
    BY <1>0, <1>a DEF SessionInvariant, CallsBegin
<1>6. NoLostTransaction'
  <2> SUFFICES ASSUME NEW c \in Callers, Committed(c)
               PROVE  /\ trx'[mine[c]].response \in {None, mine[c]}
                      /\ mine[c] \in pool' \/ mine[c] = held \/ trx'[mine[c]].sync = 1 \/ mine[c] \in dropped
                      /\ mine[c] \in pool' => ~(mine[c] = held \/ trx'[mine[c]].sync = 1 \/ mine[c] \in dropped)
                      /\ mine[c] = held => ~(trx'[mine[c]].sync = 1 \/ mine[c] \in dropped)
                      /\ ~(trx'[mine[c]].sync = 1 /\ mine[c] \in dropped)
    BY <1>2 DEF NoLostTransaction
  <2>1. mine[c] \in Trx /\ Owned(mine[c])
    BY <1>a DEF Committed
  <2>2. QED
    BY <1>0, <2>1 DEF SessionInvariant, NoLostTransaction
<1>7. /\ io # "done" => \A x \in pool' : \E c \in Callers : mine'[c] = x /\ Committed(c)'
      /\ held' # None => \E c \in Callers : mine'[c] = held' /\ Committed(c)'
  BY <1>0, <1>2 DEF SessionInvariant, CallersStay
<1>8. \A c \in Callers : caller'[c] = "wait" /\ (trx[mine[c]].sync = 1 \/ mine[c] \in S)
               => trx'[mine'[c]].sync = 1
  BY <1>0, <1>a
<1>9. QED
  BY <1>3, <1>4, <1>5, <1>6, <1>7, <1>8

(* A step that expires transactions, wherever it is in the I/O thread, in    *)
(* the RPC thread or in IpcSession_Disconnect, preserves the invariant.      *)
LEMMA ExpireActions ==
  ASSUME TypeOK, SessionInvariant, NEW S \in SUBSET pool, Expire(S),
         UNCHANGED <<nextId, caller, mine, held, dropped>>,
         io' # io => /\ io \notin {"got", "post", "done"}
                     /\ io' \notin {"got", "post", "done"},
         UNCHANGED <<bellOpen, queues, recv, rpcSignal, sockOpen>>,
         \/ disc' = disc
         \/ disc = "expire" /\ disc' = "signal" /\ S = pool
         \/ disc = "uninit" /\ disc' = "done",
         rpc' # rpc => rpc = "expire" /\ rpc' = "destroy"
  PROVE  SessionInvariant'
<1>1. /\ CallersHaveTrx' /\ RefsCounted' /\ CallsBegin' /\ NoLostTransaction'
      /\ io # "done" => \A x \in pool' : \E c \in Callers : mine'[c] = x /\ Committed(c)'
      /\ held' # None => \E c \in Callers : mine'[c] = held' /\ Committed(c)'
      /\ \A c \in Callers : caller'[c] = "wait" /\ (trx[mine[c]].sync = 1 \/ mine[c] \in S)
               => trx'[mine'[c]].sync = 1
  BY ExpirePreserves
<1>2. CallersStay'
  BY <1>1 DEF SessionInvariant, CallersStay
<1>3. SignalsCounted'
  BY DEF SessionInvariant, SignalsCounted, TypeOK
<1>4. DisconnectOrder'
  <2>1. ASSUME disc = "expire", NEW c \in Callers, caller[c] = "wait"
        PROVE  trx[mine[c]].sync = 1 \/ mine[c] \in pool \/ mine[c] \in dropped
    <3>1. held = None
      BY <2>1 DEF SessionInvariant, CallersStay, DisconnectOrder
    <3>2. mine[c] # None
      BY <2>1 DEF SessionInvariant, CallersHaveTrx
    <3>3. QED
      BY <2>1, <3>1, <3>2 DEF SessionInvariant, NoLostTransaction, Committed
  <2>2. disc' \in {"signal", "joinRpc", "uninit", "done"} =>
            \A c \in Callers :
                caller'[c] = "wait" => trx'[mine'[c]].sync = 1 \/ mine'[c] \in dropped'
    BY <1>1, <2>1 DEF SessionInvariant, DisconnectOrder, TypeOK
  <2>3. QED
    BY <2>2 DEF SessionInvariant, DisconnectOrder, TypeOK
<1>5. DroppedOK'
  BY DroppedKept
<1>6. QED
  BY <1>1, <1>2, <1>3, <1>4, <1>5 DEF SessionInvariant

-----------------------------------------------------------------------------
(* The callers and the clock. *)

(* IrpcTransaction_Create: a new transaction, known to its caller only. *)
LEMMA RequestStep ==
  ASSUME TypeOK, SessionInvariant, NEW c \in Callers, Request(c)
  PROVE  TypeOK' /\ SessionInvariant'
<1>1. PICK n \in Trx : n = nextId
  BY DEF Request
<1>2. PICK r \in Transaction :
        /\ trx' = [trx EXCEPT ![n] = r]
        /\ r.mem = "live" /\ r.ref = 1 /\ r.request = TRUE /\ r.response = None /\ r.sync = 0
  BY <1>1, NewRecord DEF Request
<1>3. /\ nextId' = n + 1 /\ caller[c] = "idle"
      /\ caller' = [caller EXCEPT ![c] = "check"] /\ mine' = [mine EXCEPT ![c] = n]
      /\ UNCHANGED <<pool, qVars, sockVars, rpcVars, disc, ioVars, srvVars>>
  BY <1>1 DEF Request, CallerUnchanged, qVars, sockVars
<1>4. /\ caller'[c] = "check" /\ mine'[c] = n
      /\ \A d \in Callers : d # c => caller'[d] = caller[d] /\ mine'[d] = mine[d]
      /\ trx'[n] = r /\ (\A x \in Trx : x # n => trx'[x] = trx[x])
      /\ trx' \in [Trx -> Transaction]
  BY <1>2, <1>3 DEF TypeOK
<1>5. mine[c] = None /\ \A d \in Callers : mine[d] # n
  BY <1>1, <1>3 DEF SessionInvariant, CallersHaveTrx, TypeOK
<1>6. trx[n] = Unused /\ n \notin pool /\ held # n /\ n \notin dropped /\ dropped' = dropped
  <2>1. trx[n] = Unused
    BY <1>1 DEF SessionInvariant, RefsCounted
  <2>2. n \notin pool
    BY <2>1 DEF SessionInvariant, RefsCounted, Unused
  <2>3. held # n
    BY <1>5 DEF SessionInvariant, CallersStay
  <2>4. n \notin dropped /\ dropped' = dropped
    BY <1>1, <1>3 DEF SessionInvariant, DroppedOK, ioVars
  <2>5. QED
    BY <2>1, <2>2, <2>3, <2>4
<1>7. TypeOK'
  BY <1>3, <1>4 DEF TypeOK, qVars, sockVars, rpcVars, ioVars, srvVars
<1>8. \A x \in Trx : Owned(x)' <=> x = n \/ Owned(x)
  <2> SUFFICES ASSUME NEW x \in Trx
               PROVE  (\E d \in Callers : mine'[d] = x) <=> x = n \/ \E d \in Callers : mine[d] = x
    BY DEF Owned
  <2>1. x # None
    OBVIOUS
  <2>2. QED
    BY <1>4, <1>5, <2>1
<1>9. ~Committed(c) /\ \A d \in Callers : Committed(d)' <=> Committed(d)
  BY <1>3, <1>4 DEF Committed
<1>10. CallersHaveTrx'
  BY <1>1, <1>3, <1>4, <1>5 DEF SessionInvariant, CallersHaveTrx, TypeOK
<1>11. RefsCounted'
  <2> SUFFICES ASSUME NEW x \in Trx
               PROVE  /\ x >= n + 1 => trx'[x] = Unused
                      /\ trx'[x].mem = "live" <=> x \in pool \/ x = n \/ Owned(x)
                      /\ trx'[x].mem = "live" =>
                           trx'[x].ref = (IF x \in pool THEN 1 ELSE 0)
                                         + (IF x = n \/ Owned(x) THEN 1 ELSE 0)
                      /\ x \in pool => trx'[x].sync = 0
    BY <1>3, <1>8 DEF RefsCounted
  <2>1. CASE x = n
    BY <1>2, <1>4, <1>6, <2>1
  <2>2. CASE x # n
    <3>1. x >= n + 1 => x >= nextId
      BY <1>1
    <3>2. QED
      BY <1>4, <2>2, <3>1 DEF SessionInvariant, RefsCounted
  <2>3. QED
    BY <2>1, <2>2
<1>12. ASSUME NEW d \in Callers, d # c, caller[d] # "idle"
       PROVE  trx'[mine'[d]] = trx[mine[d]] /\ mine'[d] = mine[d]
  BY <1>4, <1>5, <1>12, CallerHasTrx
<1>13. CallsBegin'
  <2> SUFFICES ASSUME NEW d \in Callers
               PROVE  /\ caller'[d] \in {"check", "add"} =>
                           mine'[d] \notin pool \cup dropped /\ trx'[mine'[d]].sync = 0
                           /\ trx'[mine'[d]].response = None /\ trx'[mine'[d]].request
                      /\ caller'[d] = "take" /\ ~trx'[mine'[d]].request => trx'[mine'[d]].sync = 1
    BY <1>3, <1>6 DEF CallsBegin
  <2>1. CASE d = c
    BY <1>2, <1>4, <1>6, <2>1
  <2>2. CASE d # c
    BY <1>4, <1>12, <2>2 DEF SessionInvariant, CallsBegin
  <2>3. QED
    BY <2>1, <2>2
<1>14. CallersStay'
  <2>1. \A x : (\E d \in Callers : mine[d] = x /\ Committed(d))
               => \E d \in Callers : mine'[d] = x /\ Committed(d)'
    BY <1>4, <1>9
  <2>2. QED
    BY <1>3, <2>1 DEF SessionInvariant, CallersStay, ioVars
<1>15. NoLostTransaction'
  <2> SUFFICES ASSUME NEW d \in Callers, Committed(d), d # c
               PROVE  LET x == mine'[d] IN
                      /\ trx'[x].response \in {None, x}
                      /\ x \in pool \/ x = held \/ trx'[x].sync = 1 \/ x \in dropped
                      /\ x \in pool => ~(x = held \/ trx'[x].sync = 1 \/ x \in dropped)
                      /\ x = held => ~(trx'[x].sync = 1 \/ x \in dropped)
                      /\ ~(trx'[x].sync = 1 /\ x \in dropped)
    BY <1>3, <1>9 DEF NoLostTransaction, ioVars
  <2>1. trx'[mine'[d]] = trx[mine[d]] /\ mine'[d] = mine[d]
    BY <1>12 DEF Committed
  <2>2. QED
    BY <2>1 DEF SessionInvariant, NoLostTransaction
<1>16. DisconnectOrder' /\ SignalsCounted'
  BY <1>3, <1>4, <1>12 DEF SessionInvariant, DisconnectOrder, SignalsCounted, qVars, sockVars,
                           rpcVars, ioVars
<1>17. DroppedOK'
  BY <1>1, <1>3, <1>6, DroppedKept
<1>18. QED
  BY <1>7, <1>10, <1>11, <1>13, <1>14, <1>15, <1>16, <1>17 DEF SessionInvariant

(* The caller looks at the socket. *)
LEMMA CheckSocketStep ==
  ASSUME TypeOK, SessionInvariant, NEW c \in Callers, CheckSocket(c)
  PROVE  TypeOK' /\ SessionInvariant'
<1> USE DEF CheckSocket, CallerUnchanged, trxVars, rpcVars, ioVars, srvVars
<1>1. TypeOK'
  BY DEF TypeOK
<1>2. \A x : Owned(x)' <=> Owned(x)
  BY DEF Owned
<1>3. \A d \in Callers : Committed(d)' <=> Committed(d)
  BY DEF Committed, TypeOK
<1>4. CallersHaveTrx' /\ CallsBegin'
  BY DEF SessionInvariant, CallersHaveTrx, CallsBegin, TypeOK
<1>5. RefsCounted'
  BY <1>2 DEF SessionInvariant, RefsCounted
<1>6. CallersStay' /\ NoLostTransaction'
  BY <1>3 DEF SessionInvariant, CallersStay, NoLostTransaction
<1>7. DisconnectOrder' /\ SignalsCounted' /\ DroppedOK'
  BY DEF SessionInvariant, DisconnectOrder, SignalsCounted, DroppedOK, TypeOK
<1>8. QED
  BY <1>1, <1>4, <1>5, <1>6, <1>7 DEF SessionInvariant

(* IpfTrxMgr_AddTransaction: the caller becomes committed, or is refused. *)
LEMMA AddTransactionStep ==
  ASSUME TypeOK, SessionInvariant, NEW c \in Callers, AddTransaction(c)
  PROVE  TypeOK' /\ SessionInvariant'
<1>1. PICK x \in Trx : x = mine[c]
  BY CallerHasTrx DEF AddTransaction
<1>2. /\ caller[c] = "add"
      /\ UNCHANGED <<nextId, mine, qVars, sockVars, rpcVars, disc, ioVars, srvVars>>
  BY DEF AddTransaction, CallerUnchanged, qVars, sockVars
<1>3. /\ trx[x] \in Transaction /\ trx[x].mem = "live" /\ Owned(x)
      /\ trx[x].ref = (IF x \in pool THEN 2 ELSE 1)
      /\ \A d \in Callers : d # c => mine[d] # x
  BY <1>1, <1>2, CallerHasTrx
<1>4. /\ x \notin pool /\ trx[x].sync = 0 /\ trx[x].response = None /\ trx[x].request
      /\ ~Committed(c) /\ x # held /\ x \notin dropped /\ dropped' = dropped
  <2>1. /\ x \notin pool /\ trx[x].sync = 0 /\ trx[x].response = None /\ trx[x].request
        /\ ~Committed(c) /\ x \notin dropped
    BY <1>1, <1>2 DEF SessionInvariant, CallsBegin, Committed
  <2>2. x # held
    BY <1>3, <2>1 DEF SessionInvariant, CallersStay
  <2>3. dropped' = dropped
    BY <1>2 DEF ioVars
  <2>4. QED
    BY <2>1, <2>2, <2>3
<1>5. \A d \in Callers : d # c /\ caller[d] # "idle" => mine[d] \in Trx /\ mine[d] # x
  BY <1>3, CallerHasTrx
<1>6. CASE /\ pool' = pool \cup {x} /\ trx' = [trx EXCEPT ![x].ref = @ + 1]
           /\ caller' = [caller EXCEPT ![c] = "take"]
  <2>1. PICK r \in Transaction :
          /\ trx' = [trx EXCEPT ![x] = r]
          /\ r.mem = "live" /\ r.ref = 2 /\ r.request /\ r.response = None /\ r.sync = 0
    <3>1. PICK t \in Transaction : t = trx[x] /\ t.ref = 1
      BY <1>3, <1>4
    <3>2. PICK r \in Transaction : r = [t EXCEPT !.ref = 2]
      BY UpdateRecord
    <3>3. /\ r.mem = t.mem /\ r.ref = 2 /\ r.request = t.request
          /\ r.response = t.response /\ r.sync = t.sync
      BY <3>2 DEF Transaction
    <3>4. trx' = [trx EXCEPT ![x] = r]
      BY <1>6, <3>1, <3>2 DEF TypeOK
    <3>5. QED
      BY <1>3, <1>4, <3>1, <3>3, <3>4
  <2>2. /\ RefsCounted' /\ trx' \in [Trx -> Transaction]
        /\ trx'[x] = r /\ \A y \in Trx : y # x => trx'[y] = trx[y]
    <3>1. pool' \subseteq Trx /\ x \in pool' /\ \A y \in Trx : y # x => (y \in pool' <=> y \in pool)
      BY <1>6 DEF TypeOK
    <3>2. QED
      BY <1>2, <1>3, <2>1, <3>1, OneTrxChanged
  <2>3. TypeOK'
    BY <1>2, <1>6, <2>2 DEF TypeOK, qVars, sockVars, rpcVars, ioVars, srvVars
  <2>4. /\ caller'[c] = "take" /\ Committed(c)'
        /\ \A d \in Callers : d # c => caller'[d] = caller[d] /\ (Committed(d)' <=> Committed(d))
    BY <1>6 DEF TypeOK, Committed
  <2>5. CallersHaveTrx'
    BY <1>2, <1>6, <2>4 DEF SessionInvariant, CallersHaveTrx
  <2>6. CallsBegin'
    BY <1>1, <1>2, <1>4, <1>5, <1>6, <2>1, <2>2, <2>4 DEF SessionInvariant, CallsBegin
  <2>7. CallersStay'
    <3>1. \A y : y # x /\ (\E d \in Callers : mine[d] = y /\ Committed(d))
                 => \E d \in Callers : mine'[d] = y /\ Committed(d)'
      BY <1>2, <1>4, <2>4
    <3>2. QED
      BY <1>1, <1>2, <1>4, <1>6, <2>4, <3>1 DEF SessionInvariant, CallersStay, ioVars
  <2>8. NoLostTransaction'
    <3> SUFFICES ASSUME NEW d \in Callers, Committed(d)'
                 PROVE  /\ trx'[mine[d]].response \in {None, mine[d]}
                        /\ mine[d] \in pool' \/ mine[d] = held \/ trx'[mine[d]].sync = 1 \/ mine[d] \in dropped
                        /\ mine[d] \in pool' => ~(mine[d] = held \/ trx'[mine[d]].sync = 1 \/ mine[d] \in dropped)
                        /\ mine[d] = held => ~(trx'[mine[d]].sync = 1 \/ mine[d] \in dropped)
                        /\ ~(trx'[mine[d]].sync = 1 /\ mine[d] \in dropped)
      BY <1>2 DEF NoLostTransaction, ioVars
    <3>1. CASE d = c
      BY <1>1, <1>4, <1>6, <2>1, <2>2, <3>1
    <3>2. CASE d # c
      <4>1. Committed(d) /\ mine[d] # x /\ trx'[mine[d]] = trx[mine[d]]
        BY <1>5, <2>2, <2>4, <3>2 DEF Committed
      <4>2. QED
        BY <1>4, <1>6, <4>1 DEF SessionInvariant, NoLostTransaction
    <3>3. QED
      BY <3>1, <3>2
  <2>9. DisconnectOrder' /\ SignalsCounted'
    BY <1>2, <1>5, <2>2, <2>4 DEF SessionInvariant, DisconnectOrder, SignalsCounted, qVars,
                                  sockVars, rpcVars, ioVars
  <2>10. DroppedOK'
    BY <1>2, <1>4, DroppedKept
  <2>11. QED
    BY <2>2, <2>3, <2>5, <2>6, <2>7, <2>8, <2>9, <2>10 DEF SessionInvariant
<1>7. CASE caller' = [caller EXCEPT ![c] = "finish"] /\ UNCHANGED <<pool, trx>>
  <2>1. TypeOK'
    BY <1>2, <1>7 DEF TypeOK, qVars, sockVars, rpcVars, ioVars, srvVars
  <2>2. /\ caller'[c] = "finish" /\ ~Committed(c)'
        /\ \A d \in Callers : d # c => caller'[d] = caller[d]
        /\ \A d \in Callers : Committed(d)' <=> Committed(d)
    BY <1>2, <1>7 DEF TypeOK, Committed
  <2>3. \A y : Owned(y)' <=> Owned(y)
    BY <1>2 DEF Owned
  <2>4. CallersHaveTrx' /\ CallsBegin'
    BY <1>2, <1>4, <1>7, <2>2 DEF SessionInvariant, CallersHaveTrx, CallsBegin
  <2>5. RefsCounted'
    BY <1>2, <1>7, <2>3 DEF SessionInvariant, RefsCounted
  <2>6. CallersStay' /\ NoLostTransaction'
    BY <1>2, <1>7, <2>2 DEF SessionInvariant, CallersStay, NoLostTransaction, ioVars
  <2>7. DisconnectOrder' /\ SignalsCounted'
    BY <1>2, <1>7, <2>2 DEF SessionInvariant, DisconnectOrder, SignalsCounted, qVars, sockVars,
                            rpcVars, ioVars
  <2>8. DroppedOK'
    BY <1>2, <1>4, DroppedKept
  <2>9. QED
    BY <2>1, <2>4, <2>5, <2>6, <2>7, <2>8 DEF SessionInvariant
<1>8. QED
  BY <1>1, <1>6, <1>7 DEF AddTransaction

(* The caller reads its request; one that finds none has been signalled. *)
LEMMA TakeRequestStep ==
  ASSUME TypeOK, SessionInvariant, NEW c \in Callers, TakeRequest(c)
  PROVE  TypeOK' /\ SessionInvariant'
<1> USE DEF TakeRequest, CallerUnchanged, trxVars, rpcVars, ioVars, srvVars
<1>1. /\ Committed(c) /\ caller'[c] \in {"queue", "finish"}
      /\ Committed(c)' <=> caller'[c] = "queue"
      /\ \A d \in Callers : d # c => caller'[d] = caller[d] /\ (Committed(d)' <=> Committed(d))
  BY DEF Committed, TypeOK
<1>2. caller'[c] = "finish" => mine[c] # held /\ mine[c] \notin pool
  <2>1. caller'[c] = "finish" => ~trx[mine[c]].request
    BY DEF TypeOK
  <2>2. QED
    BY <1>1, <2>1 DEF SessionInvariant, CallsBegin, NoLostTransaction
<1>3. TypeOK'
  <2>1. caller' \in [Callers -> {"idle", "check", "add", "take", "queue", "ring", "wait",
                                "finish"}]
    BY DEF TypeOK
  <2>2. QED
    BY <2>1 DEF TypeOK
<1>4. CallersHaveTrx' /\ CallsBegin'
  BY <1>1 DEF SessionInvariant, CallersHaveTrx, CallsBegin
<1>5. RefsCounted'
  BY DEF SessionInvariant, RefsCounted, Owned
<1>6. CallersStay'
  <2>1. \A y : (y # mine[c] \/ caller'[c] = "queue")
               /\ (\E d \in Callers : mine[d] = y /\ Committed(d))
               => \E d \in Callers : mine'[d] = y /\ Committed(d)'
    BY <1>1
  <2>2. QED
    BY <1>1, <1>2, <2>1 DEF SessionInvariant, CallersStay
<1>7. NoLostTransaction'
  BY <1>1 DEF SessionInvariant, NoLostTransaction
<1>8. DisconnectOrder' /\ SignalsCounted' /\ DroppedOK'
  BY <1>1 DEF SessionInvariant, DisconnectOrder, SignalsCounted, DroppedOK
<1>9. QED
  BY <1>3, <1>4, <1>5, <1>6, <1>7, <1>8 DEF SessionInvariant

(* The request is handed to the send queue; a caller gives up here only when *)
(* the I/O thread has ended.                                                 *)
LEMMA QueueRequestStep ==
  ASSUME TypeOK, SessionInvariant, NEW c \in Callers, QueueRequest(c)
  PROVE  TypeOK' /\ SessionInvariant'
<1>1. PICK x \in Trx : x = mine[c]
  BY CallerHasTrx DEF QueueRequest
<1>2. /\ caller[c] = "queue" /\ Committed(c)
      /\ UNCHANGED <<nextId, pool, mine, recv, queues, sockVars, rpcVars, disc, ioVars, srvVars>>
  BY DEF QueueRequest, CallerUnchanged, sockVars, Committed
<1>3. /\ trx[x] \in Transaction /\ trx[x].mem = "live" /\ Owned(x)
      /\ trx[x].ref = (IF x \in pool THEN 2 ELSE 1)
      /\ \A d \in Callers : d # c /\ caller[d] # "idle" => mine[d] \in Trx /\ mine[d] # x
  BY <1>1, <1>2, CallerHasTrx
<1>4. PICK r \in Transaction :
        /\ trx' = [trx EXCEPT ![x] = r]
        /\ r.mem = "live" /\ r.ref = trx[x].ref /\ r.response = trx[x].response
        /\ r.sync = trx[x].sync
  <2>1. PICK t \in Transaction : t = trx[x]
    BY <1>3
  <2>2. PICK r \in Transaction : r = [t EXCEPT !.request = FALSE]
    BY UpdateRecord
  <2>3. r.mem = t.mem /\ r.ref = t.ref /\ r.response = t.response /\ r.sync = t.sync
    BY <2>2 DEF Transaction
  <2>4. trx' = [trx EXCEPT ![x] = r]
    BY <1>1, <2>1, <2>2 DEF QueueRequest, TypeOK
  <2>5. QED
    BY <1>3, <2>1, <2>3, <2>4
<1>5. /\ RefsCounted' /\ trx' \in [Trx -> Transaction]
      /\ trx'[x] = r /\ \A y \in Trx : y # x => trx'[y] = trx[y]
  <2>1. pool' \subseteq Trx /\ x \in pool' => r.sync = 0
    BY <1>2, <1>4 DEF TypeOK, SessionInvariant, RefsCounted
  <2>2. pool' \subseteq Trx /\ \A y \in Trx : y # x => (y \in pool' <=> y \in pool)
    BY <1>2 DEF TypeOK
  <2>3. r.ref = IF x \in pool' THEN 2 ELSE 1
    BY <1>2, <1>3, <1>4
  <2>4. QED
    BY <1>2, <1>3, <1>4, <2>1, <2>2, <2>3, OneTrxChanged
<1>6. /\ caller' = [caller EXCEPT ![c] = caller'[c]] /\ caller'[c] \in {"ring", "finish"}
      /\ \A d \in Callers : d # c => caller'[d] = caller[d]
  BY DEF QueueRequest, TypeOK
<1>7. TypeOK'
  <2>1. send' \in Seq(Trx \cup {None})
    BY <1>1 DEF QueueRequest, TypeOK
  <2>2. caller' \in [Callers -> {"idle", "check", "add", "take", "queue", "ring", "wait",
                                "finish"}]
    BY <1>6 DEF TypeOK
  <2>3. QED
    BY <1>2, <1>5, <2>1, <2>2 DEF TypeOK, sockVars, rpcVars, ioVars, srvVars
<1>8. caller'[c] = "finish" => x # held /\ io = "done"
  <2>1. caller'[c] = "finish" => queues = "destroyed"
    BY DEF QueueRequest, TypeOK
  <2>2. queues = "destroyed" => io = "done"
    BY DEF SessionInvariant, DisconnectOrder
  <2>3. io = "done" => held = None
    BY DEF SessionInvariant, CallersStay
  <2>4. QED
    BY <2>1, <2>2, <2>3
<1>9. /\ Committed(c)' <=> caller'[c] = "ring"
      /\ \A d \in Callers : d # c => (Committed(d)' <=> Committed(d))
  BY <1>6 DEF Committed
<1>10. CallersHaveTrx'
  BY <1>2, <1>6 DEF SessionInvariant, CallersHaveTrx
<1>11. CallsBegin'
  BY <1>2, <1>3, <1>5, <1>6 DEF SessionInvariant, CallsBegin, ioVars
<1>12. CallersStay'
  <2>1. \A y : (y # x \/ caller'[c] = "ring") /\ (\E d \in Callers : mine[d] = y /\ Committed(d))
               => \E d \in Callers : mine'[d] = y /\ Committed(d)'
    BY <1>1, <1>2, <1>9
  <2>2. QED
    BY <1>2, <1>6, <1>8, <2>1 DEF SessionInvariant, CallersStay, ioVars
<1>13. NoLostTransaction'
  <2> SUFFICES ASSUME NEW d \in Callers, Committed(d)'
               PROVE  /\ trx'[mine[d]].response \in {None, mine[d]}
                      /\ mine[d] \in pool \/ mine[d] = held \/ trx'[mine[d]].sync = 1 \/ mine[d] \in dropped
                      /\ mine[d] \in pool => ~(mine[d] = held \/ trx'[mine[d]].sync = 1 \/ mine[d] \in dropped)
                      /\ mine[d] = held => ~(trx'[mine[d]].sync = 1 \/ mine[d] \in dropped)
                      /\ ~(trx'[mine[d]].sync = 1 /\ mine[d] \in dropped)
    BY <1>2 DEF NoLostTransaction, ioVars
  <2>1. Committed(d) /\ trx'[mine[d]].response = trx[mine[d]].response
        /\ trx'[mine[d]].sync = trx[mine[d]].sync
    <3>1. CASE d = c
      BY <1>1, <1>2, <1>4, <1>5, <3>1
    <3>2. CASE d # c
      BY <1>3, <1>5, <1>9, <3>2 DEF Committed
    <3>3. QED
      BY <3>1, <3>2
  <2>2. QED
    BY <2>1 DEF SessionInvariant, NoLostTransaction
<1>14. DisconnectOrder' /\ SignalsCounted'
  BY <1>2, <1>3, <1>5, <1>6 DEF SessionInvariant, DisconnectOrder, SignalsCounted, sockVars,
                                rpcVars, ioVars
<1>15. DroppedOK'
  BY <1>2, DroppedKept DEF ioVars
<1>16. QED
  BY <1>5, <1>7, <1>10, <1>11, <1>12, <1>13, <1>14, <1>15 DEF SessionInvariant

(* The doorbell; a caller that finds it closed gives up, which is after the  *)
(* I/O thread has ended.                                                     *)
LEMMA RingStep ==
  ASSUME TypeOK, SessionInvariant, NEW c \in Callers, Ring(c)
  PROVE  TypeOK' /\ SessionInvariant'
<1> USE DEF Ring, CallerUnchanged, trxVars, rpcVars, ioVars, srvVars
<1>1. TypeOK'
  BY DEF TypeOK, PressBell
<1>2. \A x : Owned(x)' <=> Owned(x)
  BY DEF Owned
<1>3. \A d \in Callers : d # c => (Committed(d)' <=> Committed(d))
  BY DEF Committed, TypeOK
<1>a. Committed(c) /\ (bellOpen => Committed(c)')
  BY DEF Committed, TypeOK
<1>4. CallersHaveTrx' /\ CallsBegin'
  BY DEF SessionInvariant, CallersHaveTrx, CallsBegin, TypeOK
<1>5. RefsCounted'
  BY <1>2 DEF SessionInvariant, RefsCounted
<1>b. ~bellOpen => io = "done" /\ held = None
  BY DEF SessionInvariant, DisconnectOrder, CallersStay, TypeOK
<1>6. CallersStay' /\ NoLostTransaction'
  BY <1>3, <1>a, <1>b DEF SessionInvariant, CallersStay, NoLostTransaction
<1>7. DisconnectOrder' /\ SignalsCounted' /\ DroppedOK'
  BY DEF SessionInvariant, DisconnectOrder, SignalsCounted, DroppedOK, TypeOK
<1>8. QED
  BY <1>1, <1>4, <1>5, <1>6, <1>7 DEF SessionInvariant

(* The caller takes its signal. *)
LEMMA WaitStep ==
  ASSUME TypeOK, SessionInvariant, NEW c \in Callers, Wait(c)
  PROVE  TypeOK' /\ SessionInvariant'
<1>1. PICK x \in Trx : x = mine[c]
  BY CallerHasTrx DEF Wait
<1>2. /\ caller[c] = "wait" /\ Committed(c) /\ caller' = [caller EXCEPT ![c] = "finish"]
      /\ UNCHANGED <<nextId, pool, mine, qVars, sockVars, rpcVars, disc, ioVars, srvVars>>
  BY DEF Wait, CallerUnchanged, qVars, sockVars, Committed
<1>3. /\ trx[x] \in Transaction /\ trx[x].mem = "live" /\ Owned(x)
      /\ trx[x].ref = (IF x \in pool THEN 2 ELSE 1)
      /\ \A d \in Callers : d # c /\ caller[d] # "idle" => mine[d] \in Trx /\ mine[d] # x
  BY <1>1, <1>2, CallerHasTrx
<1>4. trx[x].sync = 1 /\ x \notin pool /\ x # held
  <2>1. trx[x].sync = 1
    BY <1>1, <1>3 DEF Wait, Transaction
  <2>2. QED
    BY <1>1, <1>2, <2>1 DEF SessionInvariant, NoLostTransaction
<1>5. PICK r \in Transaction :
        trx' = [trx EXCEPT ![x] = r] /\ r.mem = "live" /\ r.ref = 1 /\ r.sync = 0
  <2>1. PICK t \in Transaction : t = trx[x] /\ t.mem = "live" /\ t.ref = 1 /\ t.sync = 1
    BY <1>3, <1>4
  <2>2. PICK r \in Transaction : r = [t EXCEPT !.sync = 0]
    BY UpdateRecord
  <2>3. r.mem = t.mem /\ r.ref = t.ref /\ r.sync = 0
    BY <2>2 DEF Transaction
  <2>4. trx' = [trx EXCEPT ![x] = r]
    BY <1>1, <2>1, <2>2 DEF Wait, TypeOK
  <2>5. QED
    BY <2>1, <2>3, <2>4
<1>6. /\ RefsCounted' /\ trx' \in [Trx -> Transaction]
      /\ trx'[x] = r /\ \A y \in Trx : y # x => trx'[y] = trx[y]
  <2>1. /\ pool' \subseteq Trx /\ x \notin pool'
        /\ \A y \in Trx : y # x => (y \in pool' <=> y \in pool)
    BY <1>2, <1>4 DEF TypeOK
  <2>2. QED
    BY <1>2, <1>3, <1>5, <2>1, OneTrxChanged
<1>7. TypeOK'
  BY <1>2, <1>6 DEF TypeOK, qVars, sockVars, rpcVars, ioVars, srvVars
<1>8. /\ caller'[c] = "finish" /\ ~Committed(c)'
      /\ \A d \in Callers : d # c => caller'[d] = caller[d] /\ (Committed(d)' <=> Committed(d))
  BY <1>2 DEF Committed, TypeOK
<1>9. CallersHaveTrx'
  BY <1>2, <1>8 DEF SessionInvariant, CallersHaveTrx
<1>10. CallsBegin'
  BY <1>2, <1>3, <1>6, <1>8 DEF SessionInvariant, CallsBegin, ioVars
<1>11. CallersStay'
  <2>1. \A y : y # x /\ (\E d \in Callers : mine[d] = y /\ Committed(d))
               => \E d \in Callers : mine'[d] = y /\ Committed(d)'
    BY <1>1, <1>2, <1>8
  <2>2. QED
    BY <1>2, <1>4, <2>1 DEF SessionInvariant, CallersStay, ioVars
<1>12. NoLostTransaction'
  <2> SUFFICES ASSUME NEW d \in Callers, Committed(d)'
               PROVE  /\ trx'[mine[d]].response \in {None, mine[d]}
                      /\ mine[d] \in pool \/ mine[d] = held \/ trx'[mine[d]].sync = 1 \/ mine[d] \in dropped
                      /\ mine[d] \in pool => ~(mine[d] = held \/ trx'[mine[d]].sync = 1 \/ mine[d] \in dropped)
                      /\ mine[d] = held => ~(trx'[mine[d]].sync = 1 \/ mine[d] \in dropped)
                      /\ ~(trx'[mine[d]].sync = 1 /\ mine[d] \in dropped)
    BY <1>2 DEF NoLostTransaction, ioVars
  <2>1. Committed(d) /\ trx'[mine[d]] = trx[mine[d]]
    BY <1>3, <1>6, <1>8 DEF Committed
  <2>2. QED
    BY <2>1 DEF SessionInvariant, NoLostTransaction
<1>13. DisconnectOrder' /\ SignalsCounted'
  BY <1>2, <1>3, <1>6, <1>8 DEF SessionInvariant, DisconnectOrder, SignalsCounted, qVars,
                                sockVars, rpcVars, ioVars
<1>14. DroppedOK'
  BY <1>2, DroppedKept DEF ioVars
<1>15. QED
  BY <1>6, <1>7, <1>9, <1>10, <1>11, <1>12, <1>13, <1>14 DEF SessionInvariant

(* The caller releases its reference; the transaction survives only in the   *)
(* pool.                                                                     *)
LEMMA FinishStep ==
  ASSUME TypeOK, SessionInvariant, NEW c \in Callers, Finish(c)
  PROVE  TypeOK' /\ SessionInvariant'
<1>1. PICK x \in Trx : x = mine[c]
  BY CallerHasTrx DEF Finish
<1>2. /\ caller[c] = "finish" /\ ~Committed(c)
      /\ caller' = [caller EXCEPT ![c] = "idle"] /\ mine' = [mine EXCEPT ![c] = None]
      /\ UNCHANGED <<nextId, pool, qVars, sockVars, rpcVars, disc, ioVars, srvVars>>
  BY DEF Finish, CallerUnchanged, qVars, sockVars, Committed
<1>3. /\ trx[x] \in Transaction /\ trx[x].mem = "live" /\ Owned(x)
      /\ trx[x].ref = (IF x \in pool THEN 2 ELSE 1)
      /\ \A d \in Callers : d # c => mine[d] # x
      /\ \A d \in Callers : caller[d] # "idle" => mine[d] \in Trx
  BY <1>1, <1>2, CallerHasTrx
<1>4. /\ caller'[c] = "idle" /\ mine'[c] = None /\ ~Committed(c)'
      /\ \A d \in Callers : d # c => /\ caller'[d] = caller[d] /\ mine'[d] = mine[d]
                                     /\ Committed(d)' <=> Committed(d)
  BY <1>2 DEF Committed, TypeOK
<1>5. PICK r \in Transaction :
        /\ trx' = [trx EXCEPT ![x] = r]
        /\ x \in pool => r.mem = "live" /\ r.ref = 1 /\ r.sync = 0
        /\ x \notin pool => r.mem = "freed"
  <2>1. PICK r : r = PutRef(trx[x])
    OBVIOUS
  <2>2. /\ r \in Transaction
        /\ trx[x].ref = 1 => r.mem = "freed"
        /\ trx[x].ref = 2 => r.ref = 1 /\ r.mem = trx[x].mem /\ r.sync = trx[x].sync
    BY <1>3, <2>1, PutRefRecord
  <2>3. x \in pool => trx[x].sync = 0
    BY DEF SessionInvariant, RefsCounted
  <2>4. trx' = [trx EXCEPT ![x] = r]
    BY <1>1, <2>1 DEF Finish, TypeOK
  <2>5. QED
    BY <1>3, <2>2, <2>3, <2>4
<1>6. /\ trx' \in [Trx -> Transaction] /\ trx'[x] = r
      /\ \A y \in Trx : y # x => trx'[y] = trx[y]
  BY <1>5 DEF TypeOK
<1>7. TypeOK'
  BY <1>2, <1>6 DEF TypeOK, qVars, sockVars, rpcVars, ioVars, srvVars
<1>8. \A y \in Trx : Owned(y)' <=> (y # x /\ Owned(y))
  <2> SUFFICES ASSUME NEW y \in Trx
               PROVE  (\E d \in Callers : mine'[d] = y) <=> y # x /\ \E d \in Callers : mine[d] = y
    BY DEF Owned
  <2>1. y # None
    OBVIOUS
  <2>2. QED
    BY <1>1, <1>3, <1>4, <2>1
<1>9. CallersHaveTrx'
  BY <1>2, <1>4 DEF SessionInvariant, CallersHaveTrx
<1>10. RefsCounted'
  <2> SUFFICES ASSUME NEW y \in Trx
               PROVE  /\ y >= nextId => trx'[y] = Unused
                      /\ trx'[y].mem = "live" <=> y \in pool \/ (y # x /\ Owned(y))
                      /\ trx'[y].mem = "live" =>
                           trx'[y].ref = (IF y \in pool THEN 1 ELSE 0)
                                         + (IF (y # x /\ Owned(y)) THEN 1 ELSE 0)
                      /\ y \in pool => trx'[y].sync = 0
    BY <1>2, <1>8 DEF RefsCounted
  <2>1. CASE y = x
    <3>1. ~(x >= nextId)
      BY <1>3 DEF SessionInvariant, RefsCounted, Unused
    <3>2. QED
      BY <1>5, <1>6, <2>1, <3>1
  <2>2. CASE y # x
    BY <1>6, <2>2 DEF SessionInvariant, RefsCounted
  <2>3. QED
    BY <2>1, <2>2
<1>11. ASSUME NEW d \in Callers, d # c, caller[d] # "idle"
       PROVE  trx'[mine'[d]] = trx[mine[d]] /\ mine'[d] = mine[d]
  BY <1>3, <1>4, <1>6, <1>11
<1>12. CallsBegin'
  BY <1>2, <1>4, <1>11 DEF SessionInvariant, CallsBegin, ioVars
<1>13. CallersStay'
  <2>1. \A y : (\E d \in Callers : mine[d] = y /\ Committed(d))
               => \E d \in Callers : mine'[d] = y /\ Committed(d)'
    BY <1>2, <1>4
  <2>2. QED
    BY <1>2, <2>1 DEF SessionInvariant, CallersStay, ioVars
<1>14. NoLostTransaction'
  <2> SUFFICES ASSUME NEW d \in Callers, Committed(d), d # c
               PROVE  LET y == mine'[d] IN
                      /\ trx'[y].response \in {None, y}
                      /\ y \in pool \/ y = held \/ trx'[y].sync = 1 \/ y \in dropped
                      /\ y \in pool => ~(y = held \/ trx'[y].sync = 1 \/ y \in dropped)
                      /\ y = held => ~(trx'[y].sync = 1 \/ y \in dropped)
                      /\ ~(trx'[y].sync = 1 /\ y \in dropped)
    BY <1>2, <1>4 DEF NoLostTransaction, ioVars
  <2>1. trx'[mine'[d]] = trx[mine[d]] /\ mine'[d] = mine[d]
    BY <1>11 DEF Committed
  <2>2. QED
    BY <2>1 DEF SessionInvariant, NoLostTransaction
<1>15. DisconnectOrder' /\ SignalsCounted'
  BY <1>2, <1>4, <1>11 DEF SessionInvariant, DisconnectOrder, SignalsCounted, qVars, sockVars,
                           rpcVars, ioVars
<1>16. DroppedOK'
  BY <1>2, DroppedKept DEF ioVars
<1>17. QED
  BY <1>7, <1>9, <1>10, <1>12, <1>13, <1>14, <1>15, <1>16 DEF SessionInvariant

(* The clock changes nothing but the timestamp. *)
LEMMA AgeStep ==
  ASSUME TypeOK, SessionInvariant, NEW x \in Trx, Age(x)
  PROVE  TypeOK' /\ SessionInvariant'
<1>1. PICK r \in Transaction :
        /\ trx' = [trx EXCEPT ![x] = r]
        /\ r.mem = trx[x].mem /\ r.ref = trx[x].ref /\ r.request = trx[x].request
        /\ r.response = trx[x].response /\ r.sync = trx[x].sync
  <2>1. PICK t \in Transaction : t = trx[x]
    BY DEF TypeOK
  <2>2. PICK r \in Transaction : r = [t EXCEPT !.due = TRUE]
    BY UpdateRecord
  <2>3. /\ r.mem = t.mem /\ r.ref = t.ref /\ r.request = t.request
        /\ r.response = t.response /\ r.sync = t.sync
    BY <2>2 DEF Transaction
  <2>4. trx' = [trx EXCEPT ![x] = r]
    BY <2>1, <2>2 DEF Age, TypeOK
  <2>5. QED
    BY <2>1, <2>3, <2>4
<1>2. UNCHANGED <<nextId, pool, callVars, qVars, sockVars, rpcVars, disc, ioVars, srvVars>>
  BY DEF Age
<1>3. /\ trx' \in [Trx -> Transaction] /\ x \in pool
      /\ \A y \in Trx : /\ trx'[y].mem = trx[y].mem /\ trx'[y].ref = trx[y].ref
                        /\ trx'[y].request = trx[y].request
                        /\ trx'[y].response = trx[y].response /\ trx'[y].sync = trx[y].sync
      /\ \A y \in Trx : y # x => trx'[y] = trx[y]
  <2>1. /\ trx' \in [Trx -> Transaction] /\ trx'[x] = r
        /\ \A y \in Trx : y # x => trx'[y] = trx[y]
    BY <1>1 DEF TypeOK
  <2>2. x \in pool
    BY DEF Age
  <2>3. QED
    BY <1>1, <2>1, <2>2
<1>4. TypeOK'
  BY <1>2, <1>3 DEF TypeOK, callVars, qVars, sockVars, rpcVars, ioVars, srvVars
<1>5. \A c \in Callers : caller[c] # "idle" => mine[c] \in Trx
  BY CallerHasTrx
<1>6. (\A y : Owned(y)' <=> Owned(y)) /\ (\A c \in Callers : Committed(c)' <=> Committed(c))
  BY <1>2 DEF Owned, Committed, callVars
<1>7. CallersHaveTrx' /\ CallersStay'
  BY <1>2, <1>6 DEF SessionInvariant, CallersHaveTrx, CallersStay, callVars, ioVars
<1>8. RefsCounted'
  <2>1. trx[x] # Unused
    BY <1>3 DEF SessionInvariant, RefsCounted, Unused
  <2>2. QED
    BY <1>2, <1>3, <1>6, <2>1 DEF SessionInvariant, RefsCounted
<1>9. CallsBegin'
  BY <1>2, <1>3, <1>5 DEF SessionInvariant, CallsBegin, callVars, ioVars
<1>10. NoLostTransaction'
  <2>1. \A c \in Callers : Committed(c) => mine[c] \in Trx
    BY <1>5 DEF Committed
  <2>2. QED
    BY <1>2, <1>3, <1>6, <2>1 DEF SessionInvariant, NoLostTransaction, callVars, ioVars
<1>11. DisconnectOrder' /\ SignalsCounted'
  BY <1>2, <1>3, <1>5 DEF SessionInvariant, DisconnectOrder, SignalsCounted, callVars, qVars,
                          sockVars, rpcVars, ioVars
<1>12. DroppedOK'
  BY <1>2, DroppedKept DEF ioVars
<1>13. QED
  BY <1>4, <1>7, <1>8, <1>9, <1>10, <1>11, <1>12 DEF SessionInvariant

-----------------------------------------------------------------------------
(* The I/O thread. *)

(* The select timeout. *)
LEMMA IoTopStep ==
  ASSUME TypeOK, SessionInvariant, IoTop
  PROVE  TypeOK' /\ SessionInvariant'
<1>1. TypeOK'
  <2>1. watch' \subseteq Trx /\ io' = "select"
    BY DEF IoTop, TypeOK
  <2>2. UNCHANGED <<trxVars, callVars, qVars, sockVars, rpcVars, disc, held, readable, dropped, srvVars>>
    BY DEF IoTop, IoUnchanged, trxVars, callVars, qVars, sockVars, rpcVars, srvVars
  <2>3. QED
    BY <2>1, <2>2 DEF TypeOK, trxVars, callVars, qVars, sockVars, rpcVars, srvVars
<1>2. /\ CallersHaveTrx' /\ RefsCounted' /\ CallsBegin' /\ CallersStay'
      /\ NoLostTransaction' /\ DroppedOK'
  BY TransactionsUntouched DEF IoTop, IoUnchanged, callVars, srvVars
<1>3. DisconnectOrder' /\ SignalsCounted'
  BY DEF IoTop, IoUnchanged, callVars, srvVars, TypeOK, SessionInvariant, DisconnectOrder,
     SignalsCounted
<1>4. QED
  BY <1>1, <1>2, <1>3 DEF SessionInvariant

(* select() ran out of time. *)
LEMMA IoTimeoutStep ==
  ASSUME TypeOK, SessionInvariant, IoTimeout
  PROVE  TypeOK' /\ SessionInvariant'
<1>1. PICK S \in SUBSET pool : Expire(S)
  BY DEF IoTimeout, ExpireInactive
<1>2. pool' \subseteq Trx /\ trx' \in [Trx -> Transaction]
  BY <1>1, ExpireEffect DEF SessionInvariant
<1>3. TypeOK'
  BY <1>2 DEF TypeOK, IoTimeout, IoUnchanged, callVars, srvVars
<1>4. SessionInvariant'
  BY <1>1, ExpireActions DEF IoTimeout, IoUnchanged, callVars, srvVars
<1>5. QED
  BY <1>3, <1>4

(* select() found something. *)
LEMMA IoWakeStep ==
  ASSUME TypeOK, SessionInvariant, IoWake
  PROVE  TypeOK' /\ SessionInvariant'
<1>1. TypeOK'
  <2>1. /\ watch' \subseteq Trx /\ io' \in {"close", "drain"} /\ readable' \in BOOLEAN
        /\ bell' \in Seq({"message", "quit"})
    BY DEF IoWake, SocketReadable, TypeOK
  <2>2. UNCHANGED <<trxVars, callVars, qVars, bellOpen, sockOpen, rpcVars, disc, held, dropped, srvVars>>
    BY DEF IoWake, IoUnchanged, trxVars, callVars, qVars, rpcVars, srvVars
  <2>3. QED
    BY <2>1, <2>2 DEF TypeOK, trxVars, callVars, qVars, rpcVars, srvVars
<1>2. /\ CallersHaveTrx' /\ RefsCounted' /\ CallsBegin' /\ CallersStay'
      /\ NoLostTransaction' /\ DroppedOK'
  BY TransactionsUntouched DEF IoWake, IoUnchanged, callVars, srvVars
<1>3. DisconnectOrder' /\ SignalsCounted'
  BY DEF IoWake, IoUnchanged, callVars, srvVars, TypeOK, SessionInvariant, DisconnectOrder,
     SignalsCounted
<1>4. QED
  BY <1>1, <1>2, <1>3 DEF SessionInvariant

(* One message is sent or lost. *)
LEMMA IoSendStep ==
  ASSUME TypeOK, SessionInvariant, IoSend
  PROVE  TypeOK' /\ SessionInvariant'
<1>1. /\ io = "drain" /\ io' \in {"drain", "recv", "top"} /\ readable' \in BOOLEAN
      /\ send # <<>> /\ send' = Tail(send)
      /\ asked' \subseteq asked \cup ({Head(send)} \ {None})
      /\ UNCHANGED <<trxVars, callVars, recv, queues, sockVars, rpcVars, disc, watch, held,
                     dropped, peer, incoming>>
  BY DEF IoSend, Sending, IoUnchanged, trxVars, callVars, sockVars, rpcVars, TypeOK
<1>2. Head(send) \in Trx \cup {None} /\ send' \in Seq(Trx \cup {None})
  BY <1>1, TailType DEF TypeOK
<1>3. TypeOK'
  BY <1>1, <1>2 DEF TypeOK, trxVars, callVars, sockVars, rpcVars
<1>4. /\ CallersHaveTrx' /\ RefsCounted' /\ CallsBegin' /\ CallersStay'
      /\ NoLostTransaction' /\ DroppedOK'
  BY <1>1, TransactionsUntouched DEF trxVars, callVars
<1>5. DisconnectOrder' /\ SignalsCounted'
  BY <1>1 DEF trxVars, callVars, sockVars, rpcVars, TypeOK, SessionInvariant, DisconnectOrder,
              SignalsCounted
<1>6. QED
  BY <1>3, <1>4, <1>5 DEF SessionInvariant

(* There is nothing more to send. *)
LEMMA IoDrainStep ==
  ASSUME TypeOK, SessionInvariant, IoDrain
  PROVE  TypeOK' /\ SessionInvariant'
<1>1. TypeOK'
  <2>1. /\ io' \in {"recv", "top"} /\ readable' \in BOOLEAN
        /\ watch' \subseteq Trx /\ held' \in Trx \cup {None} /\ dropped' \subseteq Trx
    BY DEF IoDrain, IoUnchanged, TypeOK
  <2>2. UNCHANGED <<trxVars, callVars, qVars, sockVars, rpcVars, disc, srvVars>>
    BY DEF IoDrain, IoUnchanged, trxVars, callVars, qVars, sockVars, rpcVars, srvVars
  <2>3. QED
    BY <2>1, <2>2 DEF TypeOK, trxVars, callVars, qVars, sockVars, rpcVars, srvVars
<1>2. /\ CallersHaveTrx' /\ RefsCounted' /\ CallsBegin' /\ CallersStay'
      /\ NoLostTransaction' /\ DroppedOK'
  BY TransactionsUntouched DEF IoDrain, IoUnchanged, callVars, srvVars
<1>3. DisconnectOrder' /\ SignalsCounted'
  BY DEF IoDrain, IoUnchanged, callVars, srvVars, TypeOK, SessionInvariant, DisconnectOrder,
     SignalsCounted
<1>4. QED
  BY <1>1, <1>2, <1>3 DEF SessionInvariant

(* End of the connection. *)
LEMMA IoEofStep ==
  ASSUME TypeOK, SessionInvariant, IoEof
  PROVE  TypeOK' /\ SessionInvariant'
<1>1. TypeOK'
  BY DEF IoEof, IoUnchanged, callVars, srvVars, TypeOK
<1>2. /\ CallersHaveTrx' /\ RefsCounted' /\ CallsBegin' /\ CallersStay'
      /\ NoLostTransaction' /\ DroppedOK'
  BY TransactionsUntouched DEF IoEof, IoUnchanged, callVars, srvVars
<1>3. DisconnectOrder' /\ SignalsCounted'
  BY DEF IoEof, IoUnchanged, callVars, srvVars, TypeOK, SessionInvariant, DisconnectOrder,
     SignalsCounted
<1>4. QED
  BY <1>1, <1>2, <1>3 DEF SessionInvariant

(* A request is counted twice, in the queue and in the semaphore; an answer  *)
(* takes its transaction from the pool into the hand of the I/O thread.      *)
LEMMA IoReceiveStep ==
  ASSUME TypeOK, SessionInvariant, IoReceive
  PROVE  TypeOK' /\ SessionInvariant'
<1>1. /\ io = "recv" /\ inbound # <<>>
      /\ UNCHANGED <<nextId, callVars, send, queues, sockVars, rpc, disc, watch, readable,
                     dropped, peer, asked, incoming>>
  BY DEF IoReceive, IoUnchanged, sockVars, callVars
<1>2. /\ held = None /\ disc \in {"idle", "joinIo"} /\ queues = "active"
      /\ rpc \in {"wait", "handle", "reply"}
  <2>1. held = None /\ disc \in {"idle", "joinIo"}
    BY <1>1 DEF SessionInvariant, CallersStay, DisconnectOrder, TypeOK
  <2>2. queues = "active"
    BY <2>1 DEF SessionInvariant, DisconnectOrder
  <2>3. QED
    BY <1>1, <2>1, <2>2 DEF SessionInvariant, SignalsCounted
<1>3. ASSUME UNCHANGED <<trx, pool, held>>, io' \in {"frame", "bye"},
             \/ UNCHANGED <<recv, rpcSignal>>
             \/ recv' = recv + 1 /\ rpcSignal' = rpcSignal + 1
      PROVE  TypeOK' /\ SessionInvariant'
  <2>1. TypeOK'
    BY <1>1, <1>3 DEF TypeOK, callVars, sockVars
  <2>2. /\ CallersHaveTrx' /\ RefsCounted' /\ CallsBegin' /\ CallersStay'
        /\ NoLostTransaction' /\ DroppedOK'
    BY <1>1, <1>3, TransactionsUntouched DEF callVars
  <2>3. DisconnectOrder' /\ SignalsCounted'
    BY <1>1, <1>2, <1>3 DEF SessionInvariant, DisconnectOrder, SignalsCounted, TypeOK, callVars,
                            sockVars
  <2>4. QED
    BY <2>1, <2>2, <2>3 DEF SessionInvariant
<1>4. CASE ReceiveRequest
  BY <1>3, <1>4 DEF ReceiveRequest
<1>5. CASE ReceiveBye
  BY <1>3, <1>5 DEF ReceiveBye
<1>6. CASE ReceiveAnswer
  <2>1. UNCHANGED <<recv, rpcSignal>>
    BY <1>6 DEF ReceiveAnswer
  <2>2. CASE io' = "frame" /\ UNCHANGED <<trx, pool, held>>
    BY <1>3, <2>1, <2>2
  <2>3. CASE \E y \in pool : /\ pool' = pool \ {y} /\ held' = y /\ io' = "got"
                             /\ trx' = [trx EXCEPT ![y] = Leave([@ EXCEPT !.response = y])]
    <3>1. PICK y \in pool : /\ pool' = pool \ {y} /\ held' = y /\ io' = "got"
                            /\ trx' = [trx EXCEPT ![y] = Leave([@ EXCEPT !.response = y])]
      BY <2>3
    <3>2. PICK c \in Callers : mine[c] = y /\ Committed(c)
      BY <1>1 DEF SessionInvariant, CallersStay
    <3>3. /\ y \in Trx /\ trx[y] \in Transaction /\ trx[y].mem = "live" /\ Owned(y)
          /\ trx[y].ref = 2 /\ trx[y].sync = 0
          /\ \A d \in Callers : d # c => mine[d] # y
          /\ \A d \in Callers : caller[d] # "idle" => mine[d] \in Trx
      BY <3>2, CallerHasTrx DEF Committed, SessionInvariant, RefsCounted, TypeOK
    <3>4. PICK r \in Transaction :
            /\ trx' = [trx EXCEPT ![y] = r]
            /\ r.mem = "live" /\ r.ref = 1 /\ r.sync = 0 /\ r.response = y
            /\ r.request = trx[y].request
      <4>1. PICK t \in Transaction : t = [trx[y] EXCEPT !.response = y]
        BY <3>3 DEF Transaction
      <4>2. /\ t.ref = 2 /\ t.mem = "live" /\ t.sync = 0 /\ t.response = y
            /\ t.request = trx[y].request
        BY <3>3, <4>1 DEF Transaction
      <4>3. trx' = [trx EXCEPT ![y] = Leave(t)]
        BY <3>1, <3>3, <4>1 DEF TypeOK
      <4>4. /\ Leave(t) \in Transaction /\ Leave(t).mem = "live" /\ Leave(t).ref = 1
            /\ Leave(t).sync = 0 /\ Leave(t).response = y /\ Leave(t).request = trx[y].request
        BY <4>2, LeaveRecord
      <4>5. QED
        BY <4>3, <4>4
    <3>5. /\ RefsCounted' /\ trx' \in [Trx -> Transaction]
          /\ trx'[y] = r /\ \A z \in Trx : z # y => trx'[z] = trx[z]
      <4>1. /\ pool' \subseteq Trx /\ y \notin pool'
            /\ \A z \in Trx : z # y => (z \in pool' <=> z \in pool)
        BY <3>1 DEF TypeOK
      <4>2. UNCHANGED <<nextId, mine>>
        BY <1>1 DEF callVars
      <4>3. QED
        BY <3>3, <3>4, <4>1, <4>2, OneTrxChanged
    <3>6. TypeOK'
      <4>1. pool' \subseteq Trx /\ held' \in Trx
        BY <3>1, <3>3 DEF TypeOK
      <4>2. QED
        BY <1>1, <2>1, <3>1, <3>5, <4>1 DEF TypeOK, callVars, sockVars
    <3>7. \A d \in Callers : Committed(d)' <=> Committed(d)
      BY <1>1 DEF Committed, callVars
    <3>8. \A d \in Callers : d # c /\ caller[d] # "idle" => trx'[mine[d]] = trx[mine[d]]
      BY <3>3, <3>5
    <3>9. CallersHaveTrx' /\ CallersStay'
      <4>1. y # None
        BY <3>3
      <4>2. QED
        BY <1>1, <3>1, <3>2, <3>7, <4>1 DEF SessionInvariant, CallersHaveTrx, CallersStay,
           callVars
    <3>10. CallsBegin'
      <4> SUFFICES ASSUME NEW d \in Callers
                   PROVE  /\ caller[d] \in {"check", "add"} =>
                               mine[d] \notin pool' \cup dropped /\ trx'[mine[d]].sync = 0
                               /\ trx'[mine[d]].response = None /\ trx'[mine[d]].request
                          /\ caller[d] = "take" /\ ~trx'[mine[d]].request => trx'[mine[d]].sync = 1
        BY <1>1 DEF CallsBegin, callVars
      <4>1. CASE d = c
        <5>1. caller[c] \notin {"check", "add"}
          BY <3>2 DEF Committed
        <5>2. caller[c] = "take" => trx'[y].request
          BY <3>2, <3>3, <3>4, <3>5 DEF SessionInvariant, CallsBegin
        <5>3. QED
          BY <3>2, <4>1, <5>1, <5>2
      <4>2. CASE d # c
        BY <3>1, <3>8, <4>2 DEF SessionInvariant, CallsBegin
      <4>3. QED
        BY <4>1, <4>2
    <3>11. NoLostTransaction'
      <4> SUFFICES ASSUME NEW d \in Callers, Committed(d)
                   PROVE  /\ trx'[mine[d]].response \in {None, mine[d]}
                          /\ mine[d] \in pool' \/ mine[d] = y \/ trx'[mine[d]].sync = 1 \/ mine[d] \in dropped
                          /\ mine[d] \in pool' => ~(mine[d] = y \/ trx'[mine[d]].sync = 1 \/ mine[d] \in dropped)
                          /\ mine[d] = y => ~(trx'[mine[d]].sync = 1 \/ mine[d] \in dropped)
                          /\ ~(trx'[mine[d]].sync = 1 /\ mine[d] \in dropped)
        BY <1>1, <3>1, <3>7 DEF NoLostTransaction, callVars
      <4>1. mine[d] \in Trx
        BY <3>3 DEF Committed
      <4>2. CASE d = c
        <5>1. y \notin dropped
          BY <3>2 DEF SessionInvariant, NoLostTransaction
        <5>2. QED
          BY <3>1, <3>2, <3>4, <3>5, <4>2, <5>1
      <4>3. CASE d # c
        <5>1. trx'[mine[d]] = trx[mine[d]] /\ mine[d] # y /\ mine[d] # held
          BY <1>2, <3>3, <3>8, <4>1, <4>3 DEF Committed
        <5>2. QED
          BY <3>1, <5>1 DEF SessionInvariant, NoLostTransaction
      <4>4. QED
        BY <4>2, <4>3
    <3>12. DisconnectOrder' /\ SignalsCounted'
      BY <1>1, <1>2, <2>1, <3>1 DEF SessionInvariant, DisconnectOrder, SignalsCounted, callVars,
                                    sockVars
    <3>13. DroppedOK'
      BY <1>1, DroppedKept
    <3>14. QED
      BY <3>5, <3>6, <3>9, <3>10, <3>11, <3>12, <3>13 DEF SessionInvariant
  <2>4. QED
    BY <1>6, <2>2, <2>3 DEF ReceiveAnswer, GetTransaction
<1>7. QED
  BY <1>4, <1>5, <1>6 DEF IoReceive

(* The caller of the transaction in hand is signalled, or the transaction is *)
(* dropped.                                                                  *)
LEMMA IoSignalStep ==
  ASSUME TypeOK, SessionInvariant, IoSignal
  PROVE  TypeOK' /\ SessionInvariant'
<1>1. /\ io = "got" /\ io' = "frame" /\ held' = None
      /\ UNCHANGED <<nextId, pool, callVars, qVars, sockVars, rpcVars, disc, watch,
                     readable, srvVars>>
  BY DEF IoSignal, IoUnchanged, qVars, sockVars, rpcVars
<1>2. PICK x \in Trx, c \in Callers : x = held /\ mine[c] = x /\ Committed(c)
  BY <1>1 DEF SessionInvariant, CallersStay, TypeOK
<1>3. /\ trx[x] \in Transaction /\ trx[x].mem = "live" /\ Owned(x)
      /\ trx[x].ref = (IF x \in pool THEN 2 ELSE 1)
      /\ \A d \in Callers : d # c => mine[d] # x
      /\ \A d \in Callers : caller[d] # "idle" => mine[d] \in Trx
  BY <1>2, CallerHasTrx DEF Committed
<1>4. x \notin pool /\ trx[x].sync = 0 /\ x \notin dropped
  BY <1>2, <1>3 DEF SessionInvariant, NoLostTransaction, Transaction
<1>5. PICK r \in Transaction :
        /\ trx' = [trx EXCEPT ![x] = r]
        /\ r.mem = "live" /\ r.ref = 1 /\ r.request = trx[x].request
        /\ \/ r.sync = 1 /\ r.response = trx[x].response /\ UNCHANGED dropped
           \/ MayFail /\ r.sync = 0 /\ r.response = None /\ dropped' = dropped \cup {x}
  <2>1. PICK t \in Transaction : t = trx[x] /\ t.mem = "live" /\ t.ref = 1 /\ t.sync = 0
    BY <1>3, <1>4
  <2>2. PICK q \in Transaction : q = [t EXCEPT !.sync = 1]
    BY UpdateRecord
  <2>3. q.mem = t.mem /\ q.ref = t.ref /\ q.sync = 1 /\ q.request = t.request
        /\ q.response = t.response
    BY <2>2 DEF Transaction
  <2>4. PICK u \in Transaction : u = [t EXCEPT !.response = None]
    BY DEF Transaction
  <2>5. u.mem = t.mem /\ u.ref = t.ref /\ u.sync = 0 /\ u.request = t.request
        /\ u.response = None
    BY <2>1, <2>4 DEF Transaction
  <2>6. \/ trx' = [trx EXCEPT ![x] = q] /\ UNCHANGED dropped
        \/ MayFail /\ trx' = [trx EXCEPT ![x] = u] /\ dropped' = dropped \cup {x}
    BY <1>2, <2>1, <2>2, <2>4 DEF IoSignal, TypeOK
  <2>7. QED
    BY <2>1, <2>3, <2>5, <2>6
<1>6. /\ RefsCounted' /\ trx' \in [Trx -> Transaction]
      /\ trx'[x] = r /\ \A y \in Trx : y # x => trx'[y] = trx[y]
  <2>1. /\ pool' \subseteq Trx /\ x \notin pool'
        /\ \A y \in Trx : y # x => (y \in pool' <=> y \in pool)
    BY <1>1, <1>4 DEF TypeOK
  <2>2. UNCHANGED <<nextId, mine>>
    BY <1>1 DEF callVars
  <2>3. QED
    BY <1>3, <1>5, <2>1, <2>2, OneTrxChanged
<1>7. TypeOK'
  <2>1. dropped' \subseteq Trx
    BY <1>5 DEF TypeOK
  <2>2. QED
    BY <1>1, <1>6, <2>1 DEF TypeOK, callVars, qVars, sockVars, rpcVars, srvVars
<1>8. \A d \in Callers : Committed(d)' <=> Committed(d)
  BY <1>1 DEF Committed, callVars
<1>9. \A d \in Callers : d # c /\ caller[d] # "idle" => trx'[mine[d]] = trx[mine[d]]
  BY <1>3, <1>6
<1>10. CallersHaveTrx' /\ CallersStay'
  BY <1>1, <1>8 DEF SessionInvariant, CallersHaveTrx, CallersStay, callVars
<1>11. CallsBegin'
  <2> SUFFICES ASSUME NEW d \in Callers
               PROVE  /\ caller[d] \in {"check", "add"} =>
                           mine[d] \notin pool \cup dropped' /\ trx'[mine[d]].sync = 0
                           /\ trx'[mine[d]].response = None /\ trx'[mine[d]].request
                      /\ caller[d] = "take" /\ ~trx'[mine[d]].request => trx'[mine[d]].sync = 1
    BY <1>1 DEF CallsBegin, callVars
  <2>1. CASE d = c
    <3>1. caller[c] \notin {"check", "add"}
      BY <1>2 DEF Committed
    <3>2. caller[c] = "take" => trx'[x].request
      BY <1>2, <1>4, <1>5, <1>6 DEF SessionInvariant, CallsBegin
    <3>3. QED
      BY <1>2, <2>1, <3>1, <3>2
  <2>2. CASE d # c
    <3>1. mine[d] \in dropped' <=> mine[d] \in dropped
      BY <1>3, <1>5, <2>2
    <3>2. QED
      BY <1>9, <2>2, <3>1 DEF SessionInvariant, CallsBegin
  <2>3. QED
    BY <2>1, <2>2
<1>12. NoLostTransaction'
  <2> SUFFICES ASSUME NEW d \in Callers, Committed(d)
               PROVE  /\ trx'[mine[d]].response \in {None, mine[d]}
                      /\ mine[d] \in pool \/ trx'[mine[d]].sync = 1 \/ mine[d] \in dropped'
                      /\ mine[d] \in pool => ~(trx'[mine[d]].sync = 1 \/ mine[d] \in dropped')
                      /\ ~(trx'[mine[d]].sync = 1 /\ mine[d] \in dropped')
                      /\ mine[d] # None
    BY <1>1, <1>8 DEF NoLostTransaction, callVars
  <2>1. mine[d] \in Trx
    BY <1>3 DEF Committed
  <2>2. CASE d = c
    BY <1>2, <1>4, <1>5, <1>6, <2>1, <2>2 DEF SessionInvariant, NoLostTransaction
  <2>3. CASE d # c
    <3>1. trx'[mine[d]] = trx[mine[d]] /\ mine[d] # held /\ (mine[d] \in dropped' <=> mine[d] \in dropped)
      BY <1>2, <1>3, <1>5, <1>9, <2>3 DEF Committed
    <3>2. QED
      BY <2>1, <3>1 DEF SessionInvariant, NoLostTransaction
  <2>4. QED
    BY <2>2, <2>3
<1>13. DisconnectOrder' /\ SignalsCounted'
  BY <1>1, <1>2, <1>5, <1>6, <1>9 DEF SessionInvariant, DisconnectOrder, SignalsCounted,
     callVars,
                                qVars, sockVars, rpcVars
<1>14. DroppedOK'
  <2>1. x < nextId /\ nextId' = nextId
    BY <1>1, <1>2, <1>3 DEF SessionInvariant, CallersHaveTrx
  <2>2. QED
    BY <1>5, <2>1 DEF SessionInvariant, DroppedOK
<1>15. QED
  BY <1>6, <1>7, <1>10, <1>11, <1>12, <1>13, <1>14 DEF SessionInvariant

(* Another frame. *)
LEMMA IoNextFrameStep ==
  ASSUME TypeOK, SessionInvariant, IoNextFrame
  PROVE  TypeOK' /\ SessionInvariant'
<1>1. TypeOK'
  BY DEF IoNextFrame, IoUnchanged, callVars, srvVars, TypeOK
<1>2. /\ CallersHaveTrx' /\ RefsCounted' /\ CallsBegin' /\ CallersStay'
      /\ NoLostTransaction' /\ DroppedOK'
  BY TransactionsUntouched DEF IoNextFrame, IoUnchanged, callVars, srvVars
<1>3. DisconnectOrder' /\ SignalsCounted'
  BY DEF IoNextFrame, IoUnchanged, callVars, srvVars, TypeOK, SessionInvariant,
     DisconnectOrder, SignalsCounted
<1>4. QED
  BY <1>1, <1>2, <1>3 DEF SessionInvariant

(* The expiry at the end of a pass. *)
LEMMA IoExpireStep ==
  ASSUME TypeOK, SessionInvariant, IoExpire
  PROVE  TypeOK' /\ SessionInvariant'
<1>1. PICK S \in SUBSET pool : Expire(S)
  BY DEF IoExpire, ExpireInactive
<1>2. pool' \subseteq Trx /\ trx' \in [Trx -> Transaction]
  BY <1>1, ExpireEffect DEF SessionInvariant
<1>3. TypeOK'
  BY <1>2 DEF TypeOK, IoExpire, IoUnchanged, callVars, srvVars
<1>4. SessionInvariant'
  BY <1>1, ExpireActions DEF IoExpire, IoUnchanged, callVars, srvVars
<1>5. QED
  BY <1>3, <1>4

(* The socket is closed. *)
LEMMA IoCloseStep ==
  ASSUME TypeOK, SessionInvariant, IoClose
  PROVE  TypeOK' /\ SessionInvariant'
<1>1. TypeOK'
  <2>1. /\ sockOpen' = FALSE /\ io' = "post" /\ readable' = FALSE /\ asked' \subseteq Trx
        /\ peer' = FALSE /\ bell' \in Seq({"message", "quit"})
    BY DEF IoClose
  <2>2. UNCHANGED <<trxVars, callVars, qVars, bellOpen, rpcVars, disc, watch, held, dropped,
                    incoming>>
    BY DEF IoClose, IoUnchanged, trxVars, callVars, qVars, rpcVars
  <2>3. QED
    BY <2>1, <2>2 DEF TypeOK, trxVars, callVars, qVars, rpcVars
<1>2. /\ CallersHaveTrx' /\ RefsCounted' /\ CallsBegin' /\ CallersStay'
      /\ NoLostTransaction' /\ DroppedOK'
  BY TransactionsUntouched DEF IoClose, IoUnchanged, callVars, srvVars
<1>3. DisconnectOrder' /\ SignalsCounted'
  BY DEF IoClose, IoUnchanged, callVars, srvVars, TypeOK, SessionInvariant, DisconnectOrder,
     SignalsCounted
<1>4. QED
  BY <1>1, <1>2, <1>3 DEF SessionInvariant

(* The last post to the RPC thread. *)
LEMMA IoPostStep ==
  ASSUME TypeOK, SessionInvariant, IoPost
  PROVE  TypeOK' /\ SessionInvariant'
<1>1. TypeOK'
  BY DEF IoPost, IoUnchanged, callVars, srvVars, TypeOK
<1>2. /\ CallersHaveTrx' /\ RefsCounted' /\ CallsBegin' /\ CallersStay'
      /\ NoLostTransaction' /\ DroppedOK'
  BY TransactionsUntouched DEF IoPost, IoUnchanged, callVars, srvVars
<1>3. DisconnectOrder' /\ SignalsCounted'
  BY DEF IoPost, IoUnchanged, callVars, srvVars, TypeOK, SessionInvariant, DisconnectOrder,
     SignalsCounted
<1>4. QED
  BY <1>1, <1>2, <1>3 DEF SessionInvariant

-----------------------------------------------------------------------------
(* The RPC thread. *)

(* A signal without a message ends the loop. *)
LEMMA RpcWaitStep ==
  ASSUME TypeOK, SessionInvariant, RpcWait
  PROVE  TypeOK' /\ SessionInvariant'
<1>1. TypeOK'
  BY DEF RpcWait, RpcUnchanged, callVars, ioVars, srvVars, TypeOK
<1>2. /\ CallersHaveTrx' /\ RefsCounted' /\ CallsBegin' /\ CallersStay'
      /\ NoLostTransaction' /\ DroppedOK'
  BY TransactionsUntouched DEF RpcWait, RpcUnchanged, callVars, ioVars, srvVars
<1>3. DisconnectOrder' /\ SignalsCounted'
  BY DEF RpcWait, RpcUnchanged, callVars, ioVars, srvVars, TypeOK, SessionInvariant,
     DisconnectOrder, SignalsCounted
<1>4. QED
  BY <1>1, <1>2, <1>3 DEF SessionInvariant

(* A handler returns. *)
LEMMA RpcHandleStep ==
  ASSUME TypeOK, SessionInvariant, RpcHandle
  PROVE  TypeOK' /\ SessionInvariant'
<1>1. TypeOK'
  BY DEF RpcHandle, RpcUnchanged, callVars, ioVars, srvVars, TypeOK
<1>2. /\ CallersHaveTrx' /\ RefsCounted' /\ CallsBegin' /\ CallersStay'
      /\ NoLostTransaction' /\ DroppedOK'
  BY TransactionsUntouched DEF RpcHandle, RpcUnchanged, callVars, ioVars, srvVars
<1>3. DisconnectOrder' /\ SignalsCounted'
  BY DEF RpcHandle, RpcUnchanged, callVars, ioVars, srvVars, TypeOK, SessionInvariant,
     DisconnectOrder, SignalsCounted
<1>4. QED
  BY <1>1, <1>2, <1>3 DEF SessionInvariant

(* Its response is queued. *)
LEMMA RpcReplyStep ==
  ASSUME TypeOK, SessionInvariant, RpcReply
  PROVE  TypeOK' /\ SessionInvariant'
<1>1. TypeOK'
  BY DEF RpcReply, RpcUnchanged, callVars, ioVars, srvVars, TypeOK, PressBell
<1>2. /\ CallersHaveTrx' /\ RefsCounted' /\ CallsBegin' /\ CallersStay'
      /\ NoLostTransaction' /\ DroppedOK'
  BY TransactionsUntouched DEF RpcReply, RpcUnchanged, callVars, ioVars, srvVars
<1>3. DisconnectOrder' /\ SignalsCounted'
  BY DEF RpcReply, RpcUnchanged, callVars, ioVars, srvVars, TypeOK, SessionInvariant,
     DisconnectOrder, SignalsCounted
<1>4. QED
  BY <1>1, <1>2, <1>3 DEF SessionInvariant

(* The expiry when the connection is lost. *)
LEMMA RpcExpireStep ==
  ASSUME TypeOK, SessionInvariant, RpcExpire
  PROVE  TypeOK' /\ SessionInvariant'
<1>1. PICK S \in SUBSET pool : Expire(S) /\ S = pool
  BY DEF RpcExpire, ExpireAll
<1>2. pool' \subseteq Trx /\ trx' \in [Trx -> Transaction]
  BY <1>1, ExpireEffect DEF SessionInvariant
<1>3. TypeOK'
  BY <1>2 DEF TypeOK, RpcExpire, RpcUnchanged, callVars, ioVars, srvVars
<1>4. SessionInvariant'
  BY <1>1, ExpireActions DEF RpcExpire, RpcUnchanged, callVars, ioVars, srvVars
<1>5. QED
  BY <1>3, <1>4

(* The RPC thread ends. *)
LEMMA RpcDestroyStep ==
  ASSUME TypeOK, SessionInvariant, RpcDestroy
  PROVE  TypeOK' /\ SessionInvariant'
<1>1. TypeOK'
  BY DEF RpcDestroy, RpcUnchanged, callVars, ioVars, srvVars, TypeOK
<1>2. /\ CallersHaveTrx' /\ RefsCounted' /\ CallsBegin' /\ CallersStay'
      /\ NoLostTransaction' /\ DroppedOK'
  BY TransactionsUntouched DEF RpcDestroy, RpcUnchanged, callVars, ioVars, srvVars
<1>3. DisconnectOrder' /\ SignalsCounted'
  BY DEF RpcDestroy, RpcUnchanged, callVars, ioVars, srvVars, TypeOK, SessionInvariant,
     DisconnectOrder, SignalsCounted
<1>4. QED
  BY <1>1, <1>2, <1>3 DEF SessionInvariant

-----------------------------------------------------------------------------
(* IpcSession_Disconnect. *)

(* The quit byte. *)
LEMMA DiscQuitStep ==
  ASSUME TypeOK, SessionInvariant, DiscQuit
  PROVE  TypeOK' /\ SessionInvariant'
<1>1. TypeOK'
  BY DEF DiscQuit, DiscUnchanged, callVars, ioVars, srvVars, TypeOK, PressBell
<1>2. /\ CallersHaveTrx' /\ RefsCounted' /\ CallsBegin' /\ CallersStay'
      /\ NoLostTransaction' /\ DroppedOK'
  BY TransactionsUntouched DEF DiscQuit, DiscUnchanged, callVars, ioVars, srvVars
<1>3. DisconnectOrder' /\ SignalsCounted'
  BY DEF DiscQuit, DiscUnchanged, callVars, ioVars, srvVars, TypeOK, SessionInvariant,
     DisconnectOrder, SignalsCounted
<1>4. QED
  BY <1>1, <1>2, <1>3 DEF SessionInvariant

(* The I/O thread is joined. *)
LEMMA DiscJoinIoStep ==
  ASSUME TypeOK, SessionInvariant, DiscJoinIo
  PROVE  TypeOK' /\ SessionInvariant'
<1>1. TypeOK'
  BY DEF DiscJoinIo, DiscUnchanged, callVars, ioVars, srvVars, TypeOK
<1>2. /\ CallersHaveTrx' /\ RefsCounted' /\ CallsBegin' /\ CallersStay'
      /\ NoLostTransaction' /\ DroppedOK'
  BY TransactionsUntouched DEF DiscJoinIo, DiscUnchanged, callVars, ioVars, srvVars
<1>3. DisconnectOrder' /\ SignalsCounted'
  BY DEF DiscJoinIo, DiscUnchanged, callVars, ioVars, srvVars, TypeOK, SessionInvariant,
     DisconnectOrder, SignalsCounted
<1>4. QED
  BY <1>1, <1>2, <1>3 DEF SessionInvariant

(* Sockets and queues are closed. *)
LEMMA DiscCloseStep ==
  ASSUME TypeOK, SessionInvariant, DiscClose
  PROVE  TypeOK' /\ SessionInvariant'
<1>1. TypeOK'
  <2>1. /\ sockOpen' = FALSE /\ bellOpen' = FALSE /\ queues' = "inactive" /\ disc' = "expire"
        /\ bell' \in Seq({"message", "quit"})
    BY DEF DiscClose
  <2>2. UNCHANGED <<trxVars, callVars, send, recv, rpcVars, ioVars, srvVars>>
    BY DEF DiscClose, DiscUnchanged, trxVars, callVars, rpcVars, ioVars, srvVars
  <2>3. QED
    BY <2>1, <2>2 DEF TypeOK, trxVars, callVars, rpcVars, ioVars, srvVars
<1>2. /\ CallersHaveTrx' /\ RefsCounted' /\ CallsBegin' /\ CallersStay'
      /\ NoLostTransaction' /\ DroppedOK'
  BY TransactionsUntouched DEF DiscClose, DiscUnchanged, callVars, ioVars, srvVars
<1>3. DisconnectOrder' /\ SignalsCounted'
  BY DEF DiscClose, DiscUnchanged, callVars, ioVars, srvVars, TypeOK, SessionInvariant,
     DisconnectOrder, SignalsCounted
<1>4. QED
  BY <1>1, <1>2, <1>3 DEF SessionInvariant

(* The expiry after which no waiting caller is without a signal. *)
LEMMA DiscExpireStep ==
  ASSUME TypeOK, SessionInvariant, DiscExpire
  PROVE  TypeOK' /\ SessionInvariant'
<1>1. PICK S \in SUBSET pool : Expire(S) /\ S = pool
  BY DEF DiscExpire, ExpireAll
<1>2. pool' \subseteq Trx /\ trx' \in [Trx -> Transaction]
  BY <1>1, ExpireEffect DEF SessionInvariant
<1>3. TypeOK'
  BY <1>2 DEF TypeOK, DiscExpire, DiscUnchanged, callVars, ioVars, srvVars
<1>4. SessionInvariant'
  BY <1>1, ExpireActions DEF DiscExpire, DiscUnchanged, callVars, ioVars, srvVars
<1>5. QED
  BY <1>3, <1>4

(* The RPC thread is signalled. *)
LEMMA DiscSignalStep ==
  ASSUME TypeOK, SessionInvariant, DiscSignal
  PROVE  TypeOK' /\ SessionInvariant'
<1>1. TypeOK'
  BY DEF DiscSignal, DiscUnchanged, callVars, ioVars, srvVars, TypeOK
<1>2. /\ CallersHaveTrx' /\ RefsCounted' /\ CallsBegin' /\ CallersStay'
      /\ NoLostTransaction' /\ DroppedOK'
  BY TransactionsUntouched DEF DiscSignal, DiscUnchanged, callVars, ioVars, srvVars
<1>3. DisconnectOrder' /\ SignalsCounted'
  BY DEF DiscSignal, DiscUnchanged, callVars, ioVars, srvVars, TypeOK, SessionInvariant,
     DisconnectOrder, SignalsCounted
<1>4. QED
  BY <1>1, <1>2, <1>3 DEF SessionInvariant

(* The RPC thread is joined. *)
LEMMA DiscJoinRpcStep ==
  ASSUME TypeOK, SessionInvariant, DiscJoinRpc
  PROVE  TypeOK' /\ SessionInvariant'
<1>1. TypeOK'
  BY DEF DiscJoinRpc, DiscUnchanged, callVars, ioVars, srvVars, TypeOK
<1>2. /\ CallersHaveTrx' /\ RefsCounted' /\ CallsBegin' /\ CallersStay'
      /\ NoLostTransaction' /\ DroppedOK'
  BY TransactionsUntouched DEF DiscJoinRpc, DiscUnchanged, callVars, ioVars, srvVars
<1>3. DisconnectOrder' /\ SignalsCounted'
  BY DEF DiscJoinRpc, DiscUnchanged, callVars, ioVars, srvVars, TypeOK, SessionInvariant,
     DisconnectOrder, SignalsCounted
<1>4. QED
  BY <1>1, <1>2, <1>3 DEF SessionInvariant

(* IpfTrxMgr_Uninit. *)
LEMMA DiscUninitStep ==
  ASSUME TypeOK, SessionInvariant, DiscUninit
  PROVE  TypeOK' /\ SessionInvariant'
<1>1. PICK S \in SUBSET pool : Expire(S) /\ S = pool
  BY DEF DiscUninit, ExpireAll
<1>2. pool' \subseteq Trx /\ trx' \in [Trx -> Transaction]
  BY <1>1, ExpireEffect DEF SessionInvariant
<1>3. TypeOK'
  BY <1>2 DEF TypeOK, DiscUninit, DiscUnchanged, callVars, ioVars, srvVars
<1>4. SessionInvariant'
  BY <1>1, ExpireActions DEF DiscUninit, DiscUnchanged, callVars, ioVars, srvVars
<1>5. QED
  BY <1>3, <1>4

-----------------------------------------------------------------------------
(* The server. *)

(* The server answers. *)
LEMMA ServerAnswerStep ==
  ASSUME TypeOK, SessionInvariant, ServerAnswer
  PROVE  TypeOK' /\ SessionInvariant'
<1>1. TypeOK'
  BY DEF ServerAnswer, ServerUnchanged, trxVars, callVars, qVars, sockVars, rpcVars, ioVars,
     TypeOK
<1>2. /\ CallersHaveTrx' /\ RefsCounted' /\ CallsBegin' /\ CallersStay'
      /\ NoLostTransaction' /\ DroppedOK'
  BY TransactionsUntouched DEF ServerAnswer, ServerUnchanged, trxVars, callVars, qVars,
     sockVars, rpcVars, ioVars
<1>3. DisconnectOrder' /\ SignalsCounted'
  BY DEF ServerAnswer, ServerUnchanged, trxVars, callVars, qVars, sockVars, rpcVars, ioVars,
     TypeOK, SessionInvariant, DisconnectOrder, SignalsCounted
<1>4. QED
  BY <1>1, <1>2, <1>3 DEF SessionInvariant

(* The server asks. *)
LEMMA ServerRequestStep ==
  ASSUME TypeOK, SessionInvariant, ServerRequest
  PROVE  TypeOK' /\ SessionInvariant'
<1>1. TypeOK'
  BY DEF ServerRequest, ServerUnchanged, trxVars, callVars, qVars, sockVars, rpcVars, ioVars,
     TypeOK
<1>2. /\ CallersHaveTrx' /\ RefsCounted' /\ CallsBegin' /\ CallersStay'
      /\ NoLostTransaction' /\ DroppedOK'
  BY TransactionsUntouched DEF ServerRequest, ServerUnchanged, trxVars, callVars, qVars,
     sockVars, rpcVars, ioVars
<1>3. DisconnectOrder' /\ SignalsCounted'
  BY DEF ServerRequest, ServerUnchanged, trxVars, callVars, qVars, sockVars, rpcVars, ioVars,
     TypeOK, SessionInvariant, DisconnectOrder, SignalsCounted
<1>4. QED
  BY <1>1, <1>2, <1>3 DEF SessionInvariant

(* The server closes. *)
LEMMA ServerCloseStep ==
  ASSUME TypeOK, SessionInvariant, ServerClose
  PROVE  TypeOK' /\ SessionInvariant'
<1>1. TypeOK'
  <2>1. peer' \in BOOLEAN /\ asked' \subseteq Trx /\ incoming' = incoming
    BY DEF ServerClose
  <2>2. UNCHANGED <<trxVars, callVars, qVars, sockVars, rpcVars, disc, ioVars>>
    BY DEF ServerClose, ServerUnchanged, trxVars, callVars, qVars, sockVars, rpcVars, ioVars
  <2>3. QED
    BY <2>1, <2>2 DEF TypeOK, trxVars, callVars, qVars, sockVars, rpcVars, ioVars
<1>2. /\ CallersHaveTrx' /\ RefsCounted' /\ CallsBegin' /\ CallersStay'
      /\ NoLostTransaction' /\ DroppedOK'
  BY TransactionsUntouched DEF ServerClose, ServerUnchanged, trxVars, callVars, qVars,
     sockVars, rpcVars, ioVars
<1>3. DisconnectOrder' /\ SignalsCounted'
  BY DEF ServerClose, ServerUnchanged, trxVars, callVars, qVars, sockVars, rpcVars, ioVars,
     TypeOK, SessionInvariant, DisconnectOrder, SignalsCounted
<1>4. QED
  BY <1>1, <1>2, <1>3 DEF SessionInvariant

-----------------------------------------------------------------------------
(* The theorems. *)

(* The connected session without calls satisfies the invariant. *)
LEMMA InitOK ==
  Init => TypeOK /\ SessionInvariant
<1> SUFFICES ASSUME Init PROVE TypeOK /\ SessionInvariant
  OBVIOUS
<1>1. TypeOK
  <2>1. /\ trx \in [Trx -> Transaction] /\ nextId \in 1 .. MaxTrx + 1
        /\ pool \subseteq Trx /\ watch \subseteq Trx /\ asked \subseteq Trx
        /\ dropped \subseteq Trx
    BY UnusedRecord DEF Init
  <2>2. send \in Seq(Trx \cup {None}) /\ bell \in Seq({"message", "quit"})
    BY DEF Init
  <2>3. /\ recv \in Nat /\ rpcSignal \in Nat /\ incoming \in 0 .. MaxIncoming
        /\ held \in Trx \cup {None} /\ mine \in [Callers -> Trx \cup {None}]
    BY DEF Init
  <2>4. QED
    BY <2>1, <2>2, <2>3 DEF Init, TypeOK
<1>2. \A x : ~Owned(x) \/ x = None
  BY DEF Init, Owned
<1>3. CallersHaveTrx /\ CallsBegin /\ CallersStay /\ NoLostTransaction
  BY DEF Init, CallersHaveTrx, CallsBegin, CallersStay, NoLostTransaction, Committed
<1>4. RefsCounted
  BY <1>2 DEF Init, RefsCounted, Unused
<1>5. DisconnectOrder /\ SignalsCounted /\ DroppedOK
  BY DEF Init, DisconnectOrder, SignalsCounted, DroppedOK
<1>6. QED
  BY <1>1, <1>3, <1>4, <1>5 DEF SessionInvariant

(* So does a step that changes nothing. *)
LEMMA StutterStep ==
  ASSUME TypeOK, SessionInvariant, UNCHANGED vars
  PROVE  TypeOK' /\ SessionInvariant'
<1> USE DEF vars, trxVars, callVars, qVars, sockVars, rpcVars, ioVars, srvVars
<1>1. TypeOK'
  BY DEF TypeOK
<1>2. /\ CallersHaveTrx' /\ RefsCounted' /\ CallsBegin' /\ CallersStay'
      /\ NoLostTransaction' /\ DroppedOK'
  BY TransactionsUntouched
<1>3. DisconnectOrder' /\ SignalsCounted'
  BY DEF SessionInvariant, DisconnectOrder, SignalsCounted
<1>4. QED
  BY <1>1, <1>2, <1>3 DEF SessionInvariant

(* Every step of callers, I/O thread, RPC thread, IpcSession_Disconnect,     *)
(* clock and server preserves the invariant.                                 *)
LEMMA NextStep ==
  ASSUME TypeOK, SessionInvariant, [Next]_vars
  PROVE  TypeOK' /\ SessionInvariant'
<1>1. ASSUME NEW c \in Callers, Request(c) \/ CallerStep(c)
      PROVE  TypeOK' /\ SessionInvariant'
  BY <1>1, RequestStep, CheckSocketStep, AddTransactionStep, TakeRequestStep,
     QueueRequestStep, RingStep, WaitStep, FinishStep DEF CallerStep
<1>2. ASSUME NEW x \in Trx, Age(x)
      PROVE  TypeOK' /\ SessionInvariant'
  BY <1>2, AgeStep
<1>3. CASE IoStep
  BY <1>3, IoTopStep, IoTimeoutStep, IoWakeStep, IoSendStep, IoDrainStep, IoEofStep,
     IoReceiveStep, IoSignalStep, IoNextFrameStep, IoExpireStep, IoCloseStep, IoPostStep DEF IoStep
<1>4. CASE RpcStep
  BY <1>4, RpcWaitStep, RpcHandleStep, RpcReplyStep, RpcExpireStep, RpcDestroyStep DEF RpcStep
<1>5. CASE DiscQuit \/ DiscStep
  BY <1>5, DiscQuitStep, DiscJoinIoStep, DiscCloseStep, DiscExpireStep, DiscSignalStep,
     DiscJoinRpcStep, DiscUninitStep DEF DiscStep
<1>6. CASE Server
  BY <1>6, ServerAnswerStep, ServerRequestStep, ServerCloseStep DEF Server
<1>7. CASE UNCHANGED vars
  BY <1>7, StutterStep
<1>8. QED
  BY <1>1, <1>2, <1>3, <1>4, <1>5, <1>6, <1>7 DEF Next

(* Type correctness: counters stay in range, in particular no transaction    *)
(* has more than two references and none is signalled twice.                 *)
THEOREM SessionTypeCorrect == Spec => []TypeOK
<1>1. TypeOK /\ SessionInvariant /\ [Next]_vars => (TypeOK /\ SessionInvariant)'
  BY NextStep
<1>2. QED
  BY <1>1, InitOK, PTL DEF Spec

(* The inductive invariant holds in every reachable state, for any number of *)
(* application threads, transactions and incoming requests and any pool      *)
(* sizes.                                                                    *)
THEOREM SessionInvariantHolds == Spec => []SessionInvariant
<1>1. TypeOK /\ SessionInvariant /\ [Next]_vars => (TypeOK /\ SessionInvariant)'
  BY NextStep
<1>2. QED
  BY <1>1, InitOK, PTL DEF Spec

(* No thread uses a freed transaction (IpfTrxMgr_GetTransaction returns one  *)
(* without a reference): pool, callers and I/O thread only have live ones.   *)
THEOREM TransactionsAlive == Spec => []TrxAlive
<1>1. TypeOK /\ SessionInvariant => TrxAlive
  <2> SUFFICES ASSUME TypeOK, SessionInvariant,
                      NEW x \in pool \cup {held} \cup {mine[c] : c \in Callers}, x # None
               PROVE  trx[x].mem = "live"
    BY DEF TrxAlive
  <2>1. x \in Trx /\ (x \in pool \/ Owned(x))
    BY DEF TypeOK, SessionInvariant, CallersStay, Owned
  <2>2. QED
    BY <2>1 DEF SessionInvariant, RefsCounted
<1>2. QED
  BY <1>1, SessionTypeCorrect, SessionInvariantHolds, PTL

(* A committed caller is in the pool, in the hand of the I/O thread, already *)
(* signalled, or dropped by IpcSession_ReceiveMsg when it could not copy the *)
(* response, exactly one of them, and no response goes to another call.      *)
(* While there is memory nothing is dropped: whoever answers or expires      *)
(* finds each call once.                                                     *)
THEOREM TransactionsNotLost ==
  Spec => [](NoLostTransaction /\ (~MayFail => dropped = {}))
<1>1. SessionInvariant => NoLostTransaction /\ (~MayFail => dropped = {})
  BY DEF SessionInvariant, DroppedOK
<1>2. QED
  BY <1>1, SessionInvariantHolds, PTL

(* The RPC thread leaves its loop only after the connection was closed and,  *)
(* unless a disconnect deactivated the queues, after the last request that   *)
(* was received.                                                             *)
THEOREM RequestsServed == Spec => []RpcServesAll
<1>1. TypeOK /\ SessionInvariant => RpcServesAll
  <2> SUFFICES ASSUME TypeOK, SessionInvariant, rpc \in {"expire", "destroy", "done"}
               PROVE  ~sockOpen /\ (queues = "active" => recv = 0)
    BY DEF RpcServesAll
  <2>1. CASE queues = "active"
    BY <2>1 DEF SessionInvariant, SignalsCounted, DisconnectOrder
  <2>2. CASE queues # "active"
    BY <2>2 DEF SessionInvariant, DisconnectOrder, TypeOK
  <2>3. QED
    BY <2>1, <2>2
<1>2. QED
  BY <1>1, SessionTypeCorrect, SessionInvariantHolds, PTL

(* Once IpcSession_Disconnect has returned, every caller that waits has been *)
(* signalled, whatever races preceded it, but for those whose response could *)
(* not be copied; while there is memory there are none.                      *)
THEOREM DisconnectLeavesNoCall ==
  Spec => [](DisconnectReleases /\ (~MayFail => dropped = {}))
<1>1. SessionInvariant => DisconnectReleases /\ (~MayFail => dropped = {})
  BY DEF SessionInvariant, DisconnectOrder, DisconnectReleases, DroppedOK
<1>2. QED
  BY <1>1, SessionInvariantHolds, PTL
====
