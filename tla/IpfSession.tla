---- MODULE IpfSession ----
(***************************************************************************)
(* A connected client session of the IPF inter-process communication:      *)
(* threads of the application that make remote calls (ipfipc_irpc.c), the  *)
(* transaction manager that holds the calls without an answer              *)
(* (ipf_ipc_trxmgr.c), the I/O thread that owns the socket, the RPC thread *)
(* that executes the server's requests and may make calls itself, and      *)
(* IpcSession_Disconnect (ipfipc_ws.c).                                    *)
(*                                                                         *)
(* The server is external: it answers each request at most once, late or   *)
(* never, may stop reading, sends requests of its own and may close the    *)
(* connection.  A section under a lock is one action.  The handshake and   *)
(* AppCreate are over, so bytesReceived > 0.  Memory may be short when the *)
(* pool grows, for a message to be sent and for one received; that the     *)
(* send queue has no node for a request, that the doorbell fails while it  *)
(* is open, the contents of messages, fragments, pings, an error of        *)
(* select() itself and IpcSessionMgr_DeleteHandle are left out.            *)
(***************************************************************************)
EXTENDS Integers, Sequences, FiniteSets

CONSTANTS
    Apps,          \* threads of the application that make calls
    Rpc,           \* the RPC thread, which makes calls while it handles one
    None,
    MaxTrx,        \* bound on the transactions created
    PoolInitial,   \* TRX_POOL_INITIAL
    PoolMax,       \* TRX_POOL_MAXSIZE
    MayFail,       \* whether allocations may fail
    MaxIncoming    \* bound on the server's requests

Callers == Apps \cup {Rpc}
Trx     == 1 .. MaxTrx

ASSUME SessionAssumption ==
    /\ Rpc \notin Apps /\ None \notin Trx
    /\ MaxTrx \in Nat /\ PoolInitial \in Nat \ {0} /\ PoolMax \in Nat /\ MaxIncoming \in Nat
    /\ MayFail \in BOOLEAN

VARIABLES
    trx,       \* IrpcTransaction, by trxId
    nextId,    \* trxIdGenerator
    pool,      \* the transactions in IpfTrxMgr's trxPool
    caller,    \* per caller, where it is in its call
    mine,      \* per caller, its transaction
    send, recv,    \* sendQueue and recvQueue
    queues,    \* of both: "active", "inactive", "destroyed"
    bell,      \* bytes in the doorbell socket pair
    bellOpen, sockOpen,
    rpcSignal, \* the counting semaphore of the RPC thread
    rpc, disc, \* where the RPC thread and IpcSession_Disconnect are
    io,        \* where the I/O thread is
    watch,     \* the transactions its select timeout was computed from
    held,      \* the transaction GetTransaction returned to it
    readable,  \* FD_ISSET of the socket in the last select
    dropped,   \* history: transactions it let go without a signal, for want of memory
    inbound,   \* messages on their way from the server
    peer,      \* whether the server keeps the connection open
    asked,     \* requests the server has and did not answer
    incoming   \* number of requests the server made

trxVars  == <<trx, nextId, pool>>
callVars == <<caller, mine>>
qVars    == <<send, recv, queues>>
sockVars == <<bell, bellOpen, sockOpen>>
rpcVars  == <<rpcSignal, rpc>>
ioVars   == <<io, watch, held, readable, dropped>>
srvVars  == <<inbound, peer, asked, incoming>>
vars == <<trxVars, callVars, qVars, sockVars, rpcVars, disc, ioVars, srvVars>>

Unused == [mem |-> "unused", ref |-> 0, request |-> FALSE, response |-> None,
           sync |-> 0, due |-> FALSE]

Transaction == [mem : {"unused", "live", "freed"}, ref : 0 .. 2, request : BOOLEAN,
                response : Trx \cup {None}, sync : 0 .. 1, due : BOOLEAN]

TypeOK ==
    /\ trx \in [Trx -> Transaction]
    /\ nextId \in 1 .. MaxTrx + 1 /\ pool \subseteq Trx
    /\ caller \in [Callers -> {"idle", "check", "add", "take", "queue", "ring", "wait",
                              "finish"}]
    /\ mine \in [Callers -> Trx \cup {None}]
    /\ send \in Seq(Trx \cup {None}) /\ recv \in Nat
    /\ queues \in {"active", "inactive", "destroyed"}
    /\ bell \in Seq({"message", "quit"}) /\ bellOpen \in BOOLEAN /\ sockOpen \in BOOLEAN
    /\ rpcSignal \in Nat
    /\ rpc \in {"wait", "handle", "reply", "expire", "destroy", "done"}
    /\ disc \in {"idle", "joinIo", "close", "expire", "signal", "joinRpc", "uninit", "done"}
    /\ io \in {"top", "select", "drain", "recv", "got", "frame", "bye", "close", "post", "done"}
    /\ watch \subseteq Trx /\ held \in Trx \cup {None} /\ readable \in BOOLEAN
    /\ dropped \subseteq Trx
    /\ peer \in BOOLEAN /\ asked \subseteq Trx /\ incoming \in 0 .. MaxIncoming

Init ==
    /\ trx = [x \in Trx |-> Unused] /\ nextId = 1 /\ pool = {}
    /\ caller = [c \in Callers |-> "idle"] /\ mine = [c \in Callers |-> None]
    /\ send = <<>> /\ recv = 0 /\ queues = "active"
    /\ bell = <<>> /\ bellOpen = TRUE /\ sockOpen = TRUE
    /\ rpcSignal = 0 /\ rpc = "wait" /\ disc = "idle"
    /\ io = "top" /\ watch = {} /\ held = None /\ readable = FALSE /\ dropped = {}
    /\ inbound = <<>> /\ peer = TRUE /\ asked = {} /\ incoming = 0

-----------------------------------------------------------------------------
(* Transactions and their pool. *)

(* IrpcTransaction_PutRef and IrpcTransaction_Destroy, on a record. *)
PutRef(r) == IF r.ref = 1 THEN [Unused EXCEPT !.mem = "freed"]
                          ELSE [r EXCEPT !.ref = @ - 1]

(* The pool gives up its reference; a timestamp matters only in the pool. *)
Leave(r) == PutRef([r EXCEPT !.due = FALSE])

(* A form of the expiry that does not wake the caller. *)
Expire_NoSignal(S) ==
    /\ pool' = pool \ S
    /\ trx' = [x \in Trx |-> IF x \in S
                 THEN Leave([trx[x] EXCEPT !.request = FALSE, !.response = None])
                 ELSE trx[x]]

(* IpfTrxMgr_ExpireTimeout: the transactions of S leave the pool without a   *)
(* response, and their callers are signalled.                                *)
Expire(S) ==
    /\ pool' = pool \ S
    /\ trx' = [x \in Trx |-> IF x \in S
                 THEN Leave([trx[x] EXCEPT !.request = FALSE, !.response = None,
                                           !.sync = @ + 1])
                 ELSE trx[x]]
ExpireAll      == Expire(pool)
ExpireInactive == Expire({x \in pool : trx[x].due})

(* The clock passes the time at which a transaction expires. *)
Age(x) ==
    /\ x \in pool /\ ~trx[x].due
    /\ trx' = [trx EXCEPT ![x].due = TRUE]
    /\ UNCHANGED <<nextId, pool, callVars, qVars, sockVars, rpcVars, disc, ioVars, srvVars>>

-----------------------------------------------------------------------------
(* A remote call: Irpc_Request_..., IrpcTransaction_QueueRequest. *)

(* A byte for the I/O thread, while it reads the doorbell. *)
PressBell(b) == IF bellOpen /\ io \notin {"post", "done"} THEN Append(bell, b) ELSE bell

CallerUnchanged == <<recv, queues, sockOpen, rpcVars, disc, ioVars, srvVars>>

(* IrpcTransaction_Create.  The RPC thread calls from within a handler. *)
Request(c) ==
    /\ caller[c] = "idle" /\ nextId \in Trx
    /\ c = Rpc => rpc = "handle"
    /\ trx' = [trx EXCEPT ![nextId] = [Unused EXCEPT !.mem = "live", !.ref = 1,
                                                     !.request = TRUE]]
    /\ nextId' = nextId + 1
    /\ mine' = [mine EXCEPT ![c] = nextId] /\ caller' = [caller EXCEPT ![c] = "check"]
    /\ UNCHANGED <<pool, send, bell, bellOpen, CallerUnchanged>>

CheckSocket(c) ==
    /\ caller[c] = "check"
    /\ caller' = [caller EXCEPT ![c] = IF sockOpen THEN "add" ELSE "finish"]
    /\ UNCHANGED <<trxVars, mine, send, bell, bellOpen, CallerUnchanged>>

(* A form that puts the transaction into the pool without a reference. *)
AddTransaction_NoRef(c) ==
    /\ caller[c] = "add"
    /\ pool' = pool \cup {mine[c]}
    /\ caller' = [caller EXCEPT ![c] = "take"]
    /\ UNCHANGED <<trx, nextId, mine, send, bell, bellOpen, CallerUnchanged>>

(* IpfTrxMgr_AddTransaction: a free slot is used, a full pool grows, and the *)
(* call is refused when it cannot.                                           *)
AddTransaction(c) ==
    LET x == mine[c] IN
    /\ caller[c] = "add"
    /\ \/ /\ Cardinality(pool) < PoolMax
          /\ pool' = pool \cup {x}
          /\ trx' = [trx EXCEPT ![x].ref = @ + 1]
          /\ caller' = [caller EXCEPT ![c] = "take"]
       \/ /\ Cardinality(pool) >= IF MayFail THEN PoolInitial ELSE PoolMax
          /\ caller' = [caller EXCEPT ![c] = "finish"]
          /\ UNCHANGED <<pool, trx>>
    /\ UNCHANGED <<nextId, mine, send, bell, bellOpen, CallerUnchanged>>

(* The caller reads the request of its transaction; there is none any more   *)
(* when it has been expired.                                                 *)
TakeRequest(c) ==
    /\ caller[c] = "take"
    /\ caller' = [caller EXCEPT ![c] = IF trx[mine[c]].request THEN "queue" ELSE "finish"]
    /\ UNCHANGED <<trxVars, mine, send, bell, bellOpen, CallerUnchanged>>

(* It is taken out of the transaction and handed to the send queue: an error *)
(* when the queue is gone, dropped when that is inactive.  No lock is held:  *)
(* a request expired since it was read has been freed, and is queued all the *)
(* same; what it then contains is sent, or something that the server ignores *)
(* or that makes it close.                                                   *)
QueueRequest(c) ==
    /\ caller[c] = "queue"
    /\ trx' = [trx EXCEPT ![mine[c]].request = FALSE]
    /\ send' = IF queues = "active" THEN Append(send, mine[c]) ELSE send
    /\ caller' = [caller EXCEPT ![c] = IF queues = "destroyed" THEN "finish" ELSE "ring"]
    /\ UNCHANGED <<nextId, pool, mine, bell, bellOpen, CallerUnchanged>>

Ring(c) ==
    /\ caller[c] = "ring"
    /\ bell' = PressBell("message")
    /\ caller' = [caller EXCEPT ![c] = IF bellOpen THEN "wait" ELSE "finish"]
    /\ UNCHANGED <<trxVars, mine, send, bellOpen, CallerUnchanged>>

(* IrpcTransaction_WaitForResponse. *)
Wait(c) ==
    /\ caller[c] = "wait" /\ trx[mine[c]].sync > 0
    /\ trx' = [trx EXCEPT ![mine[c]].sync = @ - 1]
    /\ caller' = [caller EXCEPT ![c] = "finish"]
    /\ UNCHANGED <<nextId, pool, mine, send, bell, bellOpen, CallerUnchanged>>

(* The end of the call releases the caller's reference. *)
Finish(c) ==
    /\ caller[c] = "finish"
    /\ trx' = [trx EXCEPT ![mine[c]] = PutRef(@)]
    /\ caller' = [caller EXCEPT ![c] = "idle"] /\ mine' = [mine EXCEPT ![c] = None]
    /\ UNCHANGED <<nextId, pool, send, bell, bellOpen, CallerUnchanged>>

-----------------------------------------------------------------------------
(* IpcSession_IoWorkerThread.  What it has forgotten or nobody can see any   *)
(* more (the select timeout, the readable flag, bytes in a closed socket) is *)
(* reset, so that states which behave alike are equal.                       *)

IoUnchanged == <<nextId, callVars, rpc, disc, queues, bellOpen, dropped>>

(* The select timeout: IpfTrxMgr_GetMinTimeout counts only the transactions  *)
(* whose time has not come yet.                                              *)
IoTop ==
    /\ io = "top"
    /\ watch' = {x \in pool : ~trx[x].due} /\ io' = "select"
    /\ UNCHANGED <<trx, pool, held, readable, send, recv, bell, sockOpen, rpcSignal, srvVars, IoUnchanged>>

SocketReadable == inbound # <<>> \/ ~peer

(* select() ran out of time, perhaps that of a transaction that has left. *)
IoTimeout ==
    /\ io = "select" /\ bell = <<>> /\ ~SocketReadable
    /\ \E x \in watch : trx[x].due \/ x \notin pool
    /\ ExpireInactive /\ io' = "top" /\ watch' = {}
    /\ UNCHANGED <<held, readable, send, recv, bell, sockOpen, rpcSignal, srvVars, IoUnchanged>>

(* A form that takes the doorbell for a message whatever byte it reads. *)
IoWake_NoQuit ==
    /\ io = "select" /\ (bell # <<>> \/ SocketReadable)
    /\ readable' = SocketReadable
    /\ bell' = IF bell = <<>> THEN bell ELSE Tail(bell)
    /\ io' = "drain"
    /\ watch' = {}
    /\ UNCHANGED <<trx, pool, held, send, recv, sockOpen, rpcSignal, srvVars, IoUnchanged>>

(* select() found something to read; one byte of the doorbell is consumed. *)
IoWake ==
    /\ io = "select" /\ (bell # <<>> \/ SocketReadable)
    /\ readable' = SocketReadable
    /\ bell' = IF bell = <<>> THEN bell ELSE Tail(bell)
    /\ io' = IF bell # <<>> /\ Head(bell) = "quit" THEN "close" ELSE "drain"
    /\ watch' = {}
    /\ UNCHANGED <<trx, pool, held, send, recv, sockOpen, rpcSignal, srvVars, IoUnchanged>>

(* There is a message to send.  IpcSession_SendMsg blocks in send(), maybe   *)
(* for ever, when the server keeps the connection open and does not read.    *)
Sending     == io = "drain" /\ send # <<>> /\ queues = "active"
SendBlocked == Sending /\ peer

(* One message of the send queue is sent.  One that could not be sent is     *)
(* lost; an error that IpcSession_SendMsg reports ends the pass.  None       *)
(* stands for the response to a request of the server.                       *)
IoSend ==
    /\ Sending
    /\ send' = Tail(send)
    /\ \/ /\ peer /\ asked' = asked \cup ({Head(send)} \ {None})
          /\ UNCHANGED <<io, readable>>
       \/ UNCHANGED <<io, readable, asked>>
       \/ /\ io' = IF readable THEN "recv" ELSE "top"
          /\ readable' = FALSE /\ UNCHANGED asked
    /\ UNCHANGED <<trx, pool, watch, held, recv, bell, sockOpen, rpcSignal,
                   inbound, peer, incoming, IoUnchanged>>

(* The send queue is empty. *)
IoDrain ==
    /\ io = "drain" /\ ~Sending
    /\ io' = IF readable THEN "recv" ELSE "top"
    /\ readable' = FALSE
    /\ UNCHANGED <<trx, pool, watch, held, send, recv, bell, sockOpen, rpcSignal, srvVars, IoUnchanged>>

(* The server's end is closed and everything it sent has been read. *)
IoEof ==
    /\ io = "recv" /\ inbound = <<>>
    /\ io' = "close"
    /\ UNCHANGED <<trx, pool, watch, held, readable, send, recv, bell, sockOpen, rpcSignal, srvVars, IoUnchanged>>

(* A form that signals the RPC thread even if the request was not queued. *)
ReceiveRequest_PostOnly ==
    /\ Head(inbound) = <<"request">>
    /\ recv' \in {recv, recv + 1} /\ rpcSignal' = rpcSignal + 1 /\ io' = "frame"
    /\ UNCHANGED <<trx, pool, held>>

(* IpcSession_ReceiveMsg for a request: queued for the RPC thread, or lost.  *)
ReceiveRequest ==
    /\ Head(inbound) = <<"request">> /\ io' = "frame"
    /\ \/ recv' = recv + 1 /\ rpcSignal' = rpcSignal + 1
       \/ MayFail /\ UNCHANGED <<recv, rpcSignal>>
    /\ UNCHANGED <<trx, pool, held>>

(* A form that gives the answer to any transaction of the pool. *)
GetTransaction_Any(x) == pool

(* IpfTrxMgr_GetTransaction: the transaction leaves the pool, which gives up *)
(* its reference.                                                            *)
GetTransaction(x) == pool \cap {x}

ReceiveAnswer ==
    /\ Head(inbound)[1] = "answer"
    /\ LET found == GetTransaction(Head(inbound)[2]) IN
       IF found = {} THEN io' = "frame" /\ UNCHANGED <<trx, pool, held>>
       ELSE \E y \in found :
              /\ pool' = pool \ {y}
              /\ trx' = [trx EXCEPT ![y] = Leave([@ EXCEPT !.response = Head(inbound)[2]])]
              /\ held' = y /\ io' = "got"
    /\ UNCHANGED <<recv, rpcSignal>>

(* A closing frame, or a message the client does not accept. *)
ReceiveBye ==
    /\ Head(inbound) = <<"bye">> /\ io' = "bye"
    /\ UNCHANGED <<trx, pool, held, recv, rpcSignal>>

IoReceive ==
    /\ io = "recv" /\ inbound # <<>>
    /\ ReceiveRequest \/ ReceiveAnswer \/ ReceiveBye
    /\ inbound' = Tail(inbound)
    /\ UNCHANGED <<watch, readable, send, bell, sockOpen, peer, asked, incoming, IoUnchanged>>

(* The response is copied and handed over and the caller signalled.  If it   *)
(* cannot be copied, nobody signals the caller any more: its transaction has *)
(* left the pool.                                                            *)
IoSignal ==
    /\ io = "got"
    /\ \/ trx' = [trx EXCEPT ![held].sync = @ + 1] /\ UNCHANGED dropped
       \/ /\ MayFail
          /\ trx' = [trx EXCEPT ![held].response = None]
          /\ dropped' = dropped \cup {held}
    /\ held' = None /\ io' = "frame"
    /\ UNCHANGED <<nextId, pool, callVars, rpc, disc, queues, bellOpen, watch, readable, send,
                   recv, bell, sockOpen, rpcSignal, srvVars>>

(* Another frame was read together with the last one. *)
IoNextFrame ==
    /\ io = "frame" /\ inbound # <<>> /\ io' = "recv"
    /\ UNCHANGED <<trx, pool, watch, held, readable, send, recv, bell, sockOpen, rpcSignal, srvVars, IoUnchanged>>

IoExpire ==
    /\ io \in {"frame", "bye"}
    /\ ExpireInactive /\ io' = IF io = "bye" THEN "close" ELSE "top"
    /\ UNCHANGED <<watch, held, readable, send, recv, bell, sockOpen, rpcSignal, srvVars, IoUnchanged>>

IoClose ==
    /\ io = "close" /\ sockOpen' = FALSE /\ io' = "post"
    /\ readable' = FALSE /\ inbound' = <<>> /\ asked' = {} /\ peer' = FALSE /\ bell' = <<>>
    /\ UNCHANGED <<trx, pool, watch, held, send, recv, rpcSignal, incoming, IoUnchanged>>

IoPost ==
    /\ io = "post" /\ rpcSignal' = rpcSignal + 1 /\ io' = "done"
    /\ UNCHANGED <<trx, pool, watch, held, readable, send, recv, bell, sockOpen, srvVars, IoUnchanged>>

-----------------------------------------------------------------------------
(* IpcSession_RpcWorkerThread. *)

RpcUnchanged == <<nextId, callVars, queues, bellOpen, sockOpen, disc, ioVars, srvVars>>

(* A signal without a message ends the loop. *)
RpcWait ==
    /\ rpc = "wait" /\ rpcSignal > 0
    /\ rpcSignal' = rpcSignal - 1
    /\ IF queues = "active" /\ recv > 0 THEN rpc' = "handle" /\ recv' = recv - 1
                                        ELSE rpc' = "expire" /\ UNCHANGED recv
    /\ UNCHANGED <<trx, pool, send, bell, RpcUnchanged>>

(* Irpc_ProcessRequest: the application's handler returns ... *)
RpcHandle ==
    /\ rpc = "handle" /\ caller[Rpc] = "idle"
    /\ rpc' = "reply"
    /\ UNCHANGED <<rpcSignal, recv, trx, pool, send, bell, RpcUnchanged>>

(* ... and its response is queued and the doorbell rung. *)
RpcReply ==
    /\ rpc = "reply"
    /\ send' = IF queues = "active" THEN Append(send, None) ELSE send
    /\ bell' = PressBell("message")
    /\ rpc' = "wait"
    /\ UNCHANGED <<rpcSignal, recv, trx, pool, RpcUnchanged>>

(* A form that ends the thread without expiring what is pending. *)
RpcExpire_Skip ==
    /\ rpc = "expire" /\ rpc' = "destroy"
    /\ UNCHANGED <<rpcSignal, recv, trx, pool, send, bell, RpcUnchanged>>

(* What is pending when the connection is lost gets no answer any more. *)
RpcExpire ==
    /\ rpc = "expire" /\ ExpireAll /\ rpc' = "destroy"
    /\ UNCHANGED <<rpcSignal, recv, send, bell, RpcUnchanged>>

(* AppDestroy is called in the application, and the thread ends.  The socket *)
(* is closed, so a call made from there fails at once and is left out.       *)
RpcDestroy ==
    /\ rpc = "destroy" /\ rpc' = "done"
    /\ UNCHANGED <<rpcSignal, recv, trx, pool, send, bell, RpcUnchanged>>

-----------------------------------------------------------------------------
(* IpcSession_Disconnect, called once. *)

DiscUnchanged == <<nextId, callVars, recv, rpc, ioVars, srvVars>>

DiscQuit ==
    /\ disc = "idle" /\ disc' = "joinIo"
    /\ bell' = PressBell("quit")
    /\ UNCHANGED <<trx, pool, send, queues, bellOpen, sockOpen, rpcSignal, DiscUnchanged>>

DiscJoinIo ==
    /\ disc = "joinIo" /\ io = "done" /\ disc' = "close"
    /\ UNCHANGED <<trx, pool, send, queues, bell, bellOpen, sockOpen, rpcSignal, DiscUnchanged>>

DiscClose ==
    /\ disc = "close" /\ disc' = "expire"
    /\ sockOpen' = FALSE /\ bellOpen' = FALSE /\ bell' = <<>>
    /\ queues' = "inactive"
    /\ UNCHANGED <<trx, pool, send, rpcSignal, DiscUnchanged>>

DiscExpire ==
    /\ disc = "expire" /\ ExpireAll /\ disc' = "signal"
    /\ UNCHANGED <<send, queues, bell, bellOpen, sockOpen, rpcSignal, DiscUnchanged>>

DiscSignal ==
    /\ disc = "signal" /\ rpcSignal' = rpcSignal + 1 /\ disc' = "joinRpc"
    /\ UNCHANGED <<trx, pool, send, queues, bell, bellOpen, sockOpen, DiscUnchanged>>

(* The semaphore is initialised again and the queues are destroyed. *)
DiscJoinRpc ==
    /\ disc = "joinRpc" /\ rpc = "done" /\ disc' = "uninit"
    /\ rpcSignal' = 0 /\ queues' = "destroyed" /\ send' = <<>>
    /\ UNCHANGED <<trx, pool, bell, bellOpen, sockOpen, DiscUnchanged>>

(* IpfTrxMgr_Uninit. *)
DiscUninit ==
    /\ disc = "uninit" /\ ExpireAll /\ disc' = "done"
    /\ UNCHANGED <<send, queues, bell, bellOpen, sockOpen, rpcSignal, DiscUnchanged>>

-----------------------------------------------------------------------------
(* The server. *)

ServerUnchanged == <<trxVars, callVars, qVars, sockVars, rpcVars, disc, ioVars>>

ServerAnswer ==
    \E x \in asked :
        /\ peer /\ asked' = asked \ {x}
        /\ inbound' = Append(inbound, <<"answer", x>>)
        /\ UNCHANGED <<peer, incoming, ServerUnchanged>>

ServerRequest ==
    /\ peer /\ incoming < MaxIncoming /\ incoming' = incoming + 1
    /\ inbound' = Append(inbound, <<"request">>)
    /\ UNCHANGED <<peer, asked, ServerUnchanged>>

(* The connection is closed, with or without a closing frame. *)
ServerClose ==
    /\ peer /\ peer' = FALSE /\ asked' = {}
    /\ inbound' \in {inbound, Append(inbound, <<"bye">>)}
    /\ UNCHANGED <<incoming, ServerUnchanged>>

-----------------------------------------------------------------------------
CallerStep(c) == \/ CheckSocket(c) \/ AddTransaction(c) \/ TakeRequest(c)
                 \/ QueueRequest(c) \/ Ring(c) \/ Wait(c) \/ Finish(c)
IoStep == \/ IoTop \/ IoTimeout \/ IoWake \/ IoSend \/ IoDrain \/ IoEof
          \/ IoReceive \/ IoSignal \/ IoNextFrame \/ IoExpire \/ IoClose \/ IoPost
RpcStep == RpcWait \/ RpcHandle \/ RpcReply \/ RpcExpire \/ RpcDestroy
DiscStep == \/ DiscJoinIo \/ DiscClose \/ DiscExpire \/ DiscSignal
            \/ DiscJoinRpc \/ DiscUninit
Server == ServerAnswer \/ ServerRequest \/ ServerClose

Next ==
    \/ \E c \in Callers : Request(c) \/ CallerStep(c)
    \/ \E x \in Trx : Age(x)
    \/ IoStep \/ RpcStep \/ DiscQuit \/ DiscStep \/ Server

Spec == Init /\ [][Next]_vars

(* The threads run, time passes, and a disconnect that was begun goes on.    *)
(* The server owes nothing, not even to read, so a send to a server that     *)
(* keeps the connection open need not end; nobody has to call or to          *)
(* disconnect.                                                               *)
FairSpec ==
    /\ Spec
    /\ \A c \in Callers : WF_vars(CallerStep(c))
    /\ WF_vars(\E x \in Trx : Age(x))
    /\ WF_vars(~SendBlocked /\ IoStep) /\ WF_vars(RpcStep) /\ WF_vars(DiscStep)

-----------------------------------------------------------------------------
(* Properties. *)

(* The caller's transaction is in the pool or has been. *)
Committed(c) == caller[c] \in {"take", "queue", "ring", "wait"}

(* No thread uses a transaction that has been freed, although               *)
(* IpfTrxMgr_GetTransaction returns one on which it holds no reference: the  *)
(* pool, the callers and the I/O thread only have live transactions.         *)
TrxAlive ==
    \A x \in pool \cup {held} \cup {mine[c] : c \in Callers} :
        x # None => trx[x].mem = "live"

(* A caller that is committed to wait will be found by whoever answers or    *)
(* expires: its transaction is in the pool, in the I/O thread's hand, or     *)
(* already signalled - or was dropped, when there was no memory for its      *)
(* response -, exactly one of them.  A response that arrives late is not     *)
(* given to another call.                                                    *)
NoLostTransaction ==
    \A c \in Callers : Committed(c) =>
        LET x         == mine[c]
            pooled    == x \in pool
            inHand    == x = held
            signalled == trx[x].sync = 1
            gone      == x \in dropped
        IN  /\ trx[x].response \in {None, x}
            /\ pooled \/ inHand \/ signalled \/ gone
            /\ pooled => ~(inHand \/ signalled \/ gone)
            /\ inHand => ~(signalled \/ gone)
            /\ ~(signalled /\ gone)

(* The RPC thread leaves its loop only when the connection is closed and, if *)
(* no disconnect cut it short, after every request that was received.        *)
RpcServesAll ==
    rpc \in {"expire", "destroy", "done"} =>
        ~sockOpen /\ (queues = "active" => recv = 0)

(* The I/O thread sleeps although a transaction of the pool is due, which    *)
(* IpfTrxMgr_GetMinTimeout left out of the timeout.                          *)
Oversleeping == io = "select" /\ \E x \in pool \ watch : trx[x].due

(* The connection was lost at a moment when the last expiry, which the RPC   *)
(* thread makes, can miss a call: one that found the socket open and is not  *)
(* yet in the pool, or one of the RPC thread itself.                         *)
Stranded ==
    /\ ~sockOpen
    /\ \/ \E c \in Callers : caller[c] = "add"
       \/ Committed(Rpc)

Disconnecting == disc # "idle"

(* The server reads, or closes the connection: no send blocks for ever. *)
SendsEnd == []<>~SendBlocked

(* Every remote call returns, answered or not, even if the server loses the  *)
(* request or closes, as long as sends end, unless one of the two races      *)
(* above occurs or there was no memory for its response.                     *)
RequestReturns ==
    SendsEnd /\ []~(Oversleeping \/ Stranded) =>
        \A c \in Callers : caller[c] = "wait" ~> caller[c] # "wait" \/ mine[c] \in dropped

(* IpcSession_Disconnect leaves no call behind, whatever races came before:  *)
(* once it has returned, no caller waits for a signal or gets to wait, but   *)
(* for those whose response could not be copied.                             *)
DisconnectReleases ==
    disc = "done" => \A c \in Callers :
        caller[c] = "wait" => trx[mine[c]].sync = 1 \/ mine[c] \in dropped

(* IpcSession_Disconnect returns, whatever calls, answers and requests are   *)
(* in progress, as long as sends end, unless the RPC thread itself waits for *)
(* a response that could not be copied.                                      *)
DisconnectReturns ==
    SendsEnd => (Disconnecting ~> disc = "done" \/ mine[Rpc] \in dropped)

-----------------------------------------------------------------------------
(* The inductive invariant behind the four invariants above. *)

Owned(x) == \E c \in Callers : mine[c] = x

(* A caller has a transaction of its own for the length of its call. *)
CallersHaveTrx ==
    \A c \in Callers :
        /\ caller[c] = "idle" <=> mine[c] = None
        /\ mine[c] # None => mine[c] < nextId
        /\ \A d \in Callers : mine[c] # None /\ mine[c] = mine[d] => c = d

(* A reference for the pool and one for the caller, and no others. *)
RefsCounted ==
    \A x \in Trx :
        /\ x >= nextId => trx[x] = Unused
        /\ trx[x].mem = "live" <=> x \in pool \/ Owned(x)
        /\ trx[x].mem = "live" => trx[x].ref = (IF x \in pool THEN 1 ELSE 0)
                                               + (IF Owned(x) THEN 1 ELSE 0)
        /\ x \in pool => trx[x].sync = 0

(* Before it is in the pool, a transaction is known to its caller only. *)
CallsBegin ==
    \A c \in Callers :
        /\ caller[c] \in {"check", "add"} =>
             mine[c] \notin pool \cup dropped /\ trx[mine[c]].sync = 0
             /\ trx[mine[c]].response = None /\ trx[mine[c]].request
        /\ caller[c] = "take" /\ ~trx[mine[c]].request => trx[mine[c]].sync = 1

(* As long as the I/O thread runs, the callers of all that is in the pool or *)
(* in its hand are committed.                                                *)
CallersStay ==
    /\ io # "done" => \A x \in pool : \E c \in Callers : mine[c] = x /\ Committed(c)
    /\ held = None <=> io # "got"
    /\ held # None => \E c \in Callers : mine[c] = held /\ Committed(c)

(* The order in which IpcSession_Disconnect takes the session apart. *)
DisconnectOrder ==
    /\ disc \notin {"idle", "joinIo"} => io = "done"
    /\ io \in {"post", "done"} => ~sockOpen
    /\ bellOpen <=> disc \in {"idle", "joinIo", "close"}
    /\ queues = "active" <=> bellOpen
    /\ queues = "destroyed" <=> disc \in {"uninit", "done"}
    /\ disc \in {"signal", "joinRpc", "uninit", "done"} =>
         \A c \in Callers :
             caller[c] = "wait" => trx[mine[c]].sync = 1 \/ mine[c] \in dropped

(* The semaphore of the RPC thread counts the requests and the last post of  *)
(* the I/O thread, until the thread has seen that.                           *)
SignalsCounted ==
    queues = "active" =>
        IF rpc \in {"wait", "handle", "reply"}
          THEN rpcSignal = recv + (IF io = "done" THEN 1 ELSE 0)
          ELSE recv = 0 /\ io = "done"

(* What was dropped had been created, and there was no memory. *)
DroppedOK == (\A x \in dropped : x < nextId) /\ (~MayFail => dropped = {})

SessionInvariant ==
    /\ CallersHaveTrx /\ RefsCounted /\ CallsBegin /\ CallersStay
    /\ NoLostTransaction /\ DisconnectOrder /\ SignalsCounted /\ DroppedOK
====
