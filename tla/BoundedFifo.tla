---- MODULE BoundedFifo ----
(***************************************************************************)
(* What a queue of esif_queue.c with its consumer thread promises to those *)
(* who enqueue: items are dealt with one at a time in the order in which   *)
(* they were accepted, each exactly once, and each is either delivered to  *)
(* the handler or discarded, which the application manager's requeue and   *)
(* the destruction of the queue may do.                                    *)
(***************************************************************************)
EXTENDS Naturals, Sequences

CONSTANTS
    Capacity,  \* items that can be accepted and not yet dealt with
    MaxItems   \* bound on the items, which are numbered in order

VARIABLES
    next,      \* the number of the next item
    pending,   \* accepted and not dealt with
    delivered, discarded

vars == <<next, pending, delivered, discarded>>

Init == next = 1 /\ pending = <<>> /\ delivered = {} /\ discarded = {}

Submit ==
    /\ next <= MaxItems /\ Len(pending) < Capacity
    /\ pending' = Append(pending, next) /\ next' = next + 1
    /\ UNCHANGED <<delivered, discarded>>

Deliver ==
    /\ pending # <<>>
    /\ delivered' = delivered \cup {Head(pending)} /\ pending' = Tail(pending)
    /\ UNCHANGED <<next, discarded>>

Discard ==
    /\ pending # <<>>
    /\ discarded' = discarded \cup {Head(pending)} /\ pending' = Tail(pending)
    /\ UNCHANGED <<next, delivered>>

Next == Submit \/ Deliver \/ Discard

Spec == Init /\ [][Next]_vars
====
