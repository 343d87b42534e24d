---- MODULE MCEventManager ----
(* Instances of EventManager for TLC. *)
EXTENDS EventManager, TLC

CONSTANTS c1, c2, o1, o2, o3

(* Each thread looks after its own observer, as the managers of the upper   *)
(* framework do; the event thread does so from inside callbacks.            *)
OwnObservers == (c1 :> {o1}) @@ (c2 :> {o2}) @@ (EventThread :> {o3})

(* The same with one client. *)
OneClient == (c1 :> {o1}) @@ (EventThread :> {o3})
====
