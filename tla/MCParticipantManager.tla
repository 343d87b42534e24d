---- MODULE MCParticipantManager ----
(* Instances of ParticipantManager for TLC: an auto-enumerated participant   *)
(* of the upper framework, one the lower framework enumerates for the same   *)
(* device under another name, and the calls of each kind of thread.          *)
EXTENDS ParticipantManager

CONSTANTS event, shell

Uf == [name |-> "uf", lf |-> FALSE, conjured |-> FALSE, auto |-> TRUE, ptype |-> "fan"]
Lf == [name |-> "lf", lf |-> TRUE, conjured |-> FALSE, auto |-> FALSE, ptype |-> "fan"]

MCMetas == {Uf, Lf}
MCOperations == [t \in {event, shell} |->
    IF t = event THEN {"register", "suspend", "resume", "unregister"}
                 ELSE {"register", "resume", "destroy"}]
====
