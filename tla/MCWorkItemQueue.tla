---- MODULE MCWorkItemQueue ----
(* Instances of WorkItemQueue for TLC: threshold events of one participant,  *)
(* deferrable policy callbacks, and the destroy items of the shutdown, with  *)
(* the order of priorities that FrameworkEventInfo gives them.               *)
EXTENDS WorkItemQueue, TLC

CONSTANTS Thresholds, Callbacks, Destroys, OneParticipant

MCItems == Thresholds \cup Callbacks \cup Destroys
MCKind == [i \in MCItems |-> CASE i \in Thresholds -> "threshold"
                               [] i \in Destroys -> "destroy"
                               [] OTHER -> "other"]
MCParticipant == [i \in MCItems |-> OneParticipant]
MCPriority == [i \in MCItems |-> CASE i \in Thresholds -> 1
                                   [] i \in Destroys -> 2
                                   [] OTHER -> 0]
(* A policy removes one callback by its id, or the thresholds by event. *)
MCCriteria == {{i} : i \in Callbacks} \cup {Thresholds}

Symmetry == Permutations(Clients) \cup Permutations(Thresholds)
            \cup Permutations(Callbacks) \cup Permutations(Destroys)
====
