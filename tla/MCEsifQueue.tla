---- MODULE MCEsifQueue ----
(* Instances of EsifQueue for TLC. *)
EXTENDS EsifQueue
====
