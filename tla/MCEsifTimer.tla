---- MODULE MCEsifTimer ----
(* Instances of EsifTimer for TLC. *)
EXTENDS EsifTimer
====
