---- MODULE MCPrimitiveQueue ----
(* Instances of PrimitiveQueue for TLC. *)
EXTENDS PrimitiveQueue
====
