---- MODULE MCIpfSession ----
(* Instances of IpfSession for TLC. *)
EXTENDS IpfSession
====
