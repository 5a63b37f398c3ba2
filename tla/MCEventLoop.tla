---------------------------- MODULE MCEventLoop ----------------------------
(* The event loop on small instances. The kernel has a descriptor for every  *)
(* slot and one more, so that a client can be accepted when no slot is free. *)
EXTENDS SpyEventLoop

MCFds == 0 .. connection_n
=============================================================================
