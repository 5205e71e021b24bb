--------------------------- MODULE MCEventBuffer ---------------------------
(* EventBuffer on small instances. *)
EXTENDS EventBuffer
=============================================================================
