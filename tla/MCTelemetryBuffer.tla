------------------------- MODULE MCTelemetryBuffer -------------------------
(* TelemetryBuffer on small instances. *)
EXTENDS TelemetryBuffer
=============================================================================
