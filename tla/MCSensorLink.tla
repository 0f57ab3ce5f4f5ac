--------------------------- MODULE MCSensorLink ---------------------------
(* Values for SensorLink: a fixed bound each, all of them reached. *)
EXTENDS SensorLink
MCCanHandle == {0, 1}
=============================================================================
