--------------------------- MODULE MCAccessLink ---------------------------
(* One fatal error, and a sensor that delivers messages only: raw data go  *)
(* the same way, through schedulers that here find nothing to consume.     *)
EXTENDS AccessLink
MCDetached == {"detached"}
MCDelivered == {"tm"}
MCCallers == {"main", "detached", "sm", "sr"}
=============================================================================
