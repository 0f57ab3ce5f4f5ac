------------------------------ MODULE Topology ------------------------------
(***************************************************************************)
(* The two ends of a ConsumerLink: the ring buffers and their consumers.   *)
(* DataProcessingScheduler is the only class that implements ConsumerLink. *)
(***************************************************************************)
CONSTANTS Buffers, Schedulers
=============================================================================
