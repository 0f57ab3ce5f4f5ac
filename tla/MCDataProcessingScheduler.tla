--------------------- MODULE MCDataProcessingScheduler ---------------------
(***************************************************************************)
(* One scheduler of three inputs, as errorScheduler of SensorAccessLink,   *)
(* and four buffers: the fourth is refused.  Buffers are interchangeable.  *)
(***************************************************************************)
EXTENDS DataProcessingScheduler, TLC

CONSTANTS s1, b1, b2, b3, b4

MCSchedulers == {s1}
MCBuffers == {b1, b2, b3, b4}
BufferSymmetry == Permutations(MCBuffers)

=============================================================================
