--------------------------- MODULE MCTranslation ---------------------------
(* More tracks than a pixel holds, and a speed of each sign. *)
EXTENDS Translation
MCTrackIds == {1, 258, 3}
MCSpeeds == {-2, 300}
(* Every channel has a sample of its own; then two are negative, one whose  *)
(* low byte is lost and one whose low byte is what its sign extends to.    *)
Ordinal == [i \in 1..16 |-> 259 * i]
MCRawContents == {Ordinal, [Ordinal EXCEPT ![1] = -32768, ![2] = -257]}
=============================================================================
