--------------------------- MODULE FrameAssembly ---------------------------
(***************************************************************************)
(* What a translation strategy promises: detections are put, in order, in  *)
(* their pixel of the frame that is being assembled; a measure goes to one *)
(* detection of that frame; the end of a frame produces all of it and      *)
(* nothing else, and starts an empty one.                                  *)
(***************************************************************************)
EXTENDS Naturals, Sequences

CONSTANTS Pixels, Capacity, Tracks, Measures, Ids

VARIABLES assembling, produced

frameVars == <<assembling, produced>>

Empty == [p \in Pixels |-> <<>>]

Init == assembling = Empty /\ produced = [id |-> 0, detections |-> Empty]

Detect(p) ==
  /\ Len(assembling[p]) < Capacity
  /\ \E track \in Tracks : assembling' = [assembling EXCEPT ![p] = Append(@, track)]
  /\ UNCHANGED produced

Measure(p) ==
  /\ \E i \in DOMAIN assembling[p], m \in Measures :
       assembling' = [assembling EXCEPT
         ![p][i] = [@ EXCEPT !.distance = m.distance, !.speed = m.speed,
                             !.acceleration = m.acceleration]]
  /\ UNCHANGED produced

EndFrame ==
  /\ produced' \in [id : Ids, detections : {assembling}]
  /\ assembling' = Empty

Next == EndFrame \/ \E p \in Pixels : Detect(p) \/ Measure(p)

Spec == Init /\ [][Next]_frameVars
=============================================================================
