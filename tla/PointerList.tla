---------------------------- MODULE PointerList ----------------------------
(***************************************************************************)
(* The constant sized pointer containers of common/container: an array of  *)
(* SIZE slots, a producer marker, a consumer marker and the counter        *)
(* numberOfPointersHeld.  A list is a value; every operator below is one   *)
(* method of the code, which runs under the list's contentMutex.           *)
(***************************************************************************)
EXTENDS Naturals, FiniteSets

CONSTANTS SIZE,       \* the template parameter SIZE
          NoPointer   \* nullptr, the content of a free slot

(* numberOfPointersHeld is an AtomicCounter, one byte wide: it must be able *)
(* to reach SIZE, or isFull would never be true.                            *)
ASSUME SizeAssumption == SIZE \in 1..255

Position == 0..(SIZE - 1)

Lists(Pointer) ==
    [pointers : [Position -> Pointer \cup {NoPointer}],
     producerMarker : Position, consumerMarker : Position, held : 0..SIZE]

EmptyList ==
    [pointers |-> [p \in Position |-> NoPointer],
     producerMarker |-> 0, consumerMarker |-> 0, held |-> 0]

IsEmpty(l) == l.held = 0
IsFull(l)  == l.held = SIZE

Occupied(l) == {p \in Position : l.pointers[p] # NoPointer}
Held(l)     == {l.pointers[p] : p \in Occupied(l)}
Contains(l, x) == \E p \in Position : l.pointers[p] = x

(* The marker k slots further: advanceMarker wraps at END. *)
Advance(marker, k) ==
    IF marker + k < SIZE THEN marker + k ELSE marker + k - SIZE

(* The first slot of S met by advancing the marker, itself included: the   *)
(* two while loops that place a marker.                                    *)
FirstFrom(marker, S) ==
    Advance(marker, CHOOSE k \in Position :
                        /\ Advance(marker, k) \in S
                        /\ \A j \in 0..(k - 1) : Advance(marker, j) \notin S)

(* store: the producer marker stops on the slot it fills.  On a full list *)
(* the code throws; here held would leave its type, which is checked.      *)
Store(l, x) ==
    LET slot == FirstFrom(l.producerMarker, Position \ Occupied(l))
    IN  [pointers |-> [l.pointers EXCEPT ![slot] = x],
         producerMarker |-> slot,
         consumerMarker |-> l.consumerMarker,
         held |-> l.held + 1]

(* std::find: the lowest position that holds x. *)
PositionOf(l, x) ==
    CHOOSE p \in Position :
        l.pointers[p] = x /\ \A q \in 0..(p - 1) : l.pointers[q] # x

(* Faulty: the counter keeps counting a pointer that is gone. *)
RemoveUncounted(l, x) ==
    [l EXCEPT !.pointers = [l.pointers EXCEPT ![PositionOf(l, x)] = NoPointer]]

(* remove: neither marker moves. *)
Remove(l, x) ==
    [l EXCEPT !.pointers = [l.pointers EXCEPT ![PositionOf(l, x)] = NoPointer],
              !.held = l.held - 1]

(* Faulty: the marker moves on first, as in a round robin. *)
PlaceConsumerMarkerOnNext(l) ==
    [l EXCEPT !.consumerMarker = FirstFrom(Advance(l.consumerMarker, 1), Occupied(l))]

(* The consumer marker as readNextPointerToConsume and consumeNext leave   *)
(* it: on an occupied slot, the very same one while that slot is occupied. *)
PlaceConsumerMarker(l) ==
    [l EXCEPT !.consumerMarker = FirstFrom(l.consumerMarker, Occupied(l))]

AtConsumerMarker(l) == l.pointers[l.consumerMarker]

(* A list that repeats nothing and whose counter is right. *)
WellFormed(l) ==
    /\ l.held = Cardinality(Occupied(l))
    /\ \A p, q \in Occupied(l) : l.pointers[p] = l.pointers[q] => p = q

=============================================================================
