-------------------------- MODULE PointerListProofs --------------------------
(***************************************************************************)
(* What the operations of the pointer lists do to a well formed list.      *)
(***************************************************************************)
EXTENDS PointerList, FiniteSetTheorems, WellFoundedInduction, TLAPS

(* Every nonempty set of naturals has a least element. *)
LEMMA LeastElement ==
    ASSUME NEW S, S \subseteq Nat, S # {}
    PROVE  \E k \in S : \A j \in S : k <= j
<1>1. \E k \in S : \A j \in S : ~(<<j, k>> \in OpToRel(<, Nat))
  BY NatLessThanWellFounded, WFMin
<1>2. \A j, k \in Nat : ~(<<j, k>> \in OpToRel(<, Nat)) => k <= j
  BY DEF OpToRel
<1>3. QED
  BY <1>1, <1>2

(* advanceMarker reaches every slot from every slot. *)
LEMMA MarkerReachesEverySlot ==
    ASSUME NEW marker \in Position, NEW p \in Position
    PROVE  \E k \in Position : Advance(marker, k) = p
<1>1. CASE p >= marker
  <2>1. p - marker \in Position /\ Advance(marker, p - marker) = p
    BY <1>1, SizeAssumption, SMT DEF Position, Advance
  <2>2. QED
    BY <2>1
<1>2. CASE p < marker
  <2>1. p - marker + SIZE \in Position /\ Advance(marker, p - marker + SIZE) = p
    BY <1>2, SizeAssumption, SMT DEF Position, Advance
  <2>2. QED
    BY <2>1
<1>3. QED
  BY <1>1, <1>2, SizeAssumption DEF Position

(* The loops that place a marker end, on a slot of the set they look for.  *)
LEMMA MarkerPlacement ==
    ASSUME NEW marker \in Position, NEW S, S \subseteq Position, S # {}
    PROVE  FirstFrom(marker, S) \in S
<1> DEFINE K == {k \in Position : Advance(marker, k) \in S}
<1>1. K # {}
  <2>1. PICK p \in S : p \in Position
    OBVIOUS
  <2>2. QED
    BY <2>1, MarkerReachesEverySlot
<1>2. PICK k \in K : \A j \in K : k <= j
  <2>1. K \subseteq Nat
    BY SizeAssumption DEF Position
  <2> HIDE DEF K
  <2>2. QED
    BY <1>1, <2>1, LeastElement
<1>3. \A j \in 0..(k - 1) : Advance(marker, j) \notin S
  <2>1. SUFFICES ASSUME NEW j \in 0..(k - 1), Advance(marker, j) \in S
                 PROVE  FALSE
    OBVIOUS
  <2>2. j \in Position /\ ~(k <= j)
    BY <1>2, SizeAssumption DEF Position
  <2>3. QED
    BY <1>2, <2>1, <2>2
<1>4. \E i \in Position : /\ Advance(marker, i) \in S
                          /\ \A j \in 0..(i - 1) : Advance(marker, j) \notin S
  BY <1>2, <1>3
<1>5. QED
  BY <1>4 DEF FirstFrom

-----------------------------------------------------------------------------

LEMMA PositionsAreFinite ==
    /\ IsFiniteSet(Position)
    /\ Cardinality(Position) = SIZE
<1>1. SIZE - 1 \in Int /\ 0 \in Int /\ ~(0 > SIZE - 1) /\ SIZE - 1 - 0 + 1 = SIZE
  BY SizeAssumption
<1>2. QED
  BY <1>1, FS_Interval DEF Position

LEMMA OccupiedIsFinite ==
    ASSUME NEW l
    PROVE  IsFiniteSet(Occupied(l)) /\ Occupied(l) \subseteq Position
BY PositionsAreFinite, FS_Subset DEF Occupied

LEMMA ContainsIsHeld ==
    ASSUME NEW l, NEW x, x # NoPointer
    PROVE  Contains(l, x) <=> x \in Held(l)
BY DEF Contains, Held, Occupied

LEMMA EmptyListIsWellFormed ==
    ASSUME NEW Pointer
    PROVE  /\ EmptyList \in Lists(Pointer)
           /\ WellFormed(EmptyList)
           /\ Held(EmptyList) = {}
           /\ EmptyList.held = 0
<1>1. Occupied(EmptyList) = {}
  BY DEF Occupied, EmptyList
<1>2. EmptyList \in Lists(Pointer)
  BY SizeAssumption DEF EmptyList, Lists, Position
<1>3. WellFormed(EmptyList)
  BY <1>1, FS_EmptySet DEF WellFormed, EmptyList
<1>4. QED
  BY <1>1, <1>2, <1>3 DEF Held, EmptyList

(* A list that isFull() does not call full has a free slot. *)
LEMMA FreeSlot ==
    ASSUME NEW l, WellFormed(l), ~IsFull(l)
    PROVE  Position \ Occupied(l) # {}
<1>1. Cardinality(Occupied(l)) # Cardinality(Position)
  BY PositionsAreFinite DEF WellFormed, IsFull
<1>2. QED
  BY <1>1, OccupiedIsFinite

(* store on a list that is not full and does not hold x adds exactly x. *)
LEMMA StoreAdds ==
    ASSUME NEW Pointer, NoPointer \notin Pointer,
           NEW l \in Lists(Pointer), WellFormed(l), ~IsFull(l),
           NEW x \in Pointer, x \notin Held(l)
    PROVE  /\ Store(l, x) \in Lists(Pointer)
           /\ WellFormed(Store(l, x))
           /\ Held(Store(l, x)) = Held(l) \cup {x}
           /\ Store(l, x).held = l.held + 1
<1> DEFINE slot == FirstFrom(l.producerMarker, Position \ Occupied(l))
           m == Store(l, x)
<1>1. slot \in Position /\ slot \notin Occupied(l)
  <2>1. l.producerMarker \in Position
    BY DEF Lists
  <2>2. QED
    BY <2>1, FreeSlot, MarkerPlacement
<1> HIDE DEF slot
<1>2. /\ m.pointers = [l.pointers EXCEPT ![slot] = x]
      /\ m.producerMarker = slot
      /\ m.consumerMarker = l.consumerMarker
      /\ m.held = l.held + 1
  BY DEF Store, slot
<1>3. m = [pointers |-> m.pointers, producerMarker |-> m.producerMarker,
           consumerMarker |-> m.consumerMarker, held |-> m.held]
  BY DEF Store
<1> HIDE DEF m
<1>4. l.pointers \in [Position -> Pointer \cup {NoPointer}] /\ l.held \in 0..SIZE
      /\ l.consumerMarker \in Position
  BY DEF Lists
<1>5. /\ m.pointers \in [Position -> Pointer \cup {NoPointer}]
      /\ m.pointers[slot] = x
      /\ \A p \in Position : p # slot => m.pointers[p] = l.pointers[p]
  BY <1>1, <1>2, <1>4
<1>6. Occupied(m) = Occupied(l) \cup {slot}
  BY <1>1, <1>5 DEF Occupied
<1>7. Cardinality(Occupied(m)) = Cardinality(Occupied(l)) + 1
  BY <1>1, <1>6, OccupiedIsFinite, FS_AddElement
<1>8. m \in Lists(Pointer)
  <2>1. m.held \in 0..SIZE
    BY <1>2, <1>4, SizeAssumption DEF IsFull
  <2>2. QED
    BY <1>1, <1>2, <1>3, <1>4, <1>5, <2>1 DEF Lists
<1>9. WellFormed(m)
  <2>1. ASSUME NEW p \in Occupied(m), NEW q \in Occupied(m), m.pointers[p] = m.pointers[q]
        PROVE  p = q
    <3>1. \A r \in Occupied(l) : l.pointers[r] # x
      BY DEF Held
    <3>2. Occupied(l) \subseteq Position
      BY OccupiedIsFinite
    <3>3. QED
      BY <1>1, <1>5, <1>6, <2>1, <3>1, <3>2 DEF WellFormed
  <2>2. QED
    BY <1>2, <1>7, <2>1 DEF WellFormed
<1>10. Held(m) = Held(l) \cup {x}
  <2>1. \A p \in Occupied(l) : m.pointers[p] = l.pointers[p]
    BY <1>1, <1>5, OccupiedIsFinite
  <2>2. QED
    BY <1>5, <1>6, <2>1 DEF Held
<1>11. QED
  BY <1>2, <1>8, <1>9, <1>10 DEF m

(* std::find finds x if some slot holds it. *)
LEMMA FindsPosition ==
    ASSUME NEW l, NEW x, Contains(l, x)
    PROVE  PositionOf(l, x) \in Position /\ l.pointers[PositionOf(l, x)] = x
<1> DEFINE S == {p \in Position : l.pointers[p] = x}
<1>1. S \subseteq Nat /\ S # {}
  BY SizeAssumption DEF Contains, Position
<1>2. PICK p \in S : \A q \in S : p <= q
  <2> HIDE DEF S
  <2>1. QED
    BY <1>1, LeastElement
<1>3. \A q \in 0..(p - 1) : l.pointers[q] # x
  <2>1. SUFFICES ASSUME NEW q \in 0..(p - 1), l.pointers[q] = x
                 PROVE  FALSE
    OBVIOUS
  <2>2. q \in Position /\ ~(p <= q)
    BY <1>2, SizeAssumption DEF Position
  <2>3. QED
    BY <1>2, <2>1, <2>2
<1>4. QED
  BY <1>2, <1>3 DEF PositionOf

(* remove takes out exactly x: no other slot held it. *)
LEMMA RemoveTakesOut ==
    ASSUME NEW Pointer, NoPointer \notin Pointer,
           NEW l \in Lists(Pointer), WellFormed(l),
           NEW x \in Pointer, x \in Held(l)
    PROVE  /\ Remove(l, x) \in Lists(Pointer)
           /\ WellFormed(Remove(l, x))
           /\ Held(Remove(l, x)) = Held(l) \ {x}
           /\ Remove(l, x).held = l.held - 1
           /\ l.held >= 1
<1> DEFINE slot == PositionOf(l, x)
           m == Remove(l, x)
<1>1. slot \in Occupied(l) /\ l.pointers[slot] = x /\ slot \in Position
  BY ContainsIsHeld, FindsPosition DEF Occupied
<1> HIDE DEF slot
<1>2. l.pointers \in [Position -> Pointer \cup {NoPointer}] /\ l.held \in 0..SIZE
  BY DEF Lists
<1>3. /\ m.pointers = [l.pointers EXCEPT ![slot] = NoPointer]
      /\ m.held = l.held - 1
      /\ m = [l EXCEPT !.pointers = m.pointers, !.held = m.held]
  BY DEF Remove, slot, Lists
<1> HIDE DEF m
<1>4. /\ m.pointers \in [Position -> Pointer \cup {NoPointer}]
      /\ m.pointers[slot] = NoPointer
      /\ \A p \in Position : p # slot => m.pointers[p] = l.pointers[p]
  BY <1>1, <1>2, <1>3
<1>5. Occupied(m) = Occupied(l) \ {slot}
  BY <1>4 DEF Occupied
<1>6. Cardinality(Occupied(m)) = Cardinality(Occupied(l)) - 1
  BY <1>1, <1>5, OccupiedIsFinite, FS_RemoveElement
<1>7. l.held >= 1
  <2>1. Occupied(l) # {}
    BY <1>1
  <2>2. Cardinality(Occupied(l)) # 0
    BY <2>1, OccupiedIsFinite, FS_EmptySet
  <2>3. QED
    BY <1>2, <2>2, SizeAssumption DEF WellFormed
<1>8. m \in Lists(Pointer)
  <2>1. m.held \in 0..SIZE
    BY <1>2, <1>3, <1>7, SizeAssumption
  <2>2. QED
    BY <1>3, <1>4, <2>1 DEF Lists
<1>9. WellFormed(m)
  BY <1>3, <1>4, <1>5, <1>6, OccupiedIsFinite DEF WellFormed
<1>10. Held(m) = Held(l) \ {x}
  <2>1. \A p \in Occupied(m) : m.pointers[p] = l.pointers[p]
    BY <1>4, <1>5, OccupiedIsFinite
  <2>2. \A p \in Occupied(l) : p # slot => l.pointers[p] # x
    BY <1>1 DEF WellFormed
  <2>3. QED
    BY <1>1, <1>5, <2>1, <2>2 DEF Held
<1>11. QED
  BY <1>3, <1>7, <1>8, <1>9, <1>10 DEF m

(* readNextPointerToConsume on a list that isEmpty() does not call empty   *)
(* returns a pointer the list holds, and takes nothing out.                *)
LEMMA ConsumerMarkerIsOnHeldPointer ==
    ASSUME NEW Pointer, NEW l \in Lists(Pointer), WellFormed(l), ~IsEmpty(l)
    PROVE  /\ PlaceConsumerMarker(l) \in Lists(Pointer)
           /\ WellFormed(PlaceConsumerMarker(l))
           /\ Held(PlaceConsumerMarker(l)) = Held(l)
           /\ PlaceConsumerMarker(l).held = l.held
           /\ AtConsumerMarker(PlaceConsumerMarker(l)) \in Held(l)
<1> DEFINE slot == FirstFrom(l.consumerMarker, Occupied(l))
           m == PlaceConsumerMarker(l)
<1>1. slot \in Occupied(l) /\ slot \in Position
  <2>1. Occupied(l) # {}
    BY FS_EmptySet DEF WellFormed, IsEmpty
  <2>2. l.consumerMarker \in Position
    BY DEF Lists
  <2>3. QED
    BY <2>1, <2>2, OccupiedIsFinite, MarkerPlacement
<1> HIDE DEF slot
<1>2. m \in Lists(Pointer) /\ m.consumerMarker = slot
      /\ m.pointers = l.pointers /\ m.held = l.held
  BY <1>1 DEF PlaceConsumerMarker, slot, Lists
<1> HIDE DEF m
<1>3. Occupied(m) = Occupied(l)
  BY <1>2 DEF Occupied
<1>4. WellFormed(m) /\ Held(m) = Held(l) /\ AtConsumerMarker(m) \in Held(l)
  BY <1>1, <1>2, <1>3 DEF WellFormed, Held, AtConsumerMarker
<1>5. QED
  BY <1>2, <1>4 DEF m

=============================================================================
