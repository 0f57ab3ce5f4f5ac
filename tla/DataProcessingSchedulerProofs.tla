------------------- MODULE DataProcessingSchedulerProofs -------------------
(***************************************************************************)
(* The scheduler's lists stay a partition of its linked buffers, and its   *)
(* thread never throws, for every number of inputs, buffers and schedulers.*)
(***************************************************************************)
EXTENDS DataProcessingScheduler, PointerListProofs

(* The four invariants are inductive together: the typing of the lists     *)
(* needs their counters to be exact, and the thread's safety needs every   *)
(* removal from ready to be its own.                                       *)
SchedulerInv ==
    /\ SchedulerTypeOK
    /\ LinkPartition
    /\ ThreadNeverThrows
    /\ ConsumedBufferIsReady

(* What LinkPartition says of one scheduler. *)
Partition(r, n, number) ==
    /\ WellFormed(r)
    /\ WellFormed(n)
    /\ Held(r) \cap Held(n) = {}
    /\ number = r.held + n.held

LEMMA LinkPartitionIsPartition ==
    LinkPartition <=>
        \A s \in Schedulers : Partition(ready[s], notReady[s], numberOfLinkedBuffers[s])
BY DEF LinkPartition, Partition

LEMMA NoPointerIsNoBuffer == \A b \in Buffers : b # NoPointer
BY BufferAssumption

(* Moving x from the list f to the list t, as activateFor and deactivateFor*)
(* do, keeps the partition; t has room for x because f held it.            *)
LEMMA MoveKeepsPartition ==
    ASSUME NEW f \in Lists(Buffers), NEW t \in Lists(Buffers), NEW number \in 0..SIZE,
           Partition(f, t, number), NEW x \in Buffers, Contains(f, x)
    PROVE  /\ Remove(f, x) \in Lists(Buffers)
           /\ Store(t, x) \in Lists(Buffers)
           /\ Partition(Remove(f, x), Store(t, x), number)
           /\ Held(Remove(f, x)) = Held(f) \ {x}
           /\ Held(Store(t, x)) = Held(t) \cup {x}
           /\ Store(t, x).held >= 1
<1>1. x \in Held(f) /\ x \notin Held(t)
  BY ContainsIsHeld, NoPointerIsNoBuffer DEF Partition
<1>2. f.held \in 0..SIZE /\ t.held \in 0..SIZE /\ SIZE \in Nat
  BY SizeAssumption DEF Lists
<1>3. /\ Remove(f, x) \in Lists(Buffers)
      /\ WellFormed(Remove(f, x))
      /\ Held(Remove(f, x)) = Held(f) \ {x}
      /\ Remove(f, x).held = f.held - 1
      /\ f.held >= 1
  BY <1>1, RemoveTakesOut, BufferAssumption DEF Partition
<1>4. ~IsFull(t)
  BY <1>2, <1>3 DEF Partition, IsFull
<1>5. /\ Store(t, x) \in Lists(Buffers)
      /\ WellFormed(Store(t, x))
      /\ Held(Store(t, x)) = Held(t) \cup {x}
      /\ Store(t, x).held = t.held + 1
  BY <1>1, <1>4, StoreAdds, BufferAssumption DEF Partition
<1>6. Partition(Remove(f, x), Store(t, x), number)
  BY <1>1, <1>2, <1>3, <1>5 DEF Partition
<1>7. QED
  BY <1>2, <1>3, <1>5, <1>6

LEMMA PartitionIsSymmetric ==
    ASSUME NEW f \in Lists(Buffers), NEW t \in Lists(Buffers), NEW number,
           Partition(f, t, number)
    PROVE  Partition(t, f, number)
<1>1. f.held \in 0..SIZE /\ t.held \in 0..SIZE /\ SIZE \in Nat
  BY SizeAssumption DEF Lists
<1>2. QED
  BY <1>1 DEF Partition

LEMMA SchedulerInitInv == SchedulerInit => SchedulerInv
<1> SUFFICES ASSUME SchedulerInit PROVE SchedulerInv
  OBVIOUS
<1> USE DEF SchedulerInit
<1>1. SchedulerTypeOK
  BY EmptyListIsWellFormed, SizeAssumption DEF SchedulerTypeOK, ThreadLocations
<1>2. LinkPartition
  BY EmptyListIsWellFormed DEF LinkPartition
<1>3. ThreadNeverThrows /\ ConsumedBufferIsReady
  BY DEF ThreadNeverThrows, ConsumedBufferIsReady
<1>4. QED
  BY <1>1, <1>2, <1>3 DEF SchedulerInv

-----------------------------------------------------------------------------
(* Each operation preserves the invariant. *)

LEMMA LinkWithInv ==
    ASSUME SchedulerInv, NEW s \in Schedulers, NEW b \in Buffers, LinkWith(s, b)
    PROVE  SchedulerInv'
<1> USE DEF SchedulerInv
<1> DEFINE n == notReady[s]
<1>1. /\ ready[s] \in Lists(Buffers) /\ n \in Lists(Buffers)
      /\ numberOfLinkedBuffers[s] \in 0..SIZE
      /\ SIZE \in Nat
  BY SizeAssumption DEF SchedulerTypeOK
<1>2. Partition(ready[s], n, numberOfLinkedBuffers[s])
  BY LinkPartitionIsPartition
<1>3. b \notin Held(n) /\ b \notin Held(ready[s])
  BY ContainsIsHeld, NoPointerIsNoBuffer DEF LinkWith, IsLinked
<1>4. ready[s].held \in 0..SIZE /\ n.held \in 0..SIZE
  BY <1>1 DEF Lists
<1>5. ~IsFull(n) /\ numberOfLinkedBuffers[s] + 1 \in 0..SIZE
  BY <1>1, <1>2, <1>4 DEF Partition, IsFull, LinkWith
<1>6. /\ Store(n, b) \in Lists(Buffers)
      /\ WellFormed(Store(n, b))
      /\ Held(Store(n, b)) = Held(n) \cup {b}
      /\ Store(n, b).held = n.held + 1
  BY <1>1, <1>2, <1>3, <1>5, StoreAdds, BufferAssumption DEF Partition
<1>7. Partition(ready[s], Store(n, b), numberOfLinkedBuffers[s] + 1)
  BY <1>1, <1>2, <1>3, <1>4, <1>6 DEF Partition
<1>8. SchedulerTypeOK'
  BY <1>5, <1>6 DEF SchedulerTypeOK, LinkWith
<1>9. LinkPartition'
  BY <1>2, <1>7 DEF SchedulerTypeOK, LinkWith, LinkPartition, Partition
<1>10. (ThreadNeverThrows /\ ConsumedBufferIsReady)'
  BY DEF ThreadNeverThrows, ConsumedBufferIsReady, LinkWith
<1>11. QED
  BY <1>8, <1>9, <1>10

LEMMA ActivateForInv ==
    ASSUME SchedulerInv, NEW s \in Schedulers, ActivatedByWriter(s)
    PROVE  SchedulerInv'
<1> USE DEF SchedulerInv
<1>1. PICK b \in Buffers : ActivateFor(s, b)
  BY DEF ActivatedByWriter
<1>2. UNCHANGED <<numberOfLinkedBuffers, terminateOrderReceived, threadAt,
                  inputBuffer, joined>>
  BY DEF ActivatedByWriter
<1>3. CASE ~Contains(notReady[s], b)
  <2>1. UNCHANGED schedulerVars
    BY <1>1, <1>2, <1>3 DEF ActivateFor, statusVars, schedulerVars
  <2>2. QED
    BY <2>1 DEF schedulerVars, SchedulerTypeOK, LinkPartition, ThreadNeverThrows,
                ConsumedBufferIsReady
<1>4. CASE Contains(notReady[s], b)
  <2> DEFINE r == Store(ready[s], b)
             n == Remove(notReady[s], b)
  <2>1. /\ ready' = [ready EXCEPT ![s] = r]
        /\ notReady' = [notReady EXCEPT ![s] = n]
    BY <1>1, <1>4 DEF ActivateFor
  <2>2. /\ ready[s] \in Lists(Buffers) /\ notReady[s] \in Lists(Buffers)
        /\ numberOfLinkedBuffers[s] \in 0..SIZE
    BY DEF SchedulerTypeOK
  <2>3. Partition(notReady[s], ready[s], numberOfLinkedBuffers[s])
    BY <2>2, LinkPartitionIsPartition, PartitionIsSymmetric
  <2>4. /\ r \in Lists(Buffers) /\ n \in Lists(Buffers)
        /\ Partition(n, r, numberOfLinkedBuffers[s])
        /\ Held(r) = Held(ready[s]) \cup {b}
        /\ r.held >= 1
    BY <1>4, <2>2, <2>3, MoveKeepsPartition
  <2>5. Partition(r, n, numberOfLinkedBuffers[s])
    BY <2>4, PartitionIsSymmetric
  <2> HIDE DEF r, n
  <2>6. SchedulerTypeOK'
    BY <1>2, <2>1, <2>4 DEF SchedulerTypeOK
  <2>7. LinkPartition'
    BY <1>2, <2>1, <2>5, LinkPartitionIsPartition DEF SchedulerTypeOK, LinkPartition, Partition
  <2>8. ~IsEmpty(r)
    BY <2>4 DEF IsEmpty, Lists
  <2>9. ThreadNeverThrows'
    BY <1>2, <2>1, <2>8 DEF SchedulerTypeOK, ThreadNeverThrows
  <2>10. \A x \in Buffers : Contains(ready[s], x) => Contains(r, x)
    BY <2>4, ContainsIsHeld, NoPointerIsNoBuffer
  <2>11. ConsumedBufferIsReady'
    BY <1>2, <2>1, <2>10 DEF SchedulerTypeOK, ConsumedBufferIsReady
  <2>12. QED
    BY <2>6, <2>7, <2>9, <2>11
<1>5. QED
  BY <1>3, <1>4

LEMMA ConsumeNextDataInv ==
    ASSUME SchedulerInv, NEW s \in Schedulers, ConsumeNextData(s)
    PROVE  SchedulerInv'
<1> USE DEF SchedulerInv
<1> DEFINE b == inputBuffer[s]
<1>1. /\ threadAt[s] = "consume"
      /\ threadAt' = [threadAt EXCEPT ![s] = "copy"]
      /\ UNCHANGED <<numberOfLinkedBuffers, terminateOrderReceived, inputBuffer, joined>>
  BY DEF ConsumeNextData, Goto
<1>2. b \in Buffers /\ Contains(ready[s], b)
  BY <1>1 DEF ConsumedBufferIsReady
<1>3. CASE UNCHANGED statusVars
  BY <1>1, <1>2, <1>3 DEF statusVars, SchedulerTypeOK, ThreadLocations, LinkPartition,
                          ThreadNeverThrows, ConsumedBufferIsReady
<1>4. CASE DeactivateFor(s, b)
  <2> DEFINE r == Remove(ready[s], b)
             n == Store(notReady[s], b)
  <2>1. /\ ready' = [ready EXCEPT ![s] = r]
        /\ notReady' = [notReady EXCEPT ![s] = n]
    BY <1>2, <1>4 DEF DeactivateFor
  <2>2. /\ ready[s] \in Lists(Buffers) /\ notReady[s] \in Lists(Buffers)
        /\ numberOfLinkedBuffers[s] \in 0..SIZE
    BY DEF SchedulerTypeOK
  <2>3. Partition(ready[s], notReady[s], numberOfLinkedBuffers[s])
    BY LinkPartitionIsPartition
  <2>4. /\ r \in Lists(Buffers) /\ n \in Lists(Buffers)
        /\ Partition(r, n, numberOfLinkedBuffers[s])
    BY <1>2, <2>2, <2>3, MoveKeepsPartition
  <2> HIDE DEF r, n
  <2>5. SchedulerTypeOK'
    BY <1>1, <2>1, <2>4 DEF SchedulerTypeOK, ThreadLocations
  <2>6. LinkPartition'
    BY <1>1, <2>1, <2>4 DEF SchedulerTypeOK, LinkPartition, Partition
  <2>7. (ThreadNeverThrows /\ ConsumedBufferIsReady)'
    BY <1>1, <1>2, <2>1 DEF SchedulerTypeOK, ThreadNeverThrows, ConsumedBufferIsReady
  <2>8. QED
    BY <2>5, <2>6, <2>7
<1>5. QED
  BY <1>3, <1>4 DEF ConsumeNextData

LEMMA ReadNextInv ==
    ASSUME SchedulerInv, NEW s \in Schedulers, ReadNextPointerToConsume(s)
    PROVE  SchedulerInv'
<1> USE DEF SchedulerInv
<1> DEFINE r == PlaceConsumerMarker(ready[s])
<1>1. threadAt[s] = "readNext" /\ ~IsEmpty(ready[s])
  BY DEF ReadNextPointerToConsume, Goto, ThreadNeverThrows
<1>2. /\ threadAt' = [threadAt EXCEPT ![s] = "consume"]
      /\ ready' = [ready EXCEPT ![s] = r]
      /\ inputBuffer' = [inputBuffer EXCEPT ![s] = AtConsumerMarker(r)]
      /\ UNCHANGED <<notReady, numberOfLinkedBuffers, terminateOrderReceived, joined>>
  BY <1>1 DEF ReadNextPointerToConsume, Goto
<1>3. ready[s] \in Lists(Buffers) /\ WellFormed(ready[s])
  BY DEF SchedulerTypeOK, LinkPartition
<1>4. /\ r \in Lists(Buffers)
      /\ WellFormed(r)
      /\ Held(r) = Held(ready[s])
      /\ r.held = ready[s].held
      /\ AtConsumerMarker(r) \in Held(ready[s])
  BY <1>1, <1>3, ConsumerMarkerIsOnHeldPointer
<1> HIDE DEF r
<1>5. AtConsumerMarker(r) \in Buffers
  BY <1>3, <1>4, NoPointerIsNoBuffer DEF Held, Occupied, Lists
<1>6. Contains(r, AtConsumerMarker(r))
  BY <1>4, <1>5, ContainsIsHeld, NoPointerIsNoBuffer
<1>7. SchedulerTypeOK'
  BY <1>2, <1>4, <1>5 DEF SchedulerTypeOK, ThreadLocations
<1>8. LinkPartition'
  BY <1>2, <1>4 DEF SchedulerTypeOK, LinkPartition
<1>9. (ThreadNeverThrows /\ ConsumedBufferIsReady)'
  BY <1>2, <1>5, <1>6 DEF SchedulerTypeOK, ThreadNeverThrows, ConsumedBufferIsReady
<1>10. QED
  BY <1>7, <1>8, <1>9

(* The steps that leave both lists alone. *)
LEMMA OtherStepsInv ==
    ASSUME SchedulerInv, NEW s \in Schedulers,
           \/ OrderTermination(s) \/ Join(s) \/ ReadIsEmpty(s) \/ ReadTerminateOrder(s)
           \/ EnterLoopBody(s) \/ FinishConsumption(s)
    PROVE  SchedulerInv'
<1> USE DEF SchedulerInv, SchedulerTypeOK, ThreadLocations, LinkPartition,
            ThreadNeverThrows, ConsumedBufferIsReady, Goto
<1>1. CASE OrderTermination(s)
  BY <1>1 DEF OrderTermination
<1>2. CASE Join(s)
  BY <1>2 DEF Join
<1>3. CASE ReadIsEmpty(s)
  BY <1>3 DEF ReadIsEmpty
<1>4. CASE ReadTerminateOrder(s)
  BY <1>4 DEF ReadTerminateOrder
<1>5. CASE EnterLoopBody(s)
  BY <1>5 DEF EnterLoopBody
<1>6. CASE FinishConsumption(s)
  BY <1>6 DEF FinishConsumption
<1>7. QED
  BY <1>1, <1>2, <1>3, <1>4, <1>5, <1>6

(* Every step but linkWith leaves the set of linked buffers as it is.      *)
OtherSchedulerStep ==
    \E s \in Schedulers : \/ ActivatedByWriter(s)
                          \/ ConsumeNextData(s)
                          \/ OrderTermination(s)
                          \/ Join(s)
                          \/ LoopStep(s)
                          \/ FinishConsumption(s)

LEMMA LinkedMeansHeld ==
    ASSUME NEW s, NEW b \in Buffers
    PROVE  IsLinked(s, b) <=> b \in Held(notReady[s]) \cup Held(ready[s])
BY ContainsIsHeld, NoPointerIsNoBuffer DEF IsLinked

(* The same in the next state, where the lists are those after the step.   *)
LEMMA LinkedMeansHeldAfter ==
    ASSUME NEW s, NEW b \in Buffers
    PROVE  IsLinked(s, b)' <=> b \in Held(notReady'[s]) \cup Held(ready'[s])
BY ContainsIsHeld, NoPointerIsNoBuffer DEF IsLinked

LEMMA LinkWithLinks ==
    ASSUME SchedulerInv, NEW s \in Schedulers, NEW b \in Buffers, LinkWith(s, b),
           NEW t \in Schedulers, NEW c \in Buffers
    PROVE  IsLinked(t, c)' <=> IsLinked(t, c) \/ (t = s /\ c = b)
<1> USE DEF SchedulerInv
<1> DEFINE n == notReady[s]
<1>1. /\ ready[s] \in Lists(Buffers) /\ n \in Lists(Buffers)
      /\ numberOfLinkedBuffers[s] \in 0..SIZE
      /\ SIZE \in Nat
  BY SizeAssumption DEF SchedulerTypeOK
<1>2. Partition(ready[s], n, numberOfLinkedBuffers[s])
  BY LinkPartitionIsPartition
<1>3. b \notin Held(n)
  BY ContainsIsHeld, NoPointerIsNoBuffer DEF LinkWith, IsLinked
<1>4. ready[s].held \in 0..SIZE /\ n.held \in 0..SIZE
  BY <1>1 DEF Lists
<1>5. ~IsFull(n)
  BY <1>1, <1>2, <1>4 DEF Partition, IsFull, LinkWith
<1>6. Held(Store(n, b)) = Held(n) \cup {b}
  BY <1>1, <1>2, <1>3, <1>5, StoreAdds, BufferAssumption DEF Partition
<1> HIDE DEF n
<1>7. ready' = ready /\ notReady' = [notReady EXCEPT ![s] = Store(n, b)]
      /\ notReady \in [Schedulers -> Lists(Buffers)]
  BY DEF LinkWith, n, SchedulerTypeOK
<1>8. Held(notReady'[t]) = IF t = s THEN Held(n) \cup {b} ELSE Held(notReady[t])
  BY <1>6, <1>7
<1>9. QED
  BY <1>7, <1>8, LinkedMeansHeld, LinkedMeansHeldAfter DEF n

LEMMA OtherStepsKeepLinks ==
    ASSUME SchedulerInv, [OtherSchedulerStep]_schedulerVars,
           NEW t \in Schedulers, NEW c \in Buffers
    PROVE  IsLinked(t, c)' <=> IsLinked(t, c)
<1> USE DEF SchedulerInv
<1>1. /\ ready \in [Schedulers -> Lists(Buffers)]
      /\ notReady \in [Schedulers -> Lists(Buffers)]
      /\ \A s \in Schedulers : numberOfLinkedBuffers[s] \in 0..SIZE
      /\ \A s \in Schedulers : Partition(ready[s], notReady[s], numberOfLinkedBuffers[s])
  BY LinkPartitionIsPartition DEF SchedulerTypeOK
<1>2. CASE UNCHANGED <<ready, notReady>>
  BY <1>2 DEF IsLinked
<1>3. ASSUME NEW s \in Schedulers, NEW b \in Buffers, ActivateFor(s, b), Contains(notReady[s], b)
      PROVE  IsLinked(t, c)' <=> IsLinked(t, c)
  <2>1. /\ ready' = [ready EXCEPT ![s] = Store(ready[s], b)]
        /\ notReady' = [notReady EXCEPT ![s] = Remove(notReady[s], b)]
    BY <1>3 DEF ActivateFor
  <2>2. Partition(notReady[s], ready[s], numberOfLinkedBuffers[s])
    BY <1>1, PartitionIsSymmetric
  <2>3. /\ Held(Remove(notReady[s], b)) = Held(notReady[s]) \ {b}
        /\ Held(Store(ready[s], b)) = Held(ready[s]) \cup {b}
    BY <1>1, <1>3, <2>2, MoveKeepsPartition
  <2>4. b \in Held(notReady[s])
    BY <1>3, ContainsIsHeld, NoPointerIsNoBuffer
  <2>5. Held(notReady'[t]) \cup Held(ready'[t]) = Held(notReady[t]) \cup Held(ready[t])
    BY <1>1, <2>1, <2>3, <2>4
  <2>6. QED
    BY <2>5, LinkedMeansHeld, LinkedMeansHeldAfter
<1>4. ASSUME NEW s \in Schedulers, NEW b \in Buffers, DeactivateFor(s, b), Contains(ready[s], b)
      PROVE  IsLinked(t, c)' <=> IsLinked(t, c)
  <2>1. /\ ready' = [ready EXCEPT ![s] = Remove(ready[s], b)]
        /\ notReady' = [notReady EXCEPT ![s] = Store(notReady[s], b)]
    BY <1>4 DEF DeactivateFor
  <2>2. /\ Held(Remove(ready[s], b)) = Held(ready[s]) \ {b}
        /\ Held(Store(notReady[s], b)) = Held(notReady[s]) \cup {b}
    BY <1>1, <1>4, MoveKeepsPartition
  <2>3. b \in Held(ready[s])
    BY <1>4, ContainsIsHeld, NoPointerIsNoBuffer
  <2>4. Held(notReady'[t]) \cup Held(ready'[t]) = Held(notReady[t]) \cup Held(ready[t])
    BY <1>1, <2>1, <2>2, <2>3
  <2>5. QED
    BY <2>4, LinkedMeansHeld, LinkedMeansHeldAfter
<1>5. ASSUME NEW s \in Schedulers, ReadNextPointerToConsume(s), ~IsEmpty(ready[s])
      PROVE  IsLinked(t, c)' <=> IsLinked(t, c)
  <2>1. ready' = [ready EXCEPT ![s] = PlaceConsumerMarker(ready[s])] /\ notReady' = notReady
    BY <1>5 DEF ReadNextPointerToConsume
  <2>2. Held(PlaceConsumerMarker(ready[s])) = Held(ready[s])
    BY <1>1, <1>5, ConsumerMarkerIsOnHeldPointer DEF Partition
  <2>3. Held(ready'[t]) = Held(ready[t])
    BY <1>1, <2>1, <2>2
  <2>4. QED
    BY <2>1, <2>3, LinkedMeansHeld, LinkedMeansHeldAfter
<1>6. ASSUME NEW s \in Schedulers, ActivatedByWriter(s)
      PROVE  IsLinked(t, c)' <=> IsLinked(t, c)
  BY <1>2, <1>3, <1>6 DEF ActivatedByWriter, ActivateFor, statusVars
<1>7. ASSUME NEW s \in Schedulers, ConsumeNextData(s)
      PROVE  IsLinked(t, c)' <=> IsLinked(t, c)
  <2>1. inputBuffer[s] \in Buffers
    BY <1>7 DEF ConsumeNextData, Goto, ConsumedBufferIsReady
  <2>2. QED
    BY <1>2, <1>4, <1>7, <2>1 DEF ConsumeNextData, DeactivateFor, statusVars
<1>8. ASSUME NEW s \in Schedulers,
             OrderTermination(s) \/ Join(s) \/ LoopStep(s) \/ FinishConsumption(s)
      PROVE  IsLinked(t, c)' <=> IsLinked(t, c)
  BY <1>2, <1>5, <1>8 DEF OrderTermination, Join, LoopStep, ReadIsEmpty, ReadTerminateOrder,
                          EnterLoopBody, ReadNextPointerToConsume, FinishConsumption
<1>9. QED
  BY <1>2, <1>6, <1>7, <1>8 DEF OtherSchedulerStep, schedulerVars

(* What each operation does to the buffers that are ready.                 *)
LEMMA ReadyAfterActivation ==
    ASSUME SchedulerInv, NEW s \in Schedulers, NEW b \in Buffers, ActivateFor(s, b),
           NEW t \in Schedulers
    PROVE  Held(ready'[t]) = IF t = s THEN Held(ready[s]) \cup {b} ELSE Held(ready[t])
<1>1. /\ ready \in [Schedulers -> Lists(Buffers)]
      /\ notReady \in [Schedulers -> Lists(Buffers)]
      /\ numberOfLinkedBuffers[s] \in 0..SIZE
      /\ Partition(notReady[s], ready[s], numberOfLinkedBuffers[s])
  BY LinkPartitionIsPartition, PartitionIsSymmetric DEF SchedulerInv, SchedulerTypeOK
<1>2. CASE Contains(notReady[s], b)
  <2>1. ready' = [ready EXCEPT ![s] = Store(ready[s], b)]
    BY <1>2 DEF ActivateFor
  <2>2. Held(Store(ready[s], b)) = Held(ready[s]) \cup {b}
    BY <1>1, <1>2, MoveKeepsPartition
  <2>3. QED
    BY <1>1, <2>1, <2>2
<1>3. CASE ~Contains(notReady[s], b)
  <2>1. ready' = ready /\ Contains(ready[s], b)
    BY <1>3 DEF ActivateFor, IsLinked, statusVars
  <2>2. b \in Held(ready[s])
    BY <2>1, ContainsIsHeld, NoPointerIsNoBuffer
  <2>3. QED
    BY <2>1, <2>2
<1>4. QED
  BY <1>2, <1>3

LEMMA ReadyAfterDeactivation ==
    ASSUME SchedulerInv, NEW s \in Schedulers, NEW b \in Buffers, DeactivateFor(s, b),
           NEW t \in Schedulers
    PROVE  Held(ready'[t]) = IF t = s THEN Held(ready[s]) \ {b} ELSE Held(ready[t])
<1>1. /\ ready \in [Schedulers -> Lists(Buffers)]
      /\ notReady \in [Schedulers -> Lists(Buffers)]
      /\ numberOfLinkedBuffers[s] \in 0..SIZE
      /\ Partition(ready[s], notReady[s], numberOfLinkedBuffers[s])
  BY LinkPartitionIsPartition DEF SchedulerInv, SchedulerTypeOK
<1>2. CASE Contains(ready[s], b)
  <2>1. ready' = [ready EXCEPT ![s] = Remove(ready[s], b)]
    BY <1>2 DEF DeactivateFor
  <2>2. Held(Remove(ready[s], b)) = Held(ready[s]) \ {b}
    BY <1>1, <1>2, MoveKeepsPartition
  <2>3. QED
    BY <1>1, <2>1, <2>2
<1>3. CASE ~Contains(ready[s], b)
  <2>1. ready' = ready
    BY <1>3 DEF DeactivateFor, statusVars
  <2>2. b \notin Held(ready[s])
    BY <1>3, ContainsIsHeld, NoPointerIsNoBuffer
  <2>3. QED
    BY <2>1, <2>2
<1>4. QED
  BY <1>2, <1>3

LEMMA LoopKeepsReady ==
    ASSUME SchedulerInv, NEW s \in Schedulers, LoopStep(s), NEW t \in Schedulers
    PROVE  Held(ready'[t]) = Held(ready[t])
<1>1. CASE ReadNextPointerToConsume(s) /\ ~IsEmpty(ready[s])
  <2>1. /\ ready \in [Schedulers -> Lists(Buffers)]
        /\ WellFormed(ready[s])
    BY DEF SchedulerInv, SchedulerTypeOK, LinkPartition
  <2>2. ready' = [ready EXCEPT ![s] = PlaceConsumerMarker(ready[s])]
    BY <1>1 DEF ReadNextPointerToConsume
  <2>3. Held(PlaceConsumerMarker(ready[s])) = Held(ready[s])
    BY <1>1, <2>1, ConsumerMarkerIsOnHeldPointer
  <2>4. QED
    BY <2>1, <2>2, <2>3
<1>2. CASE ready' = ready
  BY <1>2
<1>3. QED
  BY <1>1, <1>2 DEF LoopStep, ReadIsEmpty, ReadTerminateOrder, EnterLoopBody,
                    ReadNextPointerToConsume

(* The inductive invariant of the scheduler alone. *)
THEOREM SchedulerInvariant == SchedulerSpec => []SchedulerInv
<1>1. SchedulerInit => SchedulerInv
  BY SchedulerInitInv
<1>2. SchedulerInv /\ [SchedulerNext]_schedulerVars => SchedulerInv'
  <2> SUFFICES ASSUME SchedulerInv, [SchedulerNext]_schedulerVars
               PROVE  SchedulerInv'
    OBVIOUS
  <2>1. CASE UNCHANGED schedulerVars
    BY <2>1 DEF schedulerVars, SchedulerInv, SchedulerTypeOK, LinkPartition,
                ThreadNeverThrows, ConsumedBufferIsReady
  <2>2. ASSUME NEW s \in Schedulers, NEW b \in Buffers, LinkWith(s, b)
        PROVE  SchedulerInv'
    BY <2>2, LinkWithInv
  <2>3. ASSUME NEW s \in Schedulers, ActivatedByWriter(s)
        PROVE  SchedulerInv'
    BY <2>3, ActivateForInv
  <2>4. ASSUME NEW s \in Schedulers, ConsumeNextData(s)
        PROVE  SchedulerInv'
    BY <2>4, ConsumeNextDataInv
  <2>5. ASSUME NEW s \in Schedulers, ReadNextPointerToConsume(s)
        PROVE  SchedulerInv'
    BY <2>5, ReadNextInv
  <2>6. ASSUME NEW s \in Schedulers,
               \/ OrderTermination(s) \/ Join(s) \/ ReadIsEmpty(s)
               \/ ReadTerminateOrder(s) \/ EnterLoopBody(s) \/ FinishConsumption(s)
        PROVE  SchedulerInv'
    BY <2>6, OtherStepsInv
  <2>7. QED
    BY <2>1, <2>2, <2>3, <2>4, <2>5, <2>6 DEF SchedulerNext, LoopStep
<1>3. QED
  BY <1>1, <1>2, PTL DEF SchedulerSpec

(* Every variable keeps its type; in particular neither list ever holds    *)
(* more buffers than it has slots for.                                     *)
THEOREM SchedulerTyping == SchedulerSpec => []SchedulerTypeOK
<1>1. SchedulerInv => SchedulerTypeOK
  BY DEF SchedulerInv
<1>2. QED
  BY <1>1, SchedulerInvariant, PTL

(* A linked buffer is in exactly one of the two lists, once, and the three *)
(* counters are exact: linkWith, activateFor and deactivateFor keep this.  *)
THEOREM LinkedBuffersArePartitioned == SchedulerSpec => []LinkPartition
<1>1. SchedulerInv => LinkPartition
  BY DEF SchedulerInv
<1>2. QED
  BY <1>1, SchedulerInvariant, PTL

(* The exception of readNextPointerToConsume on an empty list, which no    *)
(* handler in start() would catch, is never thrown.                        *)
THEOREM SchedulerThreadNeverThrows == SchedulerSpec => []ThreadNeverThrows
<1>1. SchedulerInv => ThreadNeverThrows
  BY DEF SchedulerInv
<1>2. QED
  BY <1>1, SchedulerInvariant, PTL

(* consumeNextDataFor runs on a linked buffer that is still ready.         *)
THEOREM ConsumptionIsFromReadyBuffer == SchedulerSpec => []ConsumedBufferIsReady
<1>1. SchedulerInv => ConsumedBufferIsReady
  BY DEF SchedulerInv
<1>2. QED
  BY <1>1, SchedulerInvariant, PTL

-----------------------------------------------------------------------------
(* The order of the ready list.                                            *)

LEMMA DistanceIsPosition ==
    ASSUME NEW marker \in Position, NEW p \in Position
    PROVE  /\ Distance(marker, p) \in Position
           /\ Distance(marker, p) = 0 <=> p = marker
           /\ Advance(marker, Distance(marker, p)) = p
BY SizeAssumption DEF Distance, Advance, Position

LEMMA DistanceOfAdvanced ==
    ASSUME NEW marker \in Position, NEW k \in Position
    PROVE  Advance(marker, k) \in Position /\ Distance(marker, Advance(marker, k)) = k
BY SizeAssumption DEF Distance, Advance, Position

LEMMA DistancesDiffer ==
    ASSUME NEW marker \in Position, NEW p \in Position, NEW q \in Position,
           Distance(marker, p) = Distance(marker, q)
    PROVE  p = q
BY SizeAssumption DEF Distance, Position

(* Distances from one marker, seen from another. *)
LEMMA DistanceFromAnother ==
    ASSUME NEW marker \in Position, NEW other \in Position, NEW p \in Position
    PROVE  Distance(other, p) =
             LET e == Distance(marker, other)
                 d == Distance(marker, p)
             IN  IF d >= e THEN d - e ELSE d + SIZE - e
BY SizeAssumption DEF Distance, Position

(* A marker stops on the nearest slot of those it looks for. *)
LEMMA MarkerStopsAtNearest ==
    ASSUME NEW marker \in Position, NEW S, S \subseteq Position, S # {}, NEW p \in S
    PROVE  Distance(marker, FirstFrom(marker, S)) <= Distance(marker, p)
<1> DEFINE D == {Distance(marker, q) : q \in S}
           P(k) == /\ Advance(marker, k) \in S
                   /\ \A j \in 0..(k - 1) : Advance(marker, j) \notin S
<1>1. D \subseteq Nat /\ D # {}
  <2>1. \A q \in S : Distance(marker, q) \in Position
    BY DistanceIsPosition
  <2>2. Position \subseteq Nat
    BY SizeAssumption DEF Position
  <2>3. QED
    BY <2>1, <2>2
<1>2. PICK d \in D : \A e \in D : d <= e
  <2> HIDE DEF D
  <2>1. QED
    BY <1>1, LeastElement
<1>3. d \in Position /\ Advance(marker, d) \in S
  BY DistanceIsPosition
<1>4. \A j \in 0..(d - 1) : Advance(marker, j) \notin S
  <2>1. SUFFICES ASSUME NEW j \in 0..(d - 1), Advance(marker, j) \in S
                 PROVE  FALSE
    OBVIOUS
  <2>2. j \in Position /\ ~(d <= j)
    BY <1>3, SizeAssumption DEF Position
  <2>3. Distance(marker, Advance(marker, j)) = j
    BY <2>2, DistanceOfAdvanced
  <2>4. j \in D
    BY <2>1, <2>3
  <2>5. QED
    BY <1>2, <2>2, <2>4
<1>5. \E k \in Position : P(k)
  BY <1>3, <1>4
<1>6. PICK k \in Position : FirstFrom(marker, S) = Advance(marker, k) /\ P(k)
  <2>1. FirstFrom(marker, S) = Advance(marker, CHOOSE k \in Position : P(k))
    BY DEF FirstFrom
  <2> HIDE DEF P
  <2>2. QED
    BY <1>5, <2>1
<1>7. Distance(marker, FirstFrom(marker, S)) = k
  BY <1>6, DistanceOfAdvanced
<1>8. ~(Distance(marker, p) < k)
  <2>1. SUFFICES ASSUME Distance(marker, p) < k PROVE FALSE
    OBVIOUS
  <2>2. Distance(marker, p) \in Position /\ Advance(marker, Distance(marker, p)) = p
    BY DistanceIsPosition
  <2>3. Distance(marker, p) \in 0..(k - 1)
    BY <2>1, <2>2, SizeAssumption DEF Position
  <2>4. QED
    BY <1>6, <2>2, <2>3
<1>9. QED
  BY <1>7, <1>8, DistanceIsPosition, SizeAssumption DEF Position

(* How the slots are occupied: without a gap from behind the consumer      *)
(* marker to before the producer marker and not beyond, or everywhere but  *)
(* perhaps where both markers are.                                         *)
QueueShape(l) ==
    LET d(p) == Distance(l.consumerMarker, p)
        last == d(l.producerMarker)
    IN  \/ \A p \in Position : /\ d(p) > last => p \notin Occupied(l)
                               /\ 0 < d(p) /\ d(p) < last => p \in Occupied(l)
        \/ last = 0 /\ \A p \in Position : d(p) > 0 => p \in Occupied(l)

LEMMA PositionOfHeld ==
    ASSUME NEW l, WellFormed(l), NEW p \in Occupied(l)
    PROVE  PositionOf(l, l.pointers[p]) = p
<1>1. p \in Position /\ l.pointers[p] # NoPointer
  BY DEF Occupied
<1>2. Contains(l, l.pointers[p])
  BY <1>1 DEF Contains
<1>3. /\ PositionOf(l, l.pointers[p]) \in Position
      /\ l.pointers[PositionOf(l, l.pointers[p])] = l.pointers[p]
  BY <1>2, FindsPosition
<1>4. PositionOf(l, l.pointers[p]) \in Occupied(l)
  BY <1>1, <1>3 DEF Occupied
<1>5. QED
  BY <1>3, <1>4 DEF WellFormed

(* The order of pointers is that of their slots, which they do not change. *)
LEMMA OrderOfSlots ==
    ASSUME NEW l, NEW m, WellFormed(l), WellFormed(m),
           \A p \in Occupied(l) \cap Occupied(m) : m.pointers[p] = l.pointers[p],
           \A q \in Occupied(m) \ Occupied(l) : m.pointers[q] \notin Held(l),
           \A p \in Occupied(l) \cap Occupied(m) : \A q \in Occupied(m) \ {p} :
               (q \in Occupied(l) =>
                    Distance(l.consumerMarker, p) < Distance(l.consumerMarker, q))
                 => Distance(m.consumerMarker, p) < Distance(m.consumerMarker, q)
    PROVE  OrderIsKept(l, m)
<1> SUFFICES ASSUME NEW x \in Held(l) \cap Held(m), NEW y \in Held(m) \ {x},
                    y \in Held(l) => Turn(l, x) < Turn(l, y)
             PROVE  Turn(m, x) < Turn(m, y)
  BY DEF OrderIsKept
<1>1. PICK p \in Occupied(m) : m.pointers[p] = x
  BY DEF Held
<1>2. PICK q \in Occupied(m) : m.pointers[q] = y
  BY DEF Held
<1>3. p \in Occupied(l) /\ l.pointers[p] = x /\ q # p
  BY <1>1, <1>2
<1>4. Turn(m, x) = Distance(m.consumerMarker, p) /\ Turn(m, y) = Distance(m.consumerMarker, q)
  BY <1>1, <1>2, PositionOfHeld DEF Turn
<1>5. Turn(l, x) = Distance(l.consumerMarker, p)
  BY <1>3, PositionOfHeld DEF Turn
<1>6. ASSUME q \in Occupied(l)
      PROVE  Distance(l.consumerMarker, p) < Distance(l.consumerMarker, q)
  <2>1. l.pointers[q] = y /\ y \in Held(l)
    BY <1>2, <1>6 DEF Held
  <2>2. Turn(l, y) = Distance(l.consumerMarker, q)
    BY <1>6, <2>1, PositionOfHeld DEF Turn
  <2>3. QED
    BY <1>5, <2>1, <2>2
<1>7. QED
  BY <1>3, <1>4, <1>6

(* Stored last, read last, unless the slot found is behind the others.     *)
LEMMA StoreKeepsOrder ==
    ASSUME NEW Pointer, NoPointer \notin Pointer,
           NEW l \in Lists(Pointer), WellFormed(l), ~IsFull(l), QueueShape(l),
           NEW x \in Pointer, x \notin Held(l)
    PROVE  /\ QueueShape(Store(l, x))
           /\ IsFull(Store(l, x)) \/ OrderIsKept(l, Store(l, x))
           /\ AtConsumerMarker(l) # NoPointer
                 => AtConsumerMarker(Store(l, x)) = AtConsumerMarker(l)
<1> DEFINE free == Position \ Occupied(l)
           slot == FirstFrom(l.producerMarker, free)
           m == Store(l, x)
           d(p) == Distance(l.consumerMarker, p)
           last == d(l.producerMarker)
<1>1. l.producerMarker \in Position /\ l.consumerMarker \in Position
  BY DEF Lists
<1>2. slot \in Position /\ slot \notin Occupied(l)
  BY <1>1, FreeSlot, MarkerPlacement
<1>3. \A p \in free : Distance(l.producerMarker, slot) <= Distance(l.producerMarker, p)
  BY <1>1, FreeSlot, MarkerStopsAtNearest
<1>4. /\ m \in Lists(Pointer) /\ WellFormed(m)
      /\ m.producerMarker = slot /\ m.consumerMarker = l.consumerMarker
      /\ m.pointers = [l.pointers EXCEPT ![slot] = x]
  BY StoreAdds DEF Store
<1>5. l.pointers \in [Position -> Pointer \cup {NoPointer}]
  BY DEF Lists
<1> HIDE DEF m, slot
<1>6. Occupied(m) = Occupied(l) \cup {slot}
  BY <1>2, <1>4, <1>5 DEF Occupied
<1>7. \A p \in Position : /\ d(p) \in Position
                          /\ d(p) = 0 <=> p = l.consumerMarker
                          /\ \A q \in Position : d(p) = d(q) => p = q
  BY <1>1, DistanceIsPosition, DistancesDiffer
<1> DEFINE AtEnd == /\ \A p \in Occupied(l) : d(p) < d(slot)
                    /\ \A p \in Position : 0 < d(p) /\ d(p) < d(slot) => p \in Occupied(l)
           AtMarker == slot = l.consumerMarker /\ \A p \in Position : p # slot => p \in Occupied(l)
<1>8. AtEnd \/ AtMarker
  <2> DEFINE Straight == \A p \in Position : /\ d(p) > last => p \notin Occupied(l)
                                             /\ 0 < d(p) /\ d(p) < last => p \in Occupied(l)
  <2>1. CASE Straight /\ l.producerMarker \in free
    <3>1. Distance(l.producerMarker, slot) <= 0
      BY <1>1, <1>3, <2>1, DistanceIsPosition
    <3>2. slot = l.producerMarker
      <4>1. Distance(l.producerMarker, slot) \in Position
        BY <1>1, <1>2, DistanceIsPosition
      <4>2. Distance(l.producerMarker, slot) = 0
        BY <3>1, <4>1, SizeAssumption DEF Position
      <4>3. QED
        BY <1>1, <1>2, <4>2, DistanceIsPosition
    <3>3. \A p \in Occupied(l) : p \in Position /\ p # slot
      BY <1>2 DEF Occupied
    <3>4. \A p \in Occupied(l) : d(p) # last /\ ~(d(p) > last)
      BY <1>1, <1>7, <2>1, <3>2, <3>3
    <3> HIDE DEF d
    <3>5. \A p \in Occupied(l) : d(p) < last
      BY <1>1, <1>7, <3>3, <3>4, SizeAssumption DEF Position
    <3>6. QED
      BY <2>1, <3>2, <3>5
  <2>2. CASE Straight /\ l.producerMarker \in Occupied(l) /\ last < SIZE - 1
    <3> DEFINE next == Advance(l.consumerMarker, last + 1)
    <3>1. last + 1 \in Position
      BY <1>1, <1>7, <2>2, SizeAssumption DEF Position
    <3>2. next \in Position /\ d(next) = last + 1
      BY <1>1, <3>1, DistanceOfAdvanced
    <3> HIDE DEF next
    <3>3. next \in free
      BY <1>1, <1>7, <2>2, <3>2, SizeAssumption DEF Position
    <3>4. Distance(l.producerMarker, next) = 1
      BY <1>1, <1>7, <3>2, DistanceFromAnother, SizeAssumption DEF Position
    <3>5. Distance(l.producerMarker, slot) \in Position /\ Distance(l.producerMarker, slot) # 0
      BY <1>1, <1>2, <2>2, DistanceIsPosition
    <3>6. Distance(l.producerMarker, slot) = 1
      BY <1>3, <3>3, <3>4, <3>5, SizeAssumption DEF Position
    <3>7. slot = next
      BY <1>1, <1>2, <3>2, <3>4, <3>6, DistancesDiffer
    <3>8. \A p \in Occupied(l) : p \in Position /\ ~(d(p) > last)
      BY <2>2 DEF Occupied
    <3>9. \A p \in Position : 0 < d(p) /\ d(p) < last + 1 => p \in Occupied(l)
      <4>1. SUFFICES ASSUME NEW p \in Position, 0 < d(p), d(p) < last + 1
                     PROVE  p \in Occupied(l)
        OBVIOUS
      <4>2. d(p) \in Nat /\ last \in Nat
        BY <1>1, <1>7, SizeAssumption DEF Position
      <4>3. CASE d(p) < last
        BY <2>2, <4>1, <4>3
      <4>4. CASE d(p) = last
        BY <1>1, <1>7, <2>2, <4>4
      <4> HIDE DEF d, last
      <4>5. QED
        BY <4>1, <4>2, <4>3, <4>4
    <3>10. \A p \in Position : d(p) \in Nat
      BY <1>7, SizeAssumption DEF Position
    <3>11. \A p \in Occupied(l) : d(p) < last + 1
      <4> HIDE DEF d
      <4>1. QED
        BY <1>1, <3>8, <3>10
    <3>12. QED
      BY <3>2, <3>7, <3>9, <3>11
  <2>3. CASE /\ Straight \/ (last = 0 /\ \A p \in Position : d(p) > 0 => p \in Occupied(l))
             /\ l.producerMarker \in Occupied(l) \/ last = 0
             /\ Straight => l.producerMarker \in Occupied(l) /\ ~(last < SIZE - 1)
    <3>1. \A p \in Position : d(p) > 0 => p \in Occupied(l)
      <4>1. CASE ~Straight
        BY <2>3, <4>1
      <4>2. CASE Straight
        <5>1. SUFFICES ASSUME NEW p \in Position, d(p) > 0 PROVE p \in Occupied(l)
          OBVIOUS
        <5>2. d(p) \in 0..(SIZE - 1) /\ last \in 0..(SIZE - 1)
          BY <1>1, <1>7 DEF Position
        <5>3. CASE d(p) = last
          BY <1>1, <1>7, <2>3, <4>2, <5>3
        <5>4. CASE d(p) < last
          BY <4>2, <5>1, <5>4
        <5> HIDE DEF d, last
        <5>5. QED
          BY <2>3, <4>2, <5>2, <5>3, <5>4, SizeAssumption
      <4>3. QED
        BY <4>1, <4>2
    <3>2. \A p \in Position : p # l.consumerMarker => p \in Occupied(l)
      <4>1. \A p \in Position : p # l.consumerMarker => d(p) > 0
        <5>1. \A p \in Position : d(p) \in Nat /\ (p # l.consumerMarker => d(p) # 0)
          BY <1>7, SizeAssumption DEF Position
        <5> HIDE DEF d
        <5>2. QED
          BY <5>1
      <4>2. QED
        BY <3>1, <4>1
    <3>3. slot = l.consumerMarker
      BY <1>2, <3>2
    <3>4. QED
      BY <3>2, <3>3
  <2>4. Straight \/ (last = 0 /\ \A p \in Position : d(p) > 0 => p \in Occupied(l))
    BY DEF QueueShape
  <2>5. l.producerMarker \in free \/ l.producerMarker \in Occupied(l)
    BY <1>1
  <2> HIDE DEF Straight, d, last, AtEnd, AtMarker, free
  <2>6. QED
    BY <2>1, <2>2, <2>3, <2>4, <2>5
<1>9. CASE AtEnd
  <2>1. \A p \in Position : d(p) > d(slot) => p \notin Occupied(m)
    <3>1. \A p \in Position : d(p) \in Nat
      BY <1>7, SizeAssumption DEF Position
    <3> HIDE DEF d
    <3>2. QED
      BY <1>2, <1>6, <1>9, <3>1
  <2>2. \A p \in Position : 0 < d(p) /\ d(p) < d(slot) => p \in Occupied(m)
    BY <1>6, <1>9
  <2>3. QueueShape(m)
    BY <1>4, <2>1, <2>2 DEF QueueShape
  <2>4. OrderIsKept(l, m)
    <3>1. \A p \in Occupied(l) \cap Occupied(m) : m.pointers[p] = l.pointers[p]
      BY <1>2, <1>4, <1>5 DEF Occupied
    <3>2. \A q \in Occupied(m) \ Occupied(l) : m.pointers[q] \notin Held(l)
      BY <1>2, <1>4, <1>5, <1>6
    <3>3. \A p \in Occupied(l) \cap Occupied(m) : \A q \in Occupied(m) \ {p} :
             (q \in Occupied(l) =>
                 Distance(l.consumerMarker, p) < Distance(l.consumerMarker, q))
               => Distance(m.consumerMarker, p) < Distance(m.consumerMarker, q)
      BY <1>4, <1>6, <1>9
    <3>4. QED
      BY <1>4, <3>1, <3>2, <3>3, OrderOfSlots
  <2>5. QED
    BY <2>3, <2>4, <1>2, <1>4, <1>5 DEF AtConsumerMarker, Occupied, Lists, m
<1>10. CASE AtMarker
  <2>1. Occupied(m) = Position
    BY <1>2, <1>6, <1>10, OccupiedIsFinite
  <2>2. IsFull(m)
    BY <1>4, <2>1, PositionsAreFinite DEF WellFormed, IsFull
  <2>3. d(slot) = 0
    BY <1>1, <1>7, <1>10
  <2>4. QueueShape(m)
    BY <1>4, <2>1, <2>3 DEF QueueShape
  <2>5. AtConsumerMarker(l) = NoPointer
    BY <1>2, <1>10 DEF AtConsumerMarker, Occupied
  <2>6. QED
    BY <2>2, <2>4, <2>5 DEF m
<1>11. QED
  BY <1>8, <1>9, <1>10

(* What is removed where the consumer marker is was first.                 *)
LEMMA RemoveKeepsOrder ==
    ASSUME NEW Pointer, NoPointer \notin Pointer,
           NEW l \in Lists(Pointer), WellFormed(l), QueueShape(l),
           NEW x \in Pointer, AtConsumerMarker(l) = x
    PROVE  QueueShape(Remove(l, x)) /\ OrderIsKept(l, Remove(l, x))
<1> DEFINE m == Remove(l, x)
<1>1. l.consumerMarker \in Position /\ l.producerMarker \in Position
      /\ l.pointers \in [Position -> Pointer \cup {NoPointer}]
  BY DEF Lists
<1>2. l.consumerMarker \in Occupied(l)
  BY <1>1 DEF AtConsumerMarker, Occupied
<1>3. PositionOf(l, x) = l.consumerMarker /\ x \in Held(l)
  BY <1>2, PositionOfHeld DEF AtConsumerMarker, Held
<1>4. WellFormed(m)
  BY <1>3, RemoveTakesOut
<1>5. /\ m.pointers = [l.pointers EXCEPT ![l.consumerMarker] = NoPointer]
      /\ m.consumerMarker = l.consumerMarker /\ m.producerMarker = l.producerMarker
  BY <1>3 DEF Remove, Lists
<1> HIDE DEF m
<1>6. Occupied(m) = Occupied(l) \ {l.consumerMarker}
  BY <1>1, <1>5 DEF Occupied
<1>7. \A p \in Position : Distance(l.consumerMarker, p) = 0 <=> p = l.consumerMarker
  BY <1>1, DistanceIsPosition
<1>8. QueueShape(m)
  <2>1. \A p \in Position : Distance(l.consumerMarker, p) > 0 => p # l.consumerMarker
    BY <1>7
  <2>2. QED
    BY <1>5, <1>6, <2>1 DEF QueueShape
<1>9. OrderIsKept(l, m)
  <2>1. \A p \in Occupied(l) \cap Occupied(m) : m.pointers[p] = l.pointers[p]
    BY <1>1, <1>5, <1>6 DEF Occupied
  <2>2. QED
    BY <1>4, <1>5, <1>6, <2>1, OrderOfSlots
<1>10. QED
  BY <1>8, <1>9 DEF m

(* The marker moves over free slots only, one at most.                     *)
LEMMA ReadKeepsOrder ==
    ASSUME NEW Pointer, NEW l \in Lists(Pointer), WellFormed(l), ~IsEmpty(l), QueueShape(l)
    PROVE  QueueShape(PlaceConsumerMarker(l)) /\ OrderIsKept(l, PlaceConsumerMarker(l))
<1> DEFINE m == PlaceConsumerMarker(l)
           slot == FirstFrom(l.consumerMarker, Occupied(l))
           d(p) == Distance(l.consumerMarker, p)
           last == d(l.producerMarker)
<1>1. l.consumerMarker \in Position /\ l.producerMarker \in Position
  BY DEF Lists
<1>2. Occupied(l) # {} /\ Occupied(l) \subseteq Position
  BY FS_EmptySet, OccupiedIsFinite DEF WellFormed, IsEmpty
<1>3. slot \in Occupied(l) /\ slot \in Position
  BY <1>1, <1>2, MarkerPlacement
<1>4. \A p \in Occupied(l) : d(slot) <= d(p)
  BY <1>1, <1>2, MarkerStopsAtNearest
<1>5. /\ WellFormed(m) /\ m.consumerMarker = slot /\ m.producerMarker = l.producerMarker
      /\ m.pointers = l.pointers
  BY ConsumerMarkerIsOnHeldPointer DEF PlaceConsumerMarker, Lists
<1> HIDE DEF m, slot
<1>6. Occupied(m) = Occupied(l)
  BY <1>5 DEF Occupied
<1>7. \A p \in Position : d(p) \in Position /\ (d(p) = 0 <=> p = l.consumerMarker)
  BY <1>1, DistanceIsPosition
<1>8. SIZE \in Nat /\ Position \subseteq Nat /\ Position = 0..(SIZE - 1)
  BY SizeAssumption DEF Position
<1>9. CASE slot = l.consumerMarker
  <2>1. QueueShape(m)
    BY <1>5, <1>6, <1>9 DEF QueueShape
  <2>2. QED
    BY <1>5, <1>6, <1>9, <2>1, OrderOfSlots DEF m
<1>10. CASE slot # l.consumerMarker
  <2> DEFINE next == Advance(l.consumerMarker, 1)
             Straight == \A p \in Position : /\ d(p) > last => p \notin Occupied(l)
                                             /\ 0 < d(p) /\ d(p) < last => p \in Occupied(l)
             Full == last = 0 /\ \A p \in Position : d(p) > 0 => p \in Occupied(l)
  <2>1. d(slot) \in 1..(SIZE - 1)
    BY <1>3, <1>7, <1>8, <1>10
  <2>2. 1 \in Position
    <3> HIDE DEF d
    <3>1. QED
      BY <1>8, <2>1
  <2>3. next \in Position /\ d(next) = 1
    BY <1>1, <2>2, DistanceOfAdvanced
  <2>4. last \in Position
    BY <1>1, <1>7
  <2>5. Straight \/ Full
    BY DEF QueueShape
  <2> HIDE DEF next, last
  <2>6. d(slot) = 1
    <3>1. CASE Straight
      <4>1. ~(d(slot) > last)
        BY <1>3, <3>1
      <4>2. 1 < last => next \in Occupied(l)
        BY <2>3, <3>1
      <4>3. 1 < last => d(slot) <= 1
        BY <1>4, <2>3, <4>2
      <4> HIDE DEF d
      <4>4. QED
        BY <1>8, <2>1, <2>4, <4>1, <4>3
    <3>2. CASE Full
      <4>1. next \in Occupied(l)
        BY <2>3, <3>2
      <4>2. d(slot) <= 1
        BY <1>4, <2>3, <4>1
      <4> HIDE DEF d
      <4>3. QED
        BY <1>8, <2>1, <4>2
    <3>3. QED
      BY <2>5, <3>1, <3>2
  <2>7. l.consumerMarker \notin Occupied(l)
    <3>1. SUFFICES ASSUME l.consumerMarker \in Occupied(l) PROVE FALSE
      OBVIOUS
    <3>2. d(l.consumerMarker) = 0 /\ d(slot) <= d(l.consumerMarker)
      BY <1>1, <1>4, <1>7, <3>1
    <3> HIDE DEF d
    <3>3. QED
      BY <2>6, <3>2
  <2>8. \A p \in Position :
           Distance(slot, p) = IF d(p) >= 1 THEN d(p) - 1 ELSE d(p) + SIZE - 1
    BY <1>1, <1>3, <2>6, DistanceFromAnother
  <2>9. QueueShape(m)
    <3> DEFINE after(p) == Distance(slot, p)
    <3>1. CASE Straight
      <4>1. last >= 1
        <5>1. ~(d(slot) > last)
          BY <1>3, <3>1
        <5> HIDE DEF d
        <5>2. QED
          BY <1>8, <2>4, <2>6, <5>1
      <4>2. after(l.producerMarker) = last - 1
        BY <1>1, <2>8, <4>1 DEF last
      <4>3. ASSUME NEW p \in Position
            PROVE  /\ after(p) > last - 1 => p \notin Occupied(l)
                   /\ 0 < after(p) /\ after(p) < last - 1 => p \in Occupied(l)
        <5>1. CASE p = l.consumerMarker
          <6>1. after(p) = SIZE - 1
            <7>1. d(p) = 0
              BY <1>1, <1>7, <5>1
            <7>2. after(p) = IF d(p) >= 1 THEN d(p) - 1 ELSE d(p) + SIZE - 1
              BY <2>8
            <7> HIDE DEF d, after
            <7>3. QED
              BY <1>8, <7>1, <7>2
          <6>2. ~(after(p) < last - 1)
            BY <1>8, <2>4, <6>1
          <6>3. QED
            BY <2>7, <5>1, <6>2
        <5>2. CASE p # l.consumerMarker
          <6>1. d(p) \in Nat /\ d(p) # 0
            BY <1>7, <1>8, <5>2
          <6>2. after(p) = IF d(p) >= 1 THEN d(p) - 1 ELSE d(p) + SIZE - 1
            BY <2>8
          <6>3. /\ d(p) > last => p \notin Occupied(l)
                /\ 0 < d(p) /\ d(p) < last => p \in Occupied(l)
            BY <3>1
          <6> HIDE DEF d, after
          <6>4. QED
            BY <1>8, <2>4, <6>1, <6>2, <6>3
        <5>3. QED
          BY <5>1, <5>2
      <4>4. QED
        BY <1>5, <1>6, <4>2, <4>3 DEF QueueShape
    <3>2. CASE Full
      <4>1. after(l.producerMarker) = SIZE - 1
        BY <1>1, <1>8, <2>8, <3>2 DEF last
      <4>2. ASSUME NEW p \in Position
            PROVE  /\ after(p) > SIZE - 1 => p \notin Occupied(l)
                   /\ 0 < after(p) /\ after(p) < SIZE - 1 => p \in Occupied(l)
        <5>1. d(p) \in 0..(SIZE - 1)
          BY <1>7, <1>8
        <5>2. after(p) = IF d(p) >= 1 THEN d(p) - 1 ELSE d(p) + SIZE - 1
          BY <2>8
        <5>3. d(p) > 0 => p \in Occupied(l)
          BY <3>2
        <5> HIDE DEF d, after
        <5>4. QED
          BY <1>8, <5>1, <5>2, <5>3
      <4>3. QED
        BY <1>5, <1>6, <4>1, <4>2 DEF QueueShape
    <3>3. QED
      BY <2>5, <3>1, <3>2
  <2>10. OrderIsKept(l, m)
    <3>1. \A p \in Occupied(l) : p \in Position /\ d(p) \in Nat /\ d(p) # 0
      BY <1>2, <1>7, <1>8, <2>7
    <3>2. \A p \in Occupied(l) : Distance(slot, p) = d(p) - 1
      <4> SUFFICES ASSUME NEW p \in Occupied(l) PROVE Distance(slot, p) = d(p) - 1
        OBVIOUS
      <4>1. Distance(slot, p) = IF d(p) >= 1 THEN d(p) - 1 ELSE d(p) + SIZE - 1
        BY <2>8, <3>1
      <4>2. d(p) \in Nat /\ d(p) # 0
        BY <3>1
      <4> HIDE DEF d
      <4>3. QED
        BY <4>1, <4>2
    <3>3. \A p \in Occupied(l), q \in Occupied(l) :
             Distance(l.consumerMarker, p) < Distance(l.consumerMarker, q)
               => Distance(slot, p) < Distance(slot, q)
      <4> SUFFICES ASSUME NEW p \in Occupied(l), NEW q \in Occupied(l), d(p) < d(q)
                   PROVE  Distance(slot, p) < Distance(slot, q)
        OBVIOUS
      <4>1. /\ d(p) \in Nat /\ d(q) \in Nat
            /\ Distance(slot, p) = d(p) - 1 /\ Distance(slot, q) = d(q) - 1
        BY <3>1, <3>2
      <4> HIDE DEF d
      <4>2. QED
        BY <4>1
    <3>4. QED
      BY <1>5, <1>6, <3>3, OrderOfSlots
  <2>11. QED
    BY <2>9, <2>10 DEF m
<1>11. QED
  BY <1>9, <1>10

(* The list of a thread that consumes has its marker on what it consumes:  *)
(* only that one is ever removed.                                          *)
ReadyOrderInv ==
    \A s \in Schedulers :
        /\ QueueShape(ready[s])
        /\ threadAt[s] = "consume" => AtConsumerMarker(ready[s]) = inputBuffer[s]

(* What a step may do to the order of one scheduler's ready list.          *)
KeepsReadyOrder(s) ==
    /\ IsFull(ready'[s]) \/ OrderIsKept(ready[s], ready'[s])
    /\ threadAt'[s] = "consume" => AtConsumerMarker(ready'[s]) = inputBuffer'[s]

LEMMA OrderOfSameList == ASSUME NEW l PROVE OrderIsKept(l, l)
BY DEF OrderIsKept

LEMMA ReadyOrderStep ==
    ASSUME SchedulerInv, ReadyOrderInv, SchedulerNext, NEW s \in Schedulers
    PROVE  QueueShape(ready'[s]) /\ KeepsReadyOrder(s)
<1>1. /\ ready \in [Schedulers -> Lists(Buffers)]
      /\ notReady \in [Schedulers -> Lists(Buffers)]
      /\ threadAt \in [Schedulers -> ThreadLocations]
      /\ inputBuffer \in [Schedulers -> Buffers \cup {NoPointer}]
      /\ numberOfLinkedBuffers \in [Schedulers -> 0..SIZE]
      /\ \A t \in Schedulers : Partition(ready[t], notReady[t], numberOfLinkedBuffers[t])
  BY LinkPartitionIsPartition DEF SchedulerInv, SchedulerTypeOK
<1>2. QueueShape(ready[s]) /\ (threadAt[s] = "consume" => AtConsumerMarker(ready[s]) = inputBuffer[s])
  BY DEF ReadyOrderInv
<1>3. ASSUME ready'[s] = ready[s],
             threadAt'[s] = "consume" => threadAt[s] = "consume" /\ inputBuffer'[s] = inputBuffer[s]
      PROVE  QueueShape(ready'[s]) /\ KeepsReadyOrder(s)
  BY <1>2, <1>3, OrderOfSameList DEF KeepsReadyOrder
<1>4. ASSUME NEW t \in Schedulers, NEW b \in Buffers, LinkWith(t, b)
      PROVE  QueueShape(ready'[s]) /\ KeepsReadyOrder(s)
  BY <1>3, <1>4 DEF LinkWith
<1>5. ASSUME NEW t \in Schedulers, ActivatedByWriter(t)
      PROVE  QueueShape(ready'[s]) /\ KeepsReadyOrder(s)
  <2>1. UNCHANGED <<threadAt, inputBuffer>>
    BY <1>5 DEF ActivatedByWriter
  <2>2. CASE ready'[s] = ready[s]
    BY <1>3, <2>1, <2>2
  <2>3. CASE ready'[s] # ready[s]
    <3>1. PICK b \in Buffers : ActivateFor(t, b)
      BY <1>5 DEF ActivatedByWriter
    <3>2. /\ s = t /\ Contains(notReady[s], b)
          /\ ready'[s] = Store(ready[s], b)
      BY <1>1, <2>3, <3>1 DEF ActivateFor, statusVars
    <3>3. b \in Held(notReady[s])
      BY <3>2, ContainsIsHeld, NoPointerIsNoBuffer
    <3>4. WellFormed(ready[s]) /\ b \notin Held(ready[s])
      BY <1>1, <3>3 DEF Partition
    <3>5. ~IsFull(ready[s])
      <4>1. /\ notReady[s].held >= 1
        BY <1>1, <3>3, RemoveTakesOut, BufferAssumption DEF Partition
      <4>2. /\ ready[s].held \in 0..SIZE /\ notReady[s].held \in 0..SIZE
            /\ ready[s].held + notReady[s].held \in 0..SIZE
        BY <1>1 DEF Lists, Partition
      <4>3. QED
        BY <4>1, <4>2, SizeAssumption DEF IsFull
    <3>6. /\ QueueShape(Store(ready[s], b))
          /\ IsFull(Store(ready[s], b)) \/ OrderIsKept(ready[s], Store(ready[s], b))
          /\ AtConsumerMarker(ready[s]) # NoPointer
               => AtConsumerMarker(Store(ready[s], b)) = AtConsumerMarker(ready[s])
      BY <1>1, <1>2, <3>4, <3>5, StoreKeepsOrder, BufferAssumption
    <3>7. threadAt[s] = "consume" => AtConsumerMarker(ready[s]) # NoPointer
      BY <1>2, NoPointerIsNoBuffer DEF SchedulerInv, ConsumedBufferIsReady
    <3>8. QED
      BY <1>2, <2>1, <3>2, <3>6, <3>7 DEF KeepsReadyOrder
  <2>4. QED
    BY <2>2, <2>3
<1>6. ASSUME NEW t \in Schedulers, ConsumeNextData(t)
      PROVE  QueueShape(ready'[s]) /\ KeepsReadyOrder(s)
  <2>1. /\ threadAt[t] = "consume" /\ threadAt' = [threadAt EXCEPT ![t] = "copy"]
        /\ inputBuffer' = inputBuffer
    BY <1>6 DEF ConsumeNextData, Goto
  <2>2. CASE ready'[s] = ready[s]
    BY <1>1, <1>3, <2>1, <2>2
  <2>3. CASE ready'[s] # ready[s]
    <3> DEFINE b == inputBuffer[s]
    <3>1. s = t /\ ready'[s] = Remove(ready[s], b)
      BY <1>1, <1>6, <2>3 DEF ConsumeNextData, DeactivateFor, statusVars
    <3>2. b \in Buffers /\ AtConsumerMarker(ready[s]) = b
      BY <1>2, <2>1, <3>1 DEF SchedulerInv, ConsumedBufferIsReady
    <3>3. QueueShape(Remove(ready[s], b)) /\ OrderIsKept(ready[s], Remove(ready[s], b))
      BY <1>1, <1>2, <3>2, RemoveKeepsOrder, BufferAssumption DEF Partition
    <3>4. threadAt'[s] # "consume"
      BY <1>1, <2>1, <3>1
    <3>5. QED
      BY <3>1, <3>3, <3>4 DEF KeepsReadyOrder
  <2>4. QED
    BY <2>2, <2>3
<1>7. ASSUME NEW t \in Schedulers, ReadNextPointerToConsume(t)
      PROVE  QueueShape(ready'[s]) /\ KeepsReadyOrder(s)
  <2>1. threadAt[t] = "readNext" /\ ~IsEmpty(ready[t])
    BY <1>7 DEF ReadNextPointerToConsume, Goto, SchedulerInv, ThreadNeverThrows
  <2>2. /\ threadAt' = [threadAt EXCEPT ![t] = "consume"]
        /\ ready' = [ready EXCEPT ![t] = PlaceConsumerMarker(ready[t])]
        /\ inputBuffer' = [inputBuffer EXCEPT ![t] = AtConsumerMarker(PlaceConsumerMarker(ready[t]))]
    BY <1>7, <2>1 DEF ReadNextPointerToConsume, Goto
  <2>3. CASE s = t
    <3>1. /\ QueueShape(PlaceConsumerMarker(ready[s]))
          /\ OrderIsKept(ready[s], PlaceConsumerMarker(ready[s]))
      BY <1>1, <1>2, <2>1, <2>3, ReadKeepsOrder DEF Partition
    <3>2. ready'[s] = PlaceConsumerMarker(ready[s]) /\ inputBuffer'[s] = AtConsumerMarker(ready'[s])
      BY <1>1, <2>2, <2>3
    <3>3. QED
      BY <3>1, <3>2 DEF KeepsReadyOrder
  <2>4. CASE s # t
    BY <1>1, <1>3, <2>2, <2>4
  <2>5. QED
    BY <2>3, <2>4
<1>8. ASSUME NEW t \in Schedulers,
             \/ OrderTermination(t) \/ Join(t) \/ ReadIsEmpty(t) \/ ReadTerminateOrder(t)
             \/ EnterLoopBody(t) \/ FinishConsumption(t)
      PROVE  QueueShape(ready'[s]) /\ KeepsReadyOrder(s)
  <2>1. ready' = ready
    BY <1>8 DEF OrderTermination, Join, ReadIsEmpty, ReadTerminateOrder, EnterLoopBody, FinishConsumption
  <2>2. CASE s = t
    <3>1. threadAt'[s] = "consume" => threadAt[s] = "consume" /\ inputBuffer'[s] = inputBuffer[s]
      BY <1>1, <1>8, <2>2 DEF OrderTermination, Join, ReadIsEmpty, ReadTerminateOrder,
        EnterLoopBody, FinishConsumption, Goto
    <3>2. QED
      BY <1>3, <2>1, <3>1
  <2>3. CASE s # t
    <3>1. threadAt'[s] = threadAt[s] /\ inputBuffer'[s] = inputBuffer[s]
      BY <1>1, <1>8, <2>3 DEF OrderTermination, Join, ReadIsEmpty, ReadTerminateOrder,
        EnterLoopBody, FinishConsumption, Goto
    <3>2. QED
      BY <1>3, <2>1, <3>1
  <2>4. QED
    BY <2>2, <2>3
<1>9. QED
  BY <1>4, <1>5, <1>6, <1>7, <1>8 DEF SchedulerNext, LoopStep

(* A buffer that is ready gets its turn before all that are activated      *)
(* after it, unless an activation fills the list: whatever the number of   *)
(* inputs, and whoever activates.                                          *)
THEOREM ReadyBuffersKeepTheirOrder == SchedulerSpec => ReadyOrderIsKept
<1>1. SchedulerInit => ReadyOrderInv
  <2>1. ASSUME NEW p \in Position PROVE p \notin Occupied(EmptyList)
    BY DEF Occupied, EmptyList
  <2>2. Distance(0, 0) = 0 /\ EmptyList.consumerMarker = 0 /\ EmptyList.producerMarker = 0
    BY DEF Distance, EmptyList
  <2>3. \A p \in Position : ~(Distance(0, p) < 0)
    BY SizeAssumption DEF Distance, Position
  <2>4. QueueShape(EmptyList)
    BY <2>1, <2>2, <2>3 DEF QueueShape
  <2>5. QED
    BY <2>4 DEF SchedulerInit, ReadyOrderInv
<1>2. SchedulerInv /\ ReadyOrderInv /\ [SchedulerNext]_schedulerVars => ReadyOrderInv'
  <2> SUFFICES ASSUME SchedulerInv, ReadyOrderInv, [SchedulerNext]_schedulerVars
               PROVE  ReadyOrderInv'
    OBVIOUS
  <2>1. CASE UNCHANGED schedulerVars
    BY <2>1 DEF schedulerVars, ReadyOrderInv
  <2>2. CASE SchedulerNext
    <3>1. \A s \in Schedulers : QueueShape(ready'[s]) /\ KeepsReadyOrder(s)
      BY <2>2, ReadyOrderStep
    <3>2. QED
      BY <3>1 DEF ReadyOrderInv, KeepsReadyOrder
  <2>3. QED
    BY <2>1, <2>2
<1> DEFINE A == \A s \in Schedulers : KeepsReadyOrder(s)
<1>3. SchedulerInv /\ ReadyOrderInv /\ [SchedulerNext]_schedulerVars => [A]_schedulerVars
  BY ReadyOrderStep
<1>4. QED
  BY <1>1, <1>2, <1>3, SchedulerInvariant, PTL DEF SchedulerSpec, ReadyOrderIsKept, KeepsReadyOrder

=============================================================================
