----------------------- MODULE DataProcessingScheduler -----------------------
(***************************************************************************)
(* DataProcessingScheduler: a thread that consumes from the input buffers  *)
(* other threads declare ready.  Each linked buffer is in one of two       *)
(* lists; linkWith, activateFor and deactivateFor change both lists under  *)
(* inputBufferStatusMutex and are one step each.  The thread's loop reads  *)
(* readyToConsumeInputBuffers.isEmpty() and terminateOrderReceived without *)
(* that mutex, one atomic read per step.                                   *)
(*                                                                         *)
(* Here the ring buffers are the environment: any linked buffer may be     *)
(* activated at any time, and the one being consumed from may deactivate   *)
(* itself before it returns.  DataFlow puts the real buffers there.        *)
(***************************************************************************)
EXTENDS PointerList, Topology

ASSUME BufferAssumption == NoPointer \notin Buffers

VARIABLES ready,                  \* readyToConsumeInputBuffers
          notReady,               \* notReadyToConsumeInputBuffers
          numberOfLinkedBuffers,
          terminateOrderReceived,
          threadAt,               \* where the scheduler's thread is in start()
          inputBuffer,            \* inputBufferToConsumeFrom
          joined                  \* terminateAndJoin has returned

statusVars == <<ready, notReady>>
schedulerVars == <<ready, notReady, numberOfLinkedBuffers,
                   terminateOrderReceived, threadAt, inputBuffer, joined>>

ThreadLocations == {"isEmpty", "isTerminated", "loopBody", "readNext",
                    "consume", "copy", "finished", "threw"}

SchedulerTypeOK ==
    /\ ready \in [Schedulers -> Lists(Buffers)]
    /\ notReady \in [Schedulers -> Lists(Buffers)]
    /\ numberOfLinkedBuffers \in [Schedulers -> 0..SIZE]
    /\ terminateOrderReceived \in [Schedulers -> BOOLEAN]
    /\ threadAt \in [Schedulers -> ThreadLocations]
    /\ inputBuffer \in [Schedulers -> Buffers \cup {NoPointer}]
    /\ joined \in [Schedulers -> BOOLEAN]

SchedulerInit ==
    /\ ready = [s \in Schedulers |-> EmptyList]
    /\ notReady = [s \in Schedulers |-> EmptyList]
    /\ numberOfLinkedBuffers = [s \in Schedulers |-> 0]
    /\ terminateOrderReceived = [s \in Schedulers |-> FALSE]
    /\ threadAt = [s \in Schedulers |-> "isEmpty"]
    /\ inputBuffer = [s \in Schedulers |-> NoPointer]
    /\ joined = [s \in Schedulers |-> FALSE]

IsLinked(s, b) == Contains(notReady[s], b) \/ Contains(ready[s], b)

-----------------------------------------------------------------------------
(* The methods other threads call.  A call the code answers with an        *)
(* exception changes nothing, so each guard is the case that is accepted.  *)

LinkWith(s, b) ==
    /\ ~IsLinked(s, b)
    /\ ~terminateOrderReceived[s]
    /\ numberOfLinkedBuffers[s] # SIZE
    /\ numberOfLinkedBuffers' =
           [numberOfLinkedBuffers EXCEPT ![s] = numberOfLinkedBuffers[s] + 1]
    /\ notReady' = [notReady EXCEPT ![s] = Store(notReady[s], b)]
    /\ UNCHANGED <<ready, terminateOrderReceived, threadAt, inputBuffer, joined>>

(* Faulty: the buffer is also left where it was. *)
ActivateForWithoutRemoval(s, b) ==
    /\ IsLinked(s, b)
    /\ IF Contains(notReady[s], b) /\ ~Contains(ready[s], b)
         THEN ready' = [ready EXCEPT ![s] = Store(ready[s], b)] /\ UNCHANGED notReady
         ELSE UNCHANGED statusVars

(* Nothing changes when b is ready already. *)
ActivateFor(s, b) ==
    /\ IsLinked(s, b)
    /\ IF Contains(notReady[s], b)
         THEN /\ notReady' = [notReady EXCEPT ![s] = Remove(notReady[s], b)]
              /\ ready' = [ready EXCEPT ![s] = Store(ready[s], b)]
         ELSE UNCHANGED statusVars

DeactivateFor(s, b) ==
    /\ IsLinked(s, b)
    /\ IF Contains(ready[s], b)
         THEN /\ ready' = [ready EXCEPT ![s] = Remove(ready[s], b)]
              /\ notReady' = [notReady EXCEPT ![s] = Store(notReady[s], b)]
         ELSE UNCHANGED statusVars

(* The first half of terminateAndJoin; a second order changes nothing. *)
OrderTermination(s) ==
    /\ ~terminateOrderReceived[s]
    /\ terminateOrderReceived' = [terminateOrderReceived EXCEPT ![s] = TRUE]
    /\ UNCHANGED <<ready, notReady, numberOfLinkedBuffers, threadAt,
                   inputBuffer, joined>>

(* Faulty: the thread is detached. *)
JoinWithoutWaiting(s) ==
    /\ terminateOrderReceived[s]
    /\ ~joined[s]
    /\ joined' = [joined EXCEPT ![s] = TRUE]
    /\ UNCHANGED <<ready, notReady, numberOfLinkedBuffers,
                   terminateOrderReceived, threadAt, inputBuffer>>

(* Its second half, schedulerThread.exitSafely(): wait for the thread. *)
Join(s) ==
    /\ terminateOrderReceived[s]
    /\ threadAt[s] = "finished"
    /\ ~joined[s]
    /\ joined' = [joined EXCEPT ![s] = TRUE]
    /\ UNCHANGED <<ready, notReady, numberOfLinkedBuffers,
                   terminateOrderReceived, threadAt, inputBuffer>>

-----------------------------------------------------------------------------
(* The thread: while (cannotExitSafely()) { if (!ready.isEmpty()) {...} }  *)

Goto(s, from, to) == threadAt[s] = from /\ threadAt' = [threadAt EXCEPT ![s] = to]

(* Faulty: the termination order alone decides. *)
ReadIsEmptyIgnored(s) ==
    /\ Goto(s, "isEmpty", "isTerminated")
    /\ UNCHANGED <<ready, notReady, numberOfLinkedBuffers,
                   terminateOrderReceived, inputBuffer, joined>>

(* cannotExitSafely, first operand. *)
ReadIsEmpty(s) ==
    /\ Goto(s, "isEmpty", IF IsEmpty(ready[s]) THEN "isTerminated" ELSE "loopBody")
    /\ UNCHANGED <<ready, notReady, numberOfLinkedBuffers,
                   terminateOrderReceived, inputBuffer, joined>>

(* Faulty: the order is never seen. *)
ReadTerminateOrderIgnored(s) ==
    /\ Goto(s, "isTerminated", "loopBody")
    /\ UNCHANGED <<ready, notReady, numberOfLinkedBuffers,
                   terminateOrderReceived, inputBuffer, joined>>

(* cannotExitSafely, second operand, read only if the first was true. *)
ReadTerminateOrder(s) ==
    /\ Goto(s, "isTerminated",
            IF terminateOrderReceived[s] THEN "finished" ELSE "loopBody")
    /\ UNCHANGED <<ready, notReady, numberOfLinkedBuffers,
                   terminateOrderReceived, inputBuffer, joined>>

(* Faulty: without the if of the body. *)
EnterLoopBodyUnchecked(s) ==
    /\ Goto(s, "loopBody", "readNext")
    /\ UNCHANGED <<ready, notReady, numberOfLinkedBuffers,
                   terminateOrderReceived, inputBuffer, joined>>

(* Faulty: the if has lost its negation. *)
EnterLoopBodyNegated(s) ==
    /\ Goto(s, "loopBody", IF IsEmpty(ready[s]) THEN "readNext" ELSE "isEmpty")
    /\ UNCHANGED <<ready, notReady, numberOfLinkedBuffers,
                   terminateOrderReceived, inputBuffer, joined>>

(* The if in the body reads isEmpty() again. *)
EnterLoopBody(s) ==
    /\ Goto(s, "loopBody", IF IsEmpty(ready[s]) THEN "isEmpty" ELSE "readNext")
    /\ UNCHANGED <<ready, notReady, numberOfLinkedBuffers,
                   terminateOrderReceived, inputBuffer, joined>>

(* Faulty: the marker is read where it was left. *)
ReadPointerAtOldMarker(s) ==
    /\ Goto(s, "readNext", IF IsEmpty(ready[s]) THEN "threw" ELSE "consume")
    /\ IF IsEmpty(ready[s])
         THEN UNCHANGED inputBuffer
         ELSE inputBuffer' = [inputBuffer EXCEPT ![s] = AtConsumerMarker(ready[s])]
    /\ UNCHANGED <<ready, notReady, numberOfLinkedBuffers, terminateOrderReceived, joined>>

(* readNextPointerToConsume throws on an empty list; nothing in start()    *)
(* would catch that.                                                       *)
ReadNextPointerToConsume(s) ==
    /\ Goto(s, "readNext", IF IsEmpty(ready[s]) THEN "threw" ELSE "consume")
    /\ IF IsEmpty(ready[s])
         THEN UNCHANGED <<ready, inputBuffer>>
         ELSE /\ ready' = [ready EXCEPT ![s] = PlaceConsumerMarker(ready[s])]
              /\ inputBuffer' = [inputBuffer EXCEPT
                     ![s] = AtConsumerMarker(PlaceConsumerMarker(ready[s]))]
    /\ UNCHANGED <<notReady, numberOfLinkedBuffers, terminateOrderReceived, joined>>

(* The data consumeNextDataFor returned a reference to has been copied and *)
(* handed over: dataSink->consume(std::move(data)) has returned.           *)
FinishConsumption(s) ==
    /\ Goto(s, "copy", "isEmpty")
    /\ inputBuffer' = [inputBuffer EXCEPT ![s] = NoPointer]
    /\ UNCHANGED <<ready, notReady, numberOfLinkedBuffers,
                   terminateOrderReceived, joined>>

LoopStep(s) ==
    \/ ReadIsEmpty(s)
    \/ ReadTerminateOrder(s)
    \/ EnterLoopBody(s)
    \/ ReadNextPointerToConsume(s)

-----------------------------------------------------------------------------
(* The scheduler alone, with every use its callers may make of it. *)

ActivatedByWriter(s) ==
    /\ \E b \in Buffers : ActivateFor(s, b)
    /\ UNCHANGED <<numberOfLinkedBuffers, terminateOrderReceived, threadAt,
                   inputBuffer, joined>>

(* consumeNextDataFor, seen from here: it may deactivate, once. *)
ConsumeNextData(s) ==
    /\ Goto(s, "consume", "copy")
    /\ DeactivateFor(s, inputBuffer[s]) \/ UNCHANGED statusVars
    /\ UNCHANGED <<numberOfLinkedBuffers, terminateOrderReceived, inputBuffer, joined>>

SchedulerNext ==
    \E s \in Schedulers :
        \/ \E b \in Buffers : LinkWith(s, b)
        \/ ActivatedByWriter(s)
        \/ ConsumeNextData(s)
        \/ OrderTermination(s)
        \/ Join(s)
        \/ LoopStep(s)
        \/ FinishConsumption(s)

SchedulerSpec == SchedulerInit /\ [][SchedulerNext]_schedulerVars

-----------------------------------------------------------------------------
(* What makes the scheduler correct. *)

(* activateFor and deactivateFor move a buffer from one list to the other: *)
(* whatever the threads do, a linked buffer is in exactly one list, once,  *)
(* and the counters that guard linkWith and isEmpty agree with the slots.  *)
LinkPartition ==
    \A s \in Schedulers :
        /\ WellFormed(ready[s])
        /\ WellFormed(notReady[s])
        /\ Held(ready[s]) \cap Held(notReady[s]) = {}
        /\ numberOfLinkedBuffers[s] = ready[s].held + notReady[s].held

(* isEmpty() in the loop and readNextPointerToConsume() take no common     *)
(* lock: the list is still not empty when the latter runs, so its          *)
(* exception, which would end the program, is never thrown.                *)
ThreadNeverThrows ==
    \A s \in Schedulers :
        /\ threadAt[s] = "readNext" => ~IsEmpty(ready[s])
        /\ threadAt[s] # "threw"

(* The buffer consumeNextDataFor runs on is ready for as long as it has    *)
(* not deactivated itself: no other thread takes it away meanwhile.        *)
ConsumedBufferIsReady ==
    \A s \in Schedulers :
        /\ threadAt[s] \in {"consume", "copy"} => inputBuffer[s] \in Buffers
        /\ threadAt[s] = "consume" => Contains(ready[s], inputBuffer[s])

(* How far a marker has to advance to get to a slot. *)
Distance(marker, slot) ==
    IF slot >= marker THEN slot - marker ELSE slot + SIZE - marker

(* The thread reads what is nearest to the consumer marker first. *)
Turn(l, x) == Distance(l.consumerMarker, PositionOf(l, x))

(* Between l and m nothing has passed what is in both: neither another     *)
(* pointer that came later nor one that m alone holds.                     *)
OrderIsKept(l, m) ==
    \A x \in Held(l) \cap Held(m) : \A y \in Held(m) \ {x} :
        (y \in Held(l) => Turn(l, x) < Turn(l, y)) => Turn(m, x) < Turn(m, y)

(* Ready buffers get their turn in the order they were activated, for as   *)
(* long as no activation fills the list: slots are reused, and neither     *)
(* marker is moved by a removal.  The one consumed from is the first.      *)
ReadyOrderIsKept ==
    [][\A s \in Schedulers :
           /\ IsFull(ready'[s]) \/ OrderIsKept(ready[s], ready'[s])
           /\ threadAt'[s] = "consume"
                  => AtConsumerMarker(ready'[s]) = inputBuffer'[s]]_schedulerVars

(* "It acts as a basic FIFO container": what is stored waits until all     *)
(* that was stored before it has been read.                                *)
ListIsFIFO ==
    [][\A s \in Schedulers : OrderIsKept(ready[s], ready'[s])]_schedulerVars

=============================================================================
