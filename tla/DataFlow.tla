------------------------------ MODULE DataFlow ------------------------------
(***************************************************************************)
(* Ring buffers and schedulers together: threads write to the buffers, the *)
(* buffers activate the schedulers linked to them, whose threads consume.  *)
(* The main thread does what SensorAccessLink does: it links everything,   *)
(* starts the writers and, to stop, joins the writers first, then orders   *)
(* each scheduler to terminate and joins it.  A connection that is closed  *)
(* meanwhile, or by another termination later, may still produce errors.   *)
(***************************************************************************)
EXTENDS RingBuffer, DataProcessingScheduler

CONSTANTS Links,    \* the pairs <<scheduler, buffer>> the main thread links
          Closers   \* writers that are threads which close a connection

ASSUME LinksAssumption == Links \subseteq Schedulers \X Buffers
ASSUME ClosersAssumption == Closers \subseteq Writers

VARIABLES mainAt,   \* "linking", "running", "stopping"
          missed    \* history: buffers deactivated with data in them

dataFlowVars == <<bufferVars, schedulerVars, mainAt, missed>>

DataFlowTypeOK ==
    /\ BufferTypeOK
    /\ SchedulerTypeOK
    /\ mainAt \in {"linking", "running", "stopping"}
    /\ missed \subseteq Links

Init ==
    /\ BufferInit
    /\ SchedulerInit
    /\ mainAt = "linking"
    /\ missed = {}

-----------------------------------------------------------------------------
(* The main thread. *)

(* Faulty: the buffer is not told of its new consumer. *)
LinkOneEnd(s, b) ==
    /\ mainAt = "linking"
    /\ <<s, b>> \in Links
    /\ LinkWith(s, b)
    /\ UNCHANGED <<bufferVars, mainAt, missed>>

Link(s, b) ==
    /\ mainAt = "linking"
    /\ <<s, b>> \in Links
    /\ LinkWith(s, b)
    /\ AddLinkIfNoneExists(s, b)
    /\ UNCHANGED <<buffer, writerLocation, writes, overrun, writerVars,
                   consumerVars, mainAt, missed>>

StartWriters ==
    /\ mainAt = "linking"
    /\ \A l \in Links : IsLinked(l[1], l[2])
    /\ mainAt' = "running"
    /\ UNCHANGED <<bufferVars, schedulerVars, missed>>

(* The writers are joined: the writes that were under way are over. *)
JoinWriters ==
    /\ mainAt = "running"
    /\ \A w \in Writers \ Closers : writeAt[w] = "idle"
    /\ mainAt' = "stopping"
    /\ UNCHANGED <<bufferVars, schedulerVars, missed>>

Terminate(s) ==
    /\ mainAt = "stopping"
    /\ OrderTermination(s)
    /\ UNCHANGED <<bufferVars, mainAt, missed>>

JoinScheduler(s) ==
    /\ Join(s)
    /\ UNCHANGED <<bufferVars, mainAt, missed>>

-----------------------------------------------------------------------------
(* The writers. *)

(* terminateAndJoin closes the server's connection between the joins, and  *)
(* both connections again when it is called again.                         *)
StartWrite(w) ==
    /\ mainAt = "running" \/ (mainAt = "stopping" /\ w \in Closers)
    /\ BeginWrite(w)
    /\ UNCHANGED <<schedulerVars, mainAt, missed>>

(* activateFor leaves a consumer that is still ready as it is. *)
Activate(w, s) ==
    /\ ActivateConsumer(w, s)
    /\ ActivateFor(s, WritesTo[w])
    /\ missed' = missed \ {<<s, WritesTo[w]>>}
    /\ UNCHANGED <<numberOfLinkedBuffers, terminateOrderReceived, threadAt,
                   inputBuffer, joined, mainAt>>

ContinueWrite(w) ==
    \/ /\ \/ FinishPad(w)
          \/ LoadNextLocation(w)
          \/ StoreWriterLocation(w)
          \/ \E s \in Schedulers : VisitConsumer(w, s)
       /\ UNCHANGED <<schedulerVars, mainAt, missed>>
    \/ \E s \in Schedulers : Activate(w, s)

-----------------------------------------------------------------------------
(* The schedulers' threads. *)

Loop(s) ==
    /\ LoopStep(s)
    /\ UNCHANGED <<bufferVars, mainAt, missed>>

InBuffer(s) ==
    /\ threadAt[s] = "consume"
    /\ TakeReference(s, inputBuffer[s]) \/ TestAdvance(s, inputBuffer[s])
          \/ AdvanceConsumer(s, inputBuffer[s])
    /\ UNCHANGED <<schedulerVars, mainAt, missed>>

(* consumeNextDataFor returns at once when there is more to consume. *)
FindMore(s) ==
    /\ threadAt[s] = "consume"
    /\ TestDeactivate(s, inputBuffer[s])
    /\ IF IsAtWriterLocation(s, inputBuffer[s])
         THEN UNCHANGED threadAt
         ELSE Goto(s, "consume", "copy")
    /\ UNCHANGED <<ready, notReady, numberOfLinkedBuffers, terminateOrderReceived,
                   inputBuffer, joined, mainAt, missed>>

(* Faulty: the buffer stays ready; or it leaves one list and not enters the other. *)
DeactivateNothing(s) ==
    /\ DeactivateConsumer(s)
    /\ Goto(s, "consume", "copy")
    /\ UNCHANGED <<statusVars, numberOfLinkedBuffers, terminateOrderReceived, inputBuffer,
                   joined, mainAt, missed>>
DeactivateByRemoval(s) ==
    /\ DeactivateConsumer(s)
    /\ Goto(s, "consume", "copy")
    /\ ready' = [ready EXCEPT ![s] = Remove(ready[s], inputBuffer[s])]
    /\ UNCHANGED <<notReady, numberOfLinkedBuffers, terminateOrderReceived, inputBuffer,
                   joined, mainAt, missed>>

(* It deactivates on what it saw one step before. *)
Deactivate(s) ==
    LET b == inputBuffer[s]
    IN  /\ DeactivateConsumer(s)
        /\ Goto(s, "consume", "copy")
        /\ DeactivateFor(s, b)
        /\ missed' = IF IsAtWriterLocation(s, b) THEN missed ELSE missed \cup {<<s, b>>}
        /\ UNCHANGED <<numberOfLinkedBuffers, terminateOrderReceived, inputBuffer,
                       joined, mainAt>>

Copy(s) ==
    \/ /\ CopyHead(s, inputBuffer[s])
       /\ UNCHANGED <<schedulerVars, mainAt, missed>>
    \/ /\ CopyTail(s, inputBuffer[s])
       /\ FinishConsumption(s)
       /\ UNCHANGED <<mainAt, missed>>

ThreadStep(s) == Loop(s) \/ InBuffer(s) \/ FindMore(s) \/ Deactivate(s) \/ Copy(s)

-----------------------------------------------------------------------------

Next ==
    \/ \E s \in Schedulers, b \in Buffers : Link(s, b)
    \/ StartWriters
    \/ JoinWriters
    \/ \E s \in Schedulers : Terminate(s) \/ JoinScheduler(s)
    \/ \E w \in Writers : StartWrite(w) \/ ContinueWrite(w)
    \/ \E s \in Schedulers : ThreadStep(s)

Spec == Init /\ [][Next]_dataFlowVars

(* The operating system lets every thread that can run proceed, and every  *)
(* lock is held for a bounded time: a scheduler's thread keeps running and *)
(* a write once begun ends.  Nobody has to write, or to terminate.         *)
Fairness ==
    /\ \A s \in Schedulers : WF_dataFlowVars(ThreadStep(s))
    /\ \A w \in Writers : WF_dataFlowVars(ContinueWrite(w))

FairSpec == Spec /\ Fairness

-----------------------------------------------------------------------------
(* What makes the data flow correct. *)

(* Several writers on one plain RingBuffer are outside its contract        *)
(* (RingBufferPad.hpp, ThreadSafeRingBuffer.hpp).                          *)
SingleWriter(b) == \A v, w \in Writers : WritesTo[v] = b /\ WritesTo[w] = b => v = w

(* No lock orders the copy a scheduler makes with the writes to the pad,   *)
(* and its reference is used after its location has moved on.  All the     *)
(* same, while no write finds a consumer with a full ring to consume, what *)
(* reaches the sink is what was written, in order, without loss or         *)
(* repetition, and never half of one datum and half of another.            *)
InOrder ==
    \A s \in Schedulers, b \in Buffers :
        SingleWriter(b) /\ ~overrun[b] =>
            \A i \in 1..Len(received[s][b]) :
                received[s][b][i] = [head |-> i, tail |-> i]

(* activateFor and deactivateFor race, and one step of deactivateFor can   *)
(* undo an activation for data it did not see.  That is the only way data  *)
(* are left behind: a buffer with data its consumer has not reached is     *)
(* ready, or its writer has still to visit that consumer, or the consumer  *)
(* is about to deactivate it or has just done so too late.                 *)
BeingNotified(s, b) ==
    \E w \in Writers :
        WritesTo[w] = b /\ writeAt[w] \in {"notify", "activate"} /\ s \in toNotify[w]

DataLeavesBufferReady ==
    \A l \in Links :
        LET s == l[1]
            b == l[2]
        IN  s \in linkedTo[b] /\ ~IsAtWriterLocation(s, b) =>
                \/ Contains(ready[s], b)
                \/ BeingNotified(s, b)
                \/ l \in missed

(* activateFor and deactivateFor throw when the buffer is not linked, in   *)
(* the thread that writes or in the scheduler's own.  It does not happen:  *)
(* the consumers in a buffer's map are those whose lists hold the buffer.  *)
MapsAgreeWithLists ==
    \A s \in Schedulers, b \in Buffers : s \in linkedTo[b] <=> IsLinked(s, b)

(* A late activateFor makes a scheduler consume when there is nothing: it  *)
(* passes stale content of the pad on to the sink.  A write of the only    *)
(* writer causes that at most once for each consumer, lapped or not.       *)
RepeatsBoundedByWrites ==
    \A s \in Schedulers, b \in Buffers :
        SingleWriter(b) => repeats[s][b] <= writes[b]

(* The writes of b's only writer whose store has been made. *)
BeingWritten(b) ==
    \E w \in Writers :
        WritesTo[w] = b /\ writeAt[w] \in {"writeTail", "loadNext", "storeNext"}
Published(b) == IF BeingWritten(b) THEN writes[b] - 1 ELSE writes[b]

(* A consumer never moves over a pad before the writer's store has shown   *)
(* it, however its three reads of writerLocation interleave with writes.   *)
ConsumerStaysBehindWriter ==
    \A s \in Schedulers, b \in Buffers :
        SingleWriter(b) => advances[s][b] <= Published(b)

(* The writers are joined before any scheduler is: when terminateAndJoin   *)
(* returns, its thread hands nothing more to the sink, which may be torn   *)
(* down, and nobody but a close activates that scheduler any more.         *)
JoinedSchedulerIsQuiet ==
    [][\A s \in Schedulers :
           joined[s] => /\ received'[s] = received[s]
                        /\ repeats'[s] = repeats[s]
                        /\ ready'[s] # ready[s] =>
                               \E w \in Closers : <<s, WritesTo[w]>> \in Links]_dataFlowVars

Drained(s, b) == Len(received[s][b]) = writes[b]
GivenUp(s, b) == overrun[b] \/ <<s, b>> \in missed
JoinedWritersOnly(b) == \A w \in Closers : WritesTo[w] # b

(* A thread that finds no buffer ready once the writers have been joined   *)
(* has handed on all they wrote.  So it is only a look at isEmpty() taken  *)
(* before the join that makes a thread finish with data left.              *)
SeenEmptyIsDrained ==
    [][\A l \in Links :
           LET s == l[1]
               b == l[2]
           IN  /\ SingleWriter(b) /\ JoinedWritersOnly(b) /\ mainAt = "stopping"
               /\ threadAt[s] = "isEmpty" /\ threadAt'[s] = "isTerminated"
               => Drained(s, b) \/ GivenUp(s, b)]_dataFlowVars

-----------------------------------------------------------------------------
(* Every link of a buffer with one writer is a queue. *)

Both(n) == [head |-> n, tail |-> n]

Undelivered(s, b) ==
    [i \in 1..(Published(b) - Len(received[s][b])) |-> Both(Len(received[s][b]) + i)]

OwnBuffers == {b \in Buffers : SingleWriter(b)}
OwnLinks == {l \in Links : SingleWriter(l[2])}

Queues == INSTANCE LinkQueue WITH
    Buffers <- OwnBuffers, Links <- OwnLinks, Capacity <- RING_BUFFER_SIZE,
    Data <- [head : Datum, tail : Datum],
    queue <- [l \in OwnLinks |-> Undelivered(l[1], l[2])],
    delivered <- [l \in OwnLinks |-> received[l[1]][l[2]]],
    repeated <- [l \in OwnLinks |-> repeats[l[1]][l[2]]],
    written <- [b \in OwnBuffers |-> Published(b)],
    spoiled <- [b \in OwnBuffers |-> overrun[b]]

(* A ring, its locations, the notifications and both lists together are a  *)
(* queue: what LinkQueue promises, this implements, step by step.          *)
LinksAreQueues == Queues!Spec

-----------------------------------------------------------------------------
(* What must eventually happen, under FairSpec. *)

(* The termination order is obeyed: terminateAndJoin does not wait forever.*)
TerminationIsObeyed ==
    \A s \in Schedulers : terminateOrderReceived[s] ~> threadAt[s] = "finished"

(* A buffer that is ready with n data written is drained of those n, unless*)
(* a deactivation misses some of them or the writer laps the consumer.     *)
ReadyDataAreConsumed ==
    \A l \in Links : \A n \in 1..MaxWrites :
        LET s == l[1]
            b == l[2]
        IN  Contains(ready[s], b) /\ writes[b] >= n
              ~> Len(received[s][b]) >= n \/ GivenUp(s, b) \/ threadAt[s] = "finished"

(* A thread that is not between its two reads in cannotExitSafely when the *)
(* order comes drains its buffers before it finishes.                      *)
DrainsBeforeFinishing ==
    \A l \in {k \in Links : JoinedWritersOnly(k[2])} :
        LET s == l[1]
            b == l[2]
        IN  terminateOrderReceived[s] /\ threadAt[s] \notin {"isTerminated", "finished"}
              ~> threadAt[s] = "finished" /\ (Drained(s, b) \/ GivenUp(s, b))

-----------------------------------------------------------------------------
(* What the repository says of the data flow. *)

(* ExceptionMessages.h: "Illegal consumption, execution should not reach   *)
(* this point."  Consumers that a writer has lapped are set aside here.    *)
IllegalConsumptionIsNotReached ==
    \A s \in Schedulers :
        threadAt[s] = "consume" /\ ~overrun[inputBuffer[s]]
            => ~IllegalConsumption(s, inputBuffer[s])

(* SensorAccessLinkTest.cpp: after the writers and then the schedulers are *)
(* terminated and joined, as many data have reached the sink as were       *)
(* written.  Overruns and missed activations are set aside here.           *)
JoinedSchedulerHasDrained ==
    \A l \in Links :
        joined[l[1]] /\ JoinedWritersOnly(l[2]) => Drained(l[1], l[2]) \/ GivenUp(l[1], l[2])

(* DataProcessingSchedulerTest.cpp: the sink is called as many times as    *)
(* data are written.  Only an overrun is set aside here.                   *)
WrittenDataAreConsumed ==
    \A l \in Links : \A n \in 1..MaxWrites :
        LET s == l[1]
            b == l[2]
        IN  writes[b] >= n
              ~> Len(received[s][b]) >= n \/ overrun[b] \/ threadAt[s] = "finished"

(* RingBufferTest.cpp, on a plain RingBuffer: what is consumed is what was *)
(* written, in the same order.  Here without the condition of one writer.  *)
InOrderWhateverTheWriters ==
    \A s \in Schedulers, b \in Buffers :
        ~overrun[b] => \A i \in 1..Len(received[s][b]) :
                           received[s][b][i] = [head |-> i, tail |-> i]

=============================================================================
