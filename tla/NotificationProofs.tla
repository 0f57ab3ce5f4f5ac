------------------------- MODULE NotificationProofs -------------------------
(***************************************************************************)
(* What the notifications between the ring buffers and the schedulers      *)
(* achieve, for every number of buffers, writers, schedulers and pads: no  *)
(* datum is left in a buffer nobody looks at, but for the race that missed *)
(* records; a consumer stays behind its writer; the repeats are bounded; a *)
(* joined scheduler is quiet; an empty list means, once the writers are    *)
(* joined, that all is drained; and every link is a queue.                 *)
(***************************************************************************)
EXTENDS DataFlowProofs

-----------------------------------------------------------------------------
(* Data leave their buffer ready. *)

(* DataLeavesBufferReady of one link. *)
Noticed(s, b) ==
    \/ Contains(ready[s], b)
    \/ BeingNotified(s, b)
    \/ <<s, b>> \in missed

NoticedInv ==
    \A s \in Schedulers, b \in Buffers :
        s \in linkedTo[b] /\ ~IsAtWriterLocation(s, b) => Noticed(s, b)

LEMMA NoticedMeansReady == ControlInv => (NoticedInv <=> DataLeavesBufferReady)
<1> SUFFICES ASSUME ControlInv PROVE NoticedInv <=> DataLeavesBufferReady
  OBVIOUS
<1>1. \A s \in Schedulers, b \in Buffers : s \in linkedTo[b] => <<s, b>> \in Links
  BY DEF ControlInv
<1>2. \A l \in Links : l = <<l[1], l[2]>> /\ l[1] \in Schedulers /\ l[2] \in Buffers
  BY LinksAssumption
<1>3. QED
  BY <1>1, <1>2 DEF NoticedInv, Noticed, DataLeavesBufferReady

(* A buffer that is ready stays so until its own consumer deactivates it.  *)
LEMMA ReadyStays ==
    ASSUME DataFlowInv, NextButLink, NEW s \in Schedulers, NEW b \in Buffers,
           Contains(ready[s], b), ~(Deactivate(s) /\ inputBuffer[s] = b)
    PROVE  Contains(ready'[s], b)
<1> USE DEF DataFlowInv
<1>1. b \in Held(ready[s])
  BY ContainsIsHeld, NoPointerIsNoBuffer
<1>2. SUFFICES b \in Held(ready'[s])
  BY ContainsIsHeld, NoPointerIsNoBuffer
<1>3. CASE ready' = ready
  BY <1>1, <1>3
<1>4. ASSUME NEW w \in Writers, NEW t \in Schedulers, Activate(w, t)
      PROVE  b \in Held(ready'[s])
  <2>1. WritesTo[w] \in Buffers /\ ActivateFor(t, WritesTo[w])
    BY <1>4, RingBufferAssumption DEF Activate
  <2>2. QED
    BY <1>1, <2>1, ReadyAfterActivation
<1>5. ASSUME NEW t \in Schedulers, Deactivate(t)
      PROVE  b \in Held(ready'[s])
  <2>1. inputBuffer[t] \in Buffers /\ DeactivateFor(t, inputBuffer[t])
    BY <1>5, ConsumedBuffer DEF Deactivate, Goto
  <2>2. QED
    BY <1>1, <1>5, <2>1, ReadyAfterDeactivation
<1>6. ASSUME NEW t \in Schedulers, Loop(t)
      PROVE  b \in Held(ready'[s])
  BY <1>1, <1>6, LoopKeepsReady DEF Loop
<1>7. ASSUME NEW w \in Writers, StartWrite(w) \/ ContinueWrite(w)
      PROVE  b \in Held(ready'[s])
  BY <1>3, <1>4, <1>7 DEF StartWrite, ContinueWrite, schedulerVars
<1>8. ASSUME NEW t \in Schedulers, ThreadStep(t)
      PROVE  b \in Held(ready'[s])
  BY <1>3, <1>5, <1>6, <1>8 DEF ThreadStep, InBuffer, FindMore, Copy, FinishConsumption,
                               schedulerVars
<1>9. CASE StartWriters \/ JoinWriters \/ \E t \in Schedulers : Terminate(t) \/ JoinScheduler(t)
  BY <1>3, <1>9 DEF StartWriters, JoinWriters, Terminate, OrderTermination, JoinScheduler, Join,
                    schedulerVars
<1>10. QED
  BY <1>7, <1>8, <1>9 DEF NextButLink

(* What a step of a writer does to its notification of s on b: it goes on, *)
(* or s is at the writer's location, or b is ready for s afterwards.       *)
LEMMA NotificationGoesOn ==
    ASSUME BufferTypeOK, NEW w \in Writers, StartWrite(w) \/ ContinueWrite(w),
           NEW s \in Schedulers, NEW b \in Buffers, BeingNotified(s, b)
    PROVE  \/ BeingNotified(s, b)'
           \/ IsAtWriterLocation(s, b)' /\ WritesTo[w] = b
           \/ Activate(w, s) /\ WritesTo[w] = b
<1> USE DEF BufferTypeOK
<1>1. PICK v \in Writers :
          WritesTo[v] = b /\ writeAt[v] \in {"notify", "activate"} /\ s \in toNotify[v]
  BY DEF BeingNotified
<1>2. CASE v # w
  <2> WriterAction(w)
    BY WritersLeaveThreads
  <2>1. writeAt'[v] = writeAt[v] /\ toNotify'[v] = toNotify[v]
    BY <1>2
    DEF WriterAction, BeginWrite, FinishPad, LoadNextLocation, StoreWriterLocation,
                VisitConsumer, ActivateConsumer, Visited, WriteGoto
  <2>2. QED
    BY <1>1, <2>1 DEF BeingNotified
<1>3. CASE v = w
  <2>1. ASSUME NEW c \in Schedulers, VisitConsumer(w, c)
        PROVE  BeingNotified(s, b)' \/ IsAtWriterLocation(s, b)'
    <3>1. CASE IsAtWriterLocation(c, b)
      <4>1. /\ writeAt' = [writeAt EXCEPT ![w] = NextTurn(w, c)]
            /\ toNotify' = [toNotify EXCEPT ![w] = toNotify[w] \ {c}]
            /\ UNCHANGED <<consumerLocations, writerLocation>>
        BY <1>1, <1>3, <2>1, <3>1 DEF VisitConsumer, WriteGoto, Visited, ringVars
      <4>2. CASE c = s
        BY <3>1, <4>1, <4>2 DEF IsAtWriterLocation
      <4>3. CASE c # s
        <5>1. NextTurn(w, c) = "notify" /\ s \in toNotify'[w]
          BY <1>1, <1>3, <4>1, <4>3 DEF NextTurn
        <5>2. QED
          BY <1>1, <1>3, <4>1, <5>1 DEF BeingNotified
      <4>4. QED
        BY <4>2, <4>3
    <3>2. CASE ~IsAtWriterLocation(c, b)
      <4>1. writeAt'[w] = "activate" /\ toNotify' = toNotify
        BY <1>1, <1>3, <2>1, <3>2 DEF VisitConsumer, WriteGoto
      <4>2. QED
        BY <1>1, <1>3, <4>1 DEF BeingNotified
    <3>3. QED
      BY <3>1, <3>2
  <2>2. ASSUME NEW c \in Schedulers, Activate(w, c)
        PROVE  BeingNotified(s, b)' \/ Activate(w, s)
    <3>1. CASE c = s
      BY <2>2, <3>1
    <3>2. CASE c # s
      <4>1. /\ writeAt'[w] = "notify"
            /\ s \in toNotify'[w]
        BY <1>1, <1>3, <2>2, <3>2 DEF Activate, ActivateConsumer, NextTurn, WriteGoto, Visited
      <4>2. QED
        BY <1>1, <1>3, <4>1 DEF BeingNotified
    <3>3. QED
      BY <3>1, <3>2
  <2>3. ~(BeginWrite(w) \/ FinishPad(w) \/ LoadNextLocation(w) \/ StoreWriterLocation(w))
    BY <1>1, <1>3 DEF BeginWrite, FinishPad, LoadNextLocation, StoreWriterLocation, WriteGoto
  <2>4. QED
    BY <1>1, <1>3, <2>1, <2>2, <2>3 DEF StartWrite, ContinueWrite
<1>4. QED
  BY <1>2, <1>3

LEMMA NoticedWriter ==
    ASSUME DataFlowInv, NoticedInv, NEW w \in Writers, StartWrite(w) \/ ContinueWrite(w),
           NEW s \in Schedulers, NEW b \in Buffers, s \in linkedTo[b],
           ~IsAtWriterLocation(s, b)'
    PROVE  Noticed(s, b)'
<1> USE DEF DataFlowInv, DataFlowTypeOK
<1>1. WriterAction(w) /\ ThreadsUnchanged
  BY WritersLeaveThreads
<1>2. NextButLink
  BY DEF NextButLink
<1>3. CASE StoreWriterLocation(w) /\ WritesTo[w] = b
  <2>1. writeAt'[w] = "notify" /\ toNotify'[w] = linkedTo[b]
    BY <1>3 DEF StoreWriterLocation, WriteGoto, BufferTypeOK
  <2>2. QED
    BY <1>3, <2>1 DEF Noticed, BeingNotified
<1>4. CASE ~(StoreWriterLocation(w) /\ WritesTo[w] = b)
  <2>1. writerLocation'[b] = writerLocation[b]
    BY <1>1, <1>4 DEF WriterAction, BeginWrite, FinishPad, LoadNextLocation, StoreWriterLocation,
                      VisitConsumer, ActivateConsumer, ringVars, BufferTypeOK
  <2>2. Noticed(s, b)
    BY <1>1, <2>1 DEF ThreadsUnchanged, IsAtWriterLocation, NoticedInv
  <2>3. CASE Contains(ready[s], b)
    <3>1. ~Deactivate(s)
      BY <1>1 DEF ThreadsUnchanged, consumerVars, Deactivate, DeactivateConsumer, ConsumeGoto,
                  BufferTypeOK
    <3>2. QED
      BY <1>2, <2>3, <3>1, ReadyStays DEF Noticed
  <2>4. ASSUME Activate(w, s), WritesTo[w] = b
        PROVE  Noticed(s, b)'
    <3>1. ActivateFor(s, b)
      BY <2>4 DEF Activate
    <3>2. SchedulerInv
      OBVIOUS
    <3>3. Held(ready'[s]) = Held(ready[s]) \cup {b}
      BY <3>1, <3>2, ReadyAfterActivation
    <3>4. b \in Held(ready'[s])
      BY <3>3
    <3>5. QED
      BY <3>4, ContainsIsHeld, NoPointerIsNoBuffer DEF Noticed
  <2>5. CASE BeingNotified(s, b)
    BY <1>1, <2>4, <2>5, NotificationGoesOn DEF Noticed
  <2>6. CASE <<s, b>> \in missed
    <3>1. CASE <<s, b>> \in missed'
      BY <3>1 DEF Noticed
    <3>2. CASE <<s, b>> \notin missed'
      <4>1. PICK c \in Schedulers : Activate(w, c) /\ <<c, WritesTo[w]>> = <<s, b>>
        BY <2>6, <3>2 DEF StartWrite, ContinueWrite, Activate
      <4>2. QED
        BY <2>4, <4>1 DEF Activate
    <3>3. QED
      BY <3>1, <3>2
  <2>7. QED
    BY <2>2, <2>3, <2>5, <2>6 DEF Noticed
<1>5. QED
  BY <1>3, <1>4

LEMMA NoticedThread ==
    ASSUME DataFlowInv, NoticedInv, NEW t \in Schedulers, ThreadStep(t),
           NEW s \in Schedulers, NEW b \in Buffers, s \in linkedTo[b],
           ~IsAtWriterLocation(s, b)'
    PROVE  Noticed(s, b)'
<1> USE DEF DataFlowInv, DataFlowTypeOK
<1>1. UNCHANGED <<writerLocation, writerVars>>
  BY ThreadLeavesWriters
<1>2. NextButLink
  BY DEF NextButLink
<1>3. CASE Contains(ready[s], b) /\ ~(Deactivate(s) /\ inputBuffer[s] = b)
  BY <1>2, <1>3, ReadyStays DEF Noticed
<1>4. CASE Deactivate(s) /\ inputBuffer[s] = b
  <2>1. consumerLocations' = consumerLocations
    BY <1>4 DEF Deactivate, DeactivateConsumer, ringVars
  <2>2. ~IsAtWriterLocation(s, b)
    BY <1>1, <2>1 DEF IsAtWriterLocation
  <2>3. <<s, b>> \in missed'
    BY <1>4, <2>2 DEF Deactivate
  <2>4. QED
    BY <2>3 DEF Noticed
<1>5. CASE ~Contains(ready[s], b)
  <2>1. consumerLocations'[b][s] = consumerLocations[b][s]
    <3>1. CASE Loop(t)
      BY <3>1 DEF Loop, bufferVars, ringVars
    <3>2. CASE ConsumptionStep(t) /\ (s # t \/ b # inputBuffer[t])
      BY <3>2, ConsumptionFrame
    <3>3. CASE ConsumptionStep(t) /\ s = t /\ b = inputBuffer[t]
      <4>1. threadAt[s] = "copy"
        BY <1>5, <3>3, ConsumptionFrame DEF Consuming, SchedulerInv, ConsumedBufferIsReady
      <4>2. Copy(t)
        BY <3>3, <4>1 DEF ConsumptionStep, InBuffer, FindMore, Deactivate, TestDeactivate,
                          ConsumeGoto, DeactivateConsumer, Goto, ControlInv
      <4>3. QED
        BY <4>2 DEF Copy, CopyHead, CopyTail, ringVars
    <3>4. QED
      BY <3>1, <3>2, <3>3 DEF ThreadStep, ConsumptionStep
  <2>2. Noticed(s, b)
    BY <1>1, <2>1 DEF IsAtWriterLocation, NoticedInv
  <2>3. missed \subseteq missed'
    BY DEF ThreadStep, Loop, InBuffer, FindMore, Deactivate, Copy
  <2>4. QED
    BY <1>1, <1>5, <2>2, <2>3 DEF Noticed, BeingNotified, writerVars
<1>6. QED
  BY <1>3, <1>4, <1>5

LEMMA NoticedStep ==
    ASSUME DataFlowInv, NoticedInv, [Next]_dataFlowVars
    PROVE  NoticedInv'
<1> USE DEF DataFlowInv, DataFlowTypeOK
<1> SUFFICES ASSUME NEW s \in Schedulers, NEW b \in Buffers, s \in linkedTo'[b],
                    ~IsAtWriterLocation(s, b)'
             PROVE  Noticed(s, b)'
  BY DEF NoticedInv
<1>1. CASE NextButLink
  <2>1. s \in linkedTo[b]
    BY <1>1, MapsChangeOnlyByLink
  <2>2. CASE \/ StartWriters
             \/ JoinWriters
             \/ \E t \in Schedulers : Terminate(t) \/ JoinScheduler(t)
    <3>1. UNCHANGED <<bufferVars, ready, missed>>
      BY <2>2, MainLeavesBuffers DEF StartWriters, JoinWriters, Terminate, OrderTermination,
                                     JoinScheduler, Join, schedulerVars
    <3>2. QED
      BY <2>1, <3>1 DEF bufferVars, ringVars, writerVars, NoticedInv, Noticed, BeingNotified,
                        IsAtWriterLocation
  <2>3. QED
    BY <1>1, <2>1, <2>2, NoticedWriter, NoticedThread DEF NextButLink
<1>2. ASSUME NEW t \in Schedulers, NEW c \in Buffers, Link(t, c)
      PROVE  Noticed(s, b)'
  <2>1. /\ UNCHANGED <<writerLocation, writeAt, toNotify, ready, missed>>
        /\ linkedTo' = [linkedTo EXCEPT ![c] = linkedTo[c] \cup {t}]
        /\ consumerLocations' = [consumerLocations EXCEPT
               ![c][t] = IF t \in linkedTo[c] THEN consumerLocations[c][t] ELSE 0]
        /\ writerLocation[b] = 0
    BY <1>2 DEF Link, LinkWith, AddLinkIfNoneExists, writerVars, ControlInv
  <2>2. CASE s = t /\ b = c
    <3>1. s \notin linkedTo[b]
      BY <1>2, <2>2 DEF Link, LinkWith, MapsAgreeWithLists
    <3>2. consumerLocations'[b][s] = 0
      BY <2>1, <2>2, <3>1 DEF BufferTypeOK
    <3>3. QED
      BY <2>1, <3>2 DEF IsAtWriterLocation
  <2>3. CASE s # t \/ b # c
    <3>1. s \in linkedTo[b] /\ consumerLocations'[b][s] = consumerLocations[b][s]
      BY <2>1, <2>3 DEF BufferTypeOK
    <3>2. Noticed(s, b)
      BY <2>1, <3>1 DEF NoticedInv, IsAtWriterLocation
    <3>3. QED
      BY <2>1, <3>2 DEF Noticed, BeingNotified
  <2>4. QED
    BY <2>2, <2>3
<1>3. CASE UNCHANGED dataFlowVars
  BY <1>3 DEF dataFlowVars, bufferVars, ringVars, writerVars, schedulerVars, NoticedInv, Noticed,
              BeingNotified, IsAtWriterLocation
<1>4. QED
  BY <1>1, <1>2, <1>3, NextIsLinkOrNot

LEMMA NoticedInvariant == Spec => []NoticedInv
<1>1. Init => NoticedInv
  BY DEF Init, BufferInit, NoticedInv
<1>2. DataFlowInv /\ NoticedInv /\ [Next]_dataFlowVars => NoticedInv'
  BY NoticedStep
<1>3. QED
  BY <1>1, <1>2, DataFlowInvariant, PTL DEF Spec

(* A buffer with data its consumer has not reached is ready, or about to   *)
(* be declared so, or recorded as missed: nothing else leaves data behind, *)
(* however many threads write.                                             *)
THEOREM DataAreNoticed == Spec => []DataLeavesBufferReady
<1>1. DataFlowInv /\ NoticedInv => DataLeavesBufferReady
  BY NoticedMeansReady DEF DataFlowInv
<1>2. QED
  BY <1>1, NoticedInvariant, DataFlowInvariant, PTL

-----------------------------------------------------------------------------
(* A joined scheduler is quiet. *)

(* The writers are joined before any termination is ordered, and a join    *)
(* waits for a thread that was ordered to terminate.                       *)
StoppingInv ==
    /\ \A s \in Schedulers : joined[s] => threadAt[s] = "finished" /\ terminateOrderReceived[s]
    /\ \A s \in Schedulers : terminateOrderReceived[s] => mainAt = "stopping"
    /\ mainAt = "stopping" => \A w \in Writers \ Closers : writeAt[w] = "idle"

Quiet(s) == UNCHANGED <<ready[s], received[s], repeats[s]>>
QuietUntilClosed(s) ==
    /\ UNCHANGED <<received[s], repeats[s]>>
    /\ ready'[s] # ready[s] => \E w \in Closers : <<s, WritesTo[w]>> \in Links

(* The thread that steps is not one that has finished, and changes nothing *)
(* of the other schedulers.                                                *)
LEMMA ThreadStepIsOwn ==
    ASSUME DataFlowInv, NEW t \in Schedulers, ThreadStep(t), NEW s \in Schedulers
    PROVE  /\ threadAt[s] = "finished" => threadAt'[s] = "finished" /\ s # t
           /\ s # t => Quiet(s)
           /\ UNCHANGED <<joined, terminateOrderReceived, mainAt, writeAt>>
<1> USE DEF DataFlowInv, DataFlowTypeOK, SchedulerTypeOK, BufferTypeOK, ControlInv
<1>1. CASE Loop(t)
  BY <1>1 DEF Loop, LoopStep, ReadIsEmpty, ReadTerminateOrder, EnterLoopBody,
              ReadNextPointerToConsume, Goto, bufferVars, writerVars, consumerVars, Quiet
<1>2. CASE InBuffer(t)
  BY <1>2 DEF InBuffer, TakeReference, TestAdvance, AdvanceConsumer, schedulerVars, writerVars, Quiet
<1>3. CASE FindMore(t)
  BY <1>3 DEF FindMore, TestDeactivate, Goto, writerVars, Quiet
<1>4. CASE Deactivate(t)
  BY <1>4 DEF Deactivate, DeactivateConsumer, DeactivateFor, statusVars, Goto, writerVars, Quiet
<1>5. CASE Copy(t)
  <2>1. threadAt[t] = "copy"
    BY <1>5 DEF Copy, CopyHead, FinishConsumption, Goto, ConsumeGoto
  <2>2. CASE CopyHead(t, inputBuffer[t]) /\ UNCHANGED schedulerVars
    BY <1>5, <2>1, <2>2 DEF Copy, CopyHead, FinishConsumption, schedulerVars, writerVars, Quiet
  <2>3. CASE CopyTail(t, inputBuffer[t]) /\ FinishConsumption(t)
    BY <1>5, <2>1, <2>3 DEF Copy, CopyTail, FinishConsumption, Goto, writerVars, Quiet
  <2>4. QED
    BY <1>5, <2>2, <2>3 DEF Copy
<1>6. QED
  BY <1>1, <1>2, <1>3, <1>4, <1>5 DEF ThreadStep

LEMMA WriterStepNeedsWriters ==
    ASSUME NEW w \in Writers, StartWrite(w) \/ ContinueWrite(w)
    PROVE  /\ mainAt = "running" \/ writeAt[w] # "idle" \/ w \in Closers
           /\ UNCHANGED <<joined, terminateOrderReceived, threadAt, mainAt>>
BY DEF StartWrite, ContinueWrite, FinishPad, LoadNextLocation, StoreWriterLocation, VisitConsumer,
       Activate, ActivateConsumer, WriteGoto, schedulerVars

LEMMA WriterStepLeavesOthers ==
    ASSUME NEW w \in Writers, StartWrite(w) \/ ContinueWrite(w), DataFlowTypeOK, NEW v \in Writers, v # w
    PROVE  writeAt'[v] = writeAt[v]
<1>1. \E to : writeAt' = [writeAt EXCEPT ![w] = to]
  BY DEF StartWrite, BeginWrite, ContinueWrite, FinishPad, LoadNextLocation, StoreWriterLocation,
         VisitConsumer, Activate, ActivateConsumer, WriteGoto
<1>2. QED
  BY <1>1 DEF DataFlowTypeOK, BufferTypeOK

LEMMA StoppingStep ==
    ASSUME DataFlowInv, StoppingInv, [Next]_dataFlowVars
    PROVE  StoppingInv'
<1> USE DEF StoppingInv, DataFlowInv, DataFlowTypeOK, SchedulerTypeOK
<1>1. CASE UNCHANGED dataFlowVars
  BY <1>1 DEF dataFlowVars, bufferVars, writerVars, schedulerVars
<1>2. ASSUME NEW s \in Schedulers, NEW b \in Buffers, Link(s, b)
      PROVE  StoppingInv'
  BY <1>2 DEF Link, LinkWith, writerVars
<1>3. CASE StartWriters \/ JoinWriters
  BY <1>3 DEF StartWriters, JoinWriters, bufferVars, writerVars, schedulerVars
<1>4. ASSUME NEW s \in Schedulers, Terminate(s) \/ JoinScheduler(s)
      PROVE  StoppingInv'
  BY <1>4 DEF Terminate, OrderTermination, JoinScheduler, Join, bufferVars, writerVars
<1>5. ASSUME NEW w \in Writers, StartWrite(w) \/ ContinueWrite(w)
      PROVE  StoppingInv'
  <2>1. /\ mainAt = "running" \/ writeAt[w] # "idle" \/ w \in Closers
        /\ UNCHANGED <<joined, terminateOrderReceived, threadAt, mainAt>>
    BY <1>5, WriterStepNeedsWriters
  <2>2. \A v \in Writers : v # w => writeAt'[v] = writeAt[v]
    BY <1>5, WriterStepLeavesOthers
  <2>3. QED
    BY <2>1, <2>2
<1>6. ASSUME NEW t \in Schedulers, ThreadStep(t)
      PROVE  StoppingInv'
  BY <1>6, ThreadStepIsOwn
<1>7. QED
  BY <1>1, <1>2, <1>3, <1>4, <1>5, <1>6, NextIsLinkOrNot DEF NextButLink

LEMMA JoinedStep ==
    ASSUME DataFlowInv, StoppingInv, [Next]_dataFlowVars, NEW s \in Schedulers, joined[s]
    PROVE  QuietUntilClosed(s)
<1> USE DEF StoppingInv
<1>0. Quiet(s) => QuietUntilClosed(s)
  BY DEF Quiet, QuietUntilClosed
<1>1. CASE UNCHANGED dataFlowVars
  BY <1>0, <1>1 DEF dataFlowVars, bufferVars, consumerVars, schedulerVars, Quiet
<1>2. ASSUME NEW t \in Schedulers, NEW b \in Buffers, Link(t, b)
      PROVE  QuietUntilClosed(s)
  BY <1>2 DEF Link
<1>3. CASE StartWriters \/ JoinWriters
  BY <1>0, <1>3 DEF StartWriters, JoinWriters, bufferVars, consumerVars, schedulerVars, Quiet
<1>4. ASSUME NEW t \in Schedulers, Terminate(t) \/ JoinScheduler(t)
      PROVE  QuietUntilClosed(s)
  BY <1>0, <1>4 DEF Terminate, OrderTermination, JoinScheduler, Join, bufferVars, consumerVars, Quiet
<1>5. ASSUME NEW w \in Writers, StartWrite(w) \/ ContinueWrite(w)
      PROVE  QuietUntilClosed(s)
  <2>1. mainAt = "stopping" /\ w \in Closers
    BY <1>5, WriterStepNeedsWriters
  <2>2. UNCHANGED <<received, repeats>>
    BY <1>5, WritersLeaveThreads DEF ThreadsUnchanged, consumerVars
  <2>3. CASE ready' = ready
    BY <2>2, <2>3 DEF QuietUntilClosed
  <2>4. ASSUME NEW t \in Schedulers, Activate(w, t), ready'[s] # ready[s]
        PROVE  <<s, WritesTo[w]>> \in Links
    <3>1. WritesTo[w] \in Buffers
      BY RingBufferAssumption
    <3>2. t = s /\ IsLinked(s, WritesTo[w])
      BY <2>4 DEF Activate, ActivateFor, statusVars, DataFlowInv, DataFlowTypeOK, SchedulerTypeOK
    <3>3. s \in linkedTo[WritesTo[w]]
      BY <3>1, <3>2 DEF DataFlowInv, MapsAgreeWithLists
    <3>4. QED
      BY <3>1, <3>3 DEF DataFlowInv, ControlInv
  <2>5. ready' = ready \/ \E t \in Schedulers : Activate(w, t)
    BY <1>5 DEF StartWrite, ContinueWrite, schedulerVars
  <2>6. QED
    BY <2>1, <2>2, <2>3, <2>4, <2>5 DEF QuietUntilClosed
<1>6. ASSUME NEW t \in Schedulers, ThreadStep(t)
      PROVE  QuietUntilClosed(s)
  BY <1>0, <1>6, ThreadStepIsOwn
<1>7. QED
  BY <1>1, <1>2, <1>3, <1>4, <1>5, <1>6, NextIsLinkOrNot DEF NextButLink

LEMMA StoppingInvariant == Spec => []StoppingInv
<1>1. Init => StoppingInv
  BY DEF Init, SchedulerInit, StoppingInv
<1>2. DataFlowInv /\ StoppingInv /\ [Next]_dataFlowVars => StoppingInv'
  BY StoppingStep
<1>3. QED
  BY <1>1, <1>2, DataFlowInvariant, PTL DEF Spec

(* Once terminateAndJoin has returned, the scheduler's thread hands nothing *)
(* more to the sink, and only a close still makes a buffer ready.          *)
THEOREM JoinedIsQuiet == Spec => JoinedSchedulerIsQuiet
<1> DEFINE A == \A s \in Schedulers :
                    joined[s] => /\ received'[s] = received[s]
                                 /\ repeats'[s] = repeats[s]
                                 /\ ready'[s] # ready[s] =>
                                        \E w \in Closers : <<s, WritesTo[w]>> \in Links
<1>1. DataFlowInv /\ StoppingInv /\ [Next]_dataFlowVars => [A]_dataFlowVars
  BY JoinedStep DEF QuietUntilClosed
<1>2. QED
  BY <1>1, StoppingInvariant, DataFlowInvariant, PTL DEF Spec, JoinedSchedulerIsQuiet

-----------------------------------------------------------------------------
(* A consumer stays behind its writer, even one that is lapped. *)

(* n moves from the first pad end on p. *)
OnRing(n, p) == \E laps \in Nat : n = laps * RING_BUFFER_SIZE + p

LEMMA OnRingStarts == OnRing(0, 0)
<1>1. 0 = 0 * RING_BUFFER_SIZE + 0
  BY RingBufferAssumption
<1>2. QED
  BY <1>1 DEF OnRing

LEMMA OnRingMoves ==
    ASSUME NEW n \in Nat, NEW p \in Pad, OnRing(n, p)
    PROVE  OnRing(n + 1, NextPad(p))
<1> DEFINE N == RING_BUFFER_SIZE
<1>1. N \in Nat \ {0} /\ p \in 0..(N - 1)
  BY RingBufferAssumption DEF Pad
<1>2. PICK laps \in Nat : n = laps * N + p
  BY DEF OnRing
<1>3. laps * N \in Nat /\ (laps + 1) * N = laps * N + N /\ laps + 1 \in Nat
  BY <1>1
<1>4. CASE p = N - 1
  <2>1. n + 1 = (laps + 1) * N + 0 /\ NextPad(p) = 0
    BY <1>1, <1>2, <1>3, <1>4 DEF NextPad
  <2>2. QED
    BY <1>3, <2>1 DEF OnRing
<1>5. CASE p # N - 1
  <2>1. n + 1 = laps * N + (p + 1) /\ NextPad(p) = p + 1
    BY <1>1, <1>2, <1>3, <1>5 DEF NextPad
  <2>2. QED
    BY <2>1 DEF OnRing
<1>6. QED
  BY <1>4, <1>5

LEMMA OnRingIsOnePad ==
    ASSUME NEW n \in Nat, NEW p \in Pad, NEW q \in Pad, OnRing(n, p), OnRing(n, q)
    PROVE  p = q
<1> DEFINE N == RING_BUFFER_SIZE
<1>1. N \in Nat \ {0} /\ p \in 0..(N - 1) /\ q \in 0..(N - 1)
  BY RingBufferAssumption DEF Pad
<1>2. PICK i \in Nat : n = i * N + p
  BY DEF OnRing
<1>3. PICK j \in Nat : n = j * N + q
  BY DEF OnRing
<1> DEFINE k == i - j
<1>4. k \in Int /\ k * N = i * N - j * N
  BY <1>1
<1>5. i * N \in Nat /\ j * N \in Nat
  BY <1>1
<1>6. k * N = q - p
  BY <1>1, <1>2, <1>3, <1>4, <1>5
<1> HIDE DEF k
<1>7. k >= 1 => k * N >= N
  BY <1>1, <1>4
<1>8. k <= -1 => k * N <= -N
  BY <1>1, <1>4
<1>9. k = 0 => k * N = 0
  BY <1>1
<1>10. QED
  BY <1>1, <1>4, <1>6, <1>7, <1>8, <1>9

BehindInv ==
    \A b \in Buffers : SingleWriter(b) =>
        /\ Published(b) \in Nat
        /\ OnRing(Published(b), writerLocation[b])
        /\ \A s \in Schedulers :
            /\ OnRing(advances[s][b], consumerLocations[b][s])
            /\ advances[s][b] <= Published(b)
            /\ Consuming(s, b) /\ consumeAt[s] = "advance" => advances[s][b] < Published(b)

(* A datum is published, and the writer's location moves, by the store of  *)
(* the only writer, and by nothing else.                                   *)
LEMMA OnlyStorePublishes ==
    ASSUME BufferTypeOK, WriterInv, NEW w \in Writers, WriterAction(w),
           NEW b \in Buffers, SingleWriter(b)
    PROVE  \/ /\ Published(b)' = Published(b) /\ writerLocation'[b] = writerLocation[b]
              /\ ~(StoreWriterLocation(w) /\ WritesTo[w] = b)
           \/ /\ StoreWriterLocation(w) /\ WritesTo[w] = b
              /\ Published(b)' = Published(b) + 1
              /\ writerLocation'[b] = NextPad(writerLocation[b])
<1> USE DEF BufferTypeOK, Published, WriteGoto
<1>1. CASE WritesTo[w] # b
  BY <1>1, OtherBufferUnwritten
<1>2. CASE WritesTo[w] = b
  <2>1. /\ BeingWritten(b) <=> writeAt[w] \in {"writeTail", "loadNext", "storeNext"}
        /\ BeingWritten(b)' <=> writeAt'[w] \in {"writeTail", "loadNext", "storeNext"}
        /\ writes[b] \in Nat
    BY <1>2, LoneWriter, LoneWriterAfter, PublishedIsNat
  <2>2. CASE BeginWrite(w)
    BY <1>2, <2>1, <2>2 DEF BeginWrite, StoreWriterLocation
  <2>3. CASE FinishPad(w) \/ LoadNextLocation(w)
    BY <1>2, <2>1, <2>3 DEF FinishPad, LoadNextLocation, StoreWriterLocation, ringVars
  <2>4. CASE StoreWriterLocation(w)
    <3>1. nextLocation[w] = NextPad(writerLocation[b])
      BY <1>2, <2>4 DEF StoreWriterLocation, WriterInv
    <3>2. writeAt[w] = "storeNext" /\ writeAt'[w] \in {"idle", "notify"} /\ writes' = writes
      BY <2>4 DEF StoreWriterLocation
    <3>3. writerLocation'[b] = nextLocation[w]
      BY <1>2, <2>4 DEF StoreWriterLocation
    <3>4. QED
      BY <1>2, <2>1, <2>4, <3>1, <3>2, <3>3
  <2>5. ASSUME NEW c \in Schedulers, VisitConsumer(w, c) \/ ActivateConsumer(w, c)
        PROVE  /\ Published(b)' = Published(b) /\ writerLocation'[b] = writerLocation[b]
               /\ ~StoreWriterLocation(w)
    <3>1. /\ writeAt[w] \in {"notify", "activate"}
          /\ writeAt'[w] \in {"notify", "activate", "idle"}
          /\ UNCHANGED <<writes, writerLocation>>
      BY <2>5 DEF VisitConsumer, ActivateConsumer, NextTurn, ringVars
    <3>2. QED
      BY <2>1, <3>1 DEF StoreWriterLocation
  <2>6. QED
    BY <2>2, <2>3, <2>4, <2>5 DEF WriterAction
<1>3. QED
  BY <1>1, <1>2

(* What a step of a thread does to a consumer's location.                  *)
LEMMA OnlyAdvanceMoves ==
    ASSUME DataFlowInv, NEW t \in Schedulers, ThreadStep(t),
           NEW s \in Schedulers, NEW b \in Buffers
    PROVE  \/ UNCHANGED <<advances[s][b], consumerLocations[b][s]>>
           \/ /\ s = t /\ Consuming(s, b) /\ AdvanceConsumer(s, b)
              /\ UNCHANGED <<threadAt, inputBuffer>>
<1> USE DEF DataFlowInv, DataFlowTypeOK
<1>1. CASE Loop(t)
  BY <1>1 DEF Loop, bufferVars, ringVars, consumerVars
<1>2. CASE ConsumptionStep(t) /\ (s # t \/ b # inputBuffer[t])
  BY <1>2, ConsumptionFrame
<1>3. CASE ConsumptionStep(t) /\ s = t /\ b = inputBuffer[t]
  <2>1. Consuming(s, b) /\ s \in linkedTo[b]
    BY <1>3, ConsumptionFrame, ConsumedBuffer DEF Consuming
  <2>2. TakeReference(s, b) => UNCHANGED <<advances, consumerLocations>>
    BY <2>1, ConsumptionKeepsMap DEF TakeReference
  <2>3. QED
    BY <1>3, <2>1, <2>2 DEF ConsumptionStep, InBuffer, FindMore, Deactivate, Copy, TestAdvance,
       TestDeactivate, DeactivateConsumer, CopyHead, CopyTail, ringVars, schedulerVars
<1>4. QED
  BY <1>1, <1>2, <1>3 DEF ThreadStep, ConsumptionStep

LEMMA BehindStep ==
    ASSUME DataFlowInv, BehindInv, [Next]_dataFlowVars
    PROVE  BehindInv'
<1> USE DEF DataFlowInv, DataFlowTypeOK
<1> SUFFICES ASSUME NEW b \in Buffers, SingleWriter(b)
             PROVE  /\ Published(b)' \in Nat
                    /\ OnRing(Published(b)', writerLocation'[b])
                    /\ \A s \in Schedulers :
                        /\ OnRing(advances'[s][b], consumerLocations'[b][s])
                        /\ advances'[s][b] <= Published(b)'
                        /\ Consuming(s, b)' /\ consumeAt'[s] = "advance"
                              => advances'[s][b] < Published(b)'
  BY DEF BehindInv, SingleWriter, OnRing
<1>1. /\ Published(b) \in Nat
      /\ OnRing(Published(b), writerLocation[b])
      /\ writerLocation[b] \in Pad
      /\ \A s \in Schedulers :
            /\ OnRing(advances[s][b], consumerLocations[b][s])
            /\ advances[s][b] \in Nat /\ consumerLocations[b][s] \in Pad
            /\ advances[s][b] <= Published(b)
            /\ Consuming(s, b) /\ consumeAt[s] = "advance" => advances[s][b] < Published(b)
  BY DEF BehindInv, BufferTypeOK
<1>2. CASE \/ StartWriters
           \/ JoinWriters
           \/ \E t \in Schedulers : Terminate(t) \/ JoinScheduler(t)
           \/ UNCHANGED dataFlowVars
  <2>1. UNCHANGED <<bufferVars, threadAt, inputBuffer>>
    BY <1>2, MainLeavesBuffers
  <2>2. QED
    BY <1>1, <2>1 DEF bufferVars, ringVars, writerVars, consumerVars, Consuming, Published,
                      BeingWritten
<1>3. ASSUME NEW t \in Schedulers, NEW c \in Buffers, Link(t, c)
      PROVE  /\ Published(b)' = Published(b) /\ writerLocation' = writerLocation
             /\ \A s \in Schedulers :
                    /\ UNCHANGED <<advances[s][b], consumeAt[s], threadAt[s], inputBuffer[s]>>
                    /\ consumerLocations'[b][s] = consumerLocations[b][s]
  <2>1. /\ UNCHANGED <<writerLocation, writes, writeAt, advances, consumeAt, threadAt, inputBuffer>>
        /\ consumerLocations' = [consumerLocations EXCEPT
               ![c][t] = IF t \in linkedTo[c] THEN consumerLocations[c][t] ELSE 0]
    BY <1>3 DEF Link, LinkWith, AddLinkIfNoneExists, writerVars, consumerVars
  <2>2. t \notin linkedTo[c] => consumerLocations[c][t] = 0
    BY DEF Orderly
  <2>3. consumerLocations' = [consumerLocations EXCEPT ![c][t] = consumerLocations[c][t]]
    BY <2>1, <2>2
  <2>4. QED
    BY <2>1, <2>3 DEF Published, BeingWritten, BufferTypeOK
<1>4. ASSUME NEW w \in Writers, StartWrite(w) \/ ContinueWrite(w)
      PROVE  /\ UNCHANGED <<threadAt, inputBuffer, consumeAt, advances, consumerLocations>>
             /\ \/ Published(b)' = Published(b) /\ writerLocation'[b] = writerLocation[b]
                \/ /\ Published(b)' = Published(b) + 1
                   /\ writerLocation'[b] = NextPad(writerLocation[b])
  BY <1>4, WritersLeaveThreads, OnlyStorePublishes DEF ThreadsUnchanged, consumerVars
<1>5. ASSUME NEW t \in Schedulers, ThreadStep(t), NEW s \in Schedulers
      PROVE  /\ OnRing(advances'[s][b], consumerLocations'[b][s])
             /\ advances'[s][b] <= Published(b)'
             /\ Consuming(s, b)' /\ consumeAt'[s] = "advance"
                    => advances'[s][b] < Published(b)'
             /\ Published(b)' = Published(b) /\ writerLocation' = writerLocation
  <2>1. Published(b)' = Published(b) /\ writerLocation' = writerLocation
    BY <1>5, ThreadLeavesWriters DEF Published, BeingWritten, writerVars
  <2>2. CASE AdvanceConsumer(s, b) /\ Consuming(s, b)
    <3>1. /\ consumeAt[s] = "advance" /\ consumeAt'[s] # "advance"
          /\ advances'[s][b] = advances[s][b] + 1
          /\ consumerLocations'[b][s] = NextPad(consumerLocations[b][s])
      BY <2>2 DEF AdvanceConsumer, ConsumeGoto, BufferTypeOK
    <3>2. OnRing(advances'[s][b], consumerLocations'[b][s])
      BY <1>1, <3>1, OnRingMoves
    <3>3. QED
      BY <1>1, <2>1, <2>2, <3>1, <3>2
  <2>3. CASE UNCHANGED <<advances[s][b], consumerLocations[b][s]>>
    <3>1. SUFFICES ASSUME Consuming(s, b)', consumeAt'[s] = "advance",
                          ~(Consuming(s, b) /\ consumeAt[s] = "advance")
                   PROVE  advances[s][b] < Published(b)
      BY <1>1, <2>1, <2>3
    <3>2. TestAdvance(s, b) /\ ~IsAtWriterLocation(s, b)
      <4>1. CASE Loop(t)
        <5>1. consumeAt' = consumeAt
          BY <4>1 DEF Loop, bufferVars, consumerVars
        <5>2. threadAt[s] \in {"consume", "copy"} /\ threadAt[t] \notin {"consume", "copy"}
          BY <3>1, <4>1, <5>1 DEF ControlInv, Loop, LoopStep, ReadIsEmpty, ReadTerminateOrder,
                                  EnterLoopBody, ReadNextPointerToConsume, Goto
        <5>3. threadAt'[s] = threadAt[s] /\ inputBuffer'[s] = inputBuffer[s]
          BY <4>1, <5>2 DEF Loop, LoopStep, ReadIsEmpty, ReadTerminateOrder, EnterLoopBody,
                            ReadNextPointerToConsume, Goto, SchedulerTypeOK
        <5>4. Consuming(s, b)
          BY <3>1, <5>3 DEF Consuming
        <5>5. QED
          BY <3>1, <5>1, <5>4
      <4>2. CASE ConsumptionStep(t) /\ s # t
        BY <3>1, <4>2, ConsumptionFrame DEF Consuming
      <4>3. CASE ConsumptionStep(t) /\ s = t
        <5>1. consumeAt[s] = "testAdvance" /\ consumeAt'[s] = "advance"
              /\ TestAdvance(s, inputBuffer[s]) /\ ~IsAtWriterLocation(s, inputBuffer[s])
              /\ inputBuffer' = inputBuffer
          <6>1. consumeAt[s] # "advance"
            BY <3>1, <4>3, ConsumptionFrame DEF Consuming, ConsumptionStep, InBuffer, FindMore,
               Deactivate, Copy, CopyTail, FinishConsumption, schedulerVars, ConsumeGoto,
               BufferTypeOK, TakeReference, TestAdvance, AdvanceConsumer, TestDeactivate,
               DeactivateConsumer, CopyHead
          <6>2. QED
            BY <3>1, <4>3, <6>1
            DEF ConsumptionStep, InBuffer, FindMore, Deactivate, Copy, TakeReference, TestAdvance,
                AdvanceConsumer, TestDeactivate, DeactivateConsumer, CopyHead, CopyTail,
                ConsumeGoto, BufferTypeOK, schedulerVars
        <5>2. inputBuffer[s] = b
          BY <3>1, <5>1 DEF Consuming
        <5>3. QED
          BY <5>1, <5>2
      <4>4. QED
        BY <1>5, <4>1, <4>2, <4>3 DEF ThreadStep, ConsumptionStep
    <3>3. advances[s][b] # Published(b)
      BY <1>1, <3>2, OnRingIsOnePad DEF IsAtWriterLocation
    <3>4. QED
      BY <1>1, <3>3
  <2>4. QED
    BY <1>5, <2>2, <2>3, OnlyAdvanceMoves
<1>6. QED
  BY <1>1, <1>2, <1>3, <1>4, <1>5, OnRingMoves, NextIsLinkOrNot DEF NextButLink, Consuming

LEMMA BehindInvariant == Spec => []BehindInv
<1>1. Init => BehindInv
  <2> SUFFICES ASSUME Init PROVE BehindInv
    OBVIOUS
  <2>1. \A b \in Buffers : Published(b) = 0
    BY DEF Init, BufferInit, Published, BeingWritten
  <2>2. QED
    BY <2>1, OnRingStarts DEF Init, BufferInit, SchedulerInit, BehindInv, Consuming
<1>2. DataFlowInv /\ BehindInv /\ [Next]_dataFlowVars => BehindInv'
  BY BehindStep
<1>3. QED
  BY <1>1, <1>2, DataFlowInvariant, PTL DEF Spec

(* No consumer moves over a pad its only writer has not yet shown it: this *)
(* needs no assumption that the writer never laps a consumer.              *)
THEOREM ConsumersStayBehind == Spec => []ConsumerStaysBehindWriter
<1>1. BehindInv => ConsumerStaysBehindWriter
  BY DEF BehindInv, ConsumerStaysBehindWriter
<1>2. QED
  BY <1>1, BehindInvariant, PTL

-----------------------------------------------------------------------------
(* The repeats of a consumer are at most the writes. *)

(* s has taken its reference on b, and found nothing to move to.           *)
Repeating(s, b) ==
    /\ Consuming(s, b)
    /\ consumeAt[s] \in {"testDeactivate", "deactivate", "copyHead", "copyTail"}
    /\ ~HasAdvanced(s, b)

Repetitions(s, b) == IF Repeating(s, b) THEN repeats[s][b] + 1 ELSE repeats[s][b]

(* b is ready, and s may take another reference before deactivating it.    *)
Fresh(s, b) ==
    /\ Contains(ready[s], b)
    /\ ~(Consuming(s, b) /\ consumeAt[s] \in {"testDeactivate", "deactivate"})

(* One write pays for one repetition of s: while s may still repeat, or is *)
(* going to be activated so that it may, one write has not been used.      *)
RepeatInv(s, b) ==
    LET unused == Repetitions(s, b) < Published(b)
    IN  /\ Repetitions(s, b) <= Published(b)
        /\ Fresh(s, b) => unused
        /\ Consuming(s, b) /\ consumeAt[s] = "testDeactivate" /\ ~IsAtWriterLocation(s, b) => unused
        /\ Consuming(s, b) /\ consumeAt[s] = "advance" => RING_BUFFER_SIZE >= 2
        /\ Consuming(s, b) /\ consumeAt[s] \in {"testAdvance", "advance"} =>
               currentData[s] = consumerLocations[b][s]
        /\ \A w \in Writers : WritesTo[w] = b =>
            /\ s \in activating[w] => /\ unused
                                      /\ Fresh(s, b) => ~IsAtWriterLocation(s, b)
            /\ writeAt[w] \in {"notify", "activate"} /\ s \in toNotify[w]
                   /\ ~IsAtWriterLocation(s, b) => unused

ActivatingInv == \A w \in Writers : writeAt[w] # "activate" => activating[w] = {}

RepeatsInv ==
    /\ ActivatingInv
    /\ \A s \in Schedulers, b \in Buffers : SingleWriter(b) => RepeatInv(s, b)

(* What RepeatInv looks at.                                                *)
LEMMA RepeatInvStable ==
    ASSUME NEW s \in Schedulers, NEW b \in Buffers, RepeatInv(s, b),
           Repetitions(s, b)' = Repetitions(s, b), Published(b)' = Published(b),
           IsAtWriterLocation(s, b)' = IsAtWriterLocation(s, b),
           Fresh(s, b)' => Fresh(s, b),
           consumerLocations'[b][s] = consumerLocations[b][s],
           \/ /\ UNCHANGED <<consumeAt[s], currentData[s]>>
              /\ Consuming(s, b)' => Consuming(s, b) \/ consumeAt[s] = "checkIllegal"
           \/ Consuming(s, b)' => consumeAt'[s] \in {"deactivate", "copyHead", "copyTail",
                                                     "checkIllegal"},
           \A w \in Writers : WritesTo[w] = b => UNCHANGED <<writeAt[w], toNotify[w], activating[w]>>
    PROVE  RepeatInv(s, b)'
BY DEF RepeatInv

LEMMA RepetitionsTyped ==
    ASSUME BufferTypeOK, NEW s \in Schedulers, NEW b \in Buffers
    PROVE  Repetitions(s, b) \in Nat /\ Published(b) \in Int
<1>1. repeats[s][b] \in Nat
  BY DEF BufferTypeOK
<1>2. Repetitions(s, b) \in Nat
  BY <1>1 DEF Repetitions
<1>3. QED
  BY <1>2, PublishedIsNat

LEMMA RepeatOwnWriter ==
    ASSUME DataFlowInv, ActivatingInv, NEW w \in Writers, StartWrite(w) \/ ContinueWrite(w),
           NEW s \in Schedulers, NEW b \in Buffers, SingleWriter(b), RepeatInv(s, b),
           WritesTo[w] = b
    PROVE  RepeatInv(s, b)'
<1> USE DEF DataFlowInv, DataFlowTypeOK
<1>1. WriterAction(w) /\ ThreadsUnchanged
  BY WritersLeaveThreads
<1>2. /\ UNCHANGED <<threadAt, inputBuffer, consumeAt, currentData, consumerLocations, repeats>>
      /\ Consuming(s, b)' = Consuming(s, b)
  BY <1>1 DEF ThreadsUnchanged, consumerVars, Consuming
<1>3. Repetitions(s, b)' = Repetitions(s, b)
  BY <1>2 DEF Repetitions, Repeating, HasAdvanced
<1>4. Repetitions(s, b) \in Nat /\ Published(b) \in Int
  BY RepetitionsTyped
<1>5. \A v \in Writers : WritesTo[v] = b => v = w
  BY DEF SingleWriter
<1>6. ready' = ready => Fresh(s, b)' = Fresh(s, b)
  BY <1>2 DEF Fresh
<1>7. CASE BeginWrite(w) \/ FinishPad(w) \/ LoadNextLocation(w) \/ StoreWriterLocation(w)
  <2>1. ready' = ready
    BY <1>7 DEF StartWrite, ContinueWrite, BeginWrite, FinishPad, LoadNextLocation,
                StoreWriterLocation, Activate, ActivateConsumer, WriteGoto, schedulerVars
  <2>2. activating'[w] = {}
    BY <1>7 DEF BeginWrite, FinishPad, LoadNextLocation, StoreWriterLocation, WriteGoto,
                ActivatingInv
  <2>3. CASE StoreWriterLocation(w)
    <3>1. Published(b)' = Published(b) + 1
      BY <1>1, <2>3, OnlyStorePublishes
    <3>2. QED
      BY <1>2, <1>3, <1>4, <1>5, <1>6, <2>1, <2>2, <3>1 DEF RepeatInv
  <2>4. CASE ~StoreWriterLocation(w)
    <3>1. Published(b)' = Published(b) /\ writerLocation'[b] = writerLocation[b]
      BY <1>1, <2>4, OnlyStorePublishes
    <3>2. IsAtWriterLocation(s, b)' = IsAtWriterLocation(s, b)
      BY <1>2, <3>1 DEF IsAtWriterLocation
    <3>3. writeAt'[w] \notin {"notify", "activate"}
      BY <1>7, <2>4 DEF BeginWrite, FinishPad, LoadNextLocation, WriteGoto, BufferTypeOK
    <3>4. QED
      BY <1>2, <1>3, <1>5, <1>6, <2>1, <2>2, <3>1, <3>2, <3>3 DEF RepeatInv
  <2>5. QED
    BY <2>3, <2>4
<1>8. ASSUME NEW c \in Schedulers, VisitConsumer(w, c)
      PROVE  RepeatInv(s, b)'
  <2>1. /\ Published(b)' = Published(b) /\ writerLocation'[b] = writerLocation[b]
        /\ writeAt[w] = "notify"
    BY <1>1, <1>8, OnlyStorePublishes DEF VisitConsumer, StoreWriterLocation, WriteGoto
  <2>2. IsAtWriterLocation(s, b)' = IsAtWriterLocation(s, b)
    BY <1>2, <2>1 DEF IsAtWriterLocation
  <2>3. ready' = ready
    BY <2>1 DEF StartWrite, ContinueWrite, BeginWrite, Activate, ActivateConsumer, WriteGoto,
                schedulerVars
  <2>4. activating[w] = {}
    BY <2>1 DEF ActivatingInv
  <2>5. /\ toNotify'[w] \subseteq toNotify[w]
        /\ s \in activating'[w] => s \in toNotify[w] /\ ~IsAtWriterLocation(s, b)
    <3>1. CASE IsAtWriterLocation(c, b)
      BY <1>8, <2>4, <3>1 DEF VisitConsumer, Visited, BufferTypeOK
    <3>2. CASE ~IsAtWriterLocation(c, b)
      BY <1>8, <3>2 DEF VisitConsumer, BufferTypeOK
    <3>3. QED
      BY <3>1, <3>2
  <2>6. QED
    BY <1>2, <1>3, <1>5, <1>6, <2>1, <2>2, <2>3, <2>5 DEF RepeatInv
<1>9. ASSUME NEW c \in Schedulers, Activate(w, c)
      PROVE  RepeatInv(s, b)'
  <2>1. /\ Published(b)' = Published(b) /\ writerLocation'[b] = writerLocation[b]
        /\ writeAt[w] = "activate"
    BY <1>1, <1>9, OnlyStorePublishes DEF Activate, ActivateConsumer, StoreWriterLocation, WriteGoto
  <2>2. IsAtWriterLocation(s, b)' = IsAtWriterLocation(s, b)
    BY <1>2, <2>1 DEF IsAtWriterLocation
  <2>3. /\ activating'[w] = {} /\ toNotify'[w] \subseteq toNotify[w]
        /\ c \in activating[w] /\ ActivateFor(c, b)
    BY <1>9 DEF Activate, ActivateConsumer, Visited, BufferTypeOK
  <2>4. Fresh(s, b)' => Fresh(s, b) \/ s = c
    <3>1. Held(ready'[s]) = IF s = c THEN Held(ready[c]) \cup {b} ELSE Held(ready[s])
      BY <2>3, ReadyAfterActivation
    <3>2. /\ Contains(ready[s], b) <=> b \in Held(ready[s])
          /\ Contains(ready'[s], b) <=> b \in Held(ready'[s])
      BY ContainsIsHeld, NoPointerIsNoBuffer
    <3>3. QED
      BY <1>2, <3>1, <3>2 DEF Fresh
  <2>5. QED
    BY <1>2, <1>3, <1>5, <2>1, <2>2, <2>3, <2>4 DEF RepeatInv
<1>10. QED
  BY <1>7, <1>8, <1>9 DEF StartWrite, ContinueWrite

(* A write on another buffer changes nothing that RepeatInv looks at.      *)
LEMMA RepeatOtherWriter ==
    ASSUME DataFlowInv, NEW w \in Writers, StartWrite(w) \/ ContinueWrite(w),
           NEW s \in Schedulers, NEW b \in Buffers, RepeatInv(s, b), WritesTo[w] # b
    PROVE  RepeatInv(s, b)'
<1> USE DEF DataFlowInv, DataFlowTypeOK
<1>1. WriterAction(w) /\ ThreadsUnchanged
  BY WritersLeaveThreads
<1>2. /\ UNCHANGED <<threadAt, inputBuffer, consumeAt, currentData, consumerLocations, repeats>>
      /\ Consuming(s, b)' = Consuming(s, b)
  BY <1>1 DEF ThreadsUnchanged, consumerVars, Consuming
<1>3. Repetitions(s, b)' = Repetitions(s, b)
  BY <1>2 DEF Repetitions, Repeating, HasAdvanced
<1>4. Published(b)' = Published(b) /\ writerLocation'[b] = writerLocation[b]
  BY <1>1, OtherBufferUnwritten
<1>5. Contains(ready'[s], b) => Contains(ready[s], b)
  <2>1. CASE ready' = ready
    BY <2>1
  <2>2. ASSUME NEW c \in Schedulers, Activate(w, c)
        PROVE  Contains(ready'[s], b) => Contains(ready[s], b)
    <3>1. ActivateFor(c, WritesTo[w]) /\ WritesTo[w] \in Buffers
      BY <2>2, RingBufferAssumption DEF Activate
    <3>2. Held(ready'[s]) = IF s = c THEN Held(ready[c]) \cup {WritesTo[w]} ELSE Held(ready[s])
      BY <3>1, ReadyAfterActivation
    <3>3. QED
      BY <3>2, ContainsIsHeld, NoPointerIsNoBuffer
  <2>3. QED
    BY <2>1, <2>2 DEF StartWrite, ContinueWrite, schedulerVars
<1>6. Fresh(s, b)' => Fresh(s, b)
  BY <1>2, <1>5 DEF Fresh
<1>7. IsAtWriterLocation(s, b)' = IsAtWriterLocation(s, b)
  BY <1>2, <1>4 DEF IsAtWriterLocation
<1>8. \A v \in Writers : WritesTo[v] = b => UNCHANGED <<writeAt[v], toNotify[v], activating[v]>>
  BY <1>1 DEF WriterAction, BeginWrite, FinishPad, LoadNextLocation, StoreWriterLocation,
              VisitConsumer, ActivateConsumer, Visited, WriteGoto, BufferTypeOK
<1>9. QED
  BY <1>2, <1>3, <1>4, <1>6, <1>7, <1>8, RepeatInvStable

(* A step of s's own thread on b.                                          *)
LEMMA RepeatOwnThread ==
    ASSUME DataFlowInv, NEW s \in Schedulers, ConsumptionStep(s),
           NEW b \in Buffers, b = inputBuffer[s], RepeatInv(s, b)
    PROVE  RepeatInv(s, b)'
<1> USE DEF DataFlowInv, DataFlowTypeOK
<1>1. /\ Consuming(s, b) /\ s \in linkedTo[b]
      /\ UNCHANGED <<writerLocation, writeAt, toNotify, activating>>
      /\ Published(b)' = Published(b)
  <2>1. Consuming(s, b) /\ s \in linkedTo[b]
    BY ConsumptionFrame, ConsumedBuffer DEF Consuming
  <2>2. ThreadStep(s)
    BY DEF ConsumptionStep, ThreadStep
  <2>3. UNCHANGED <<writerLocation, writes, writerVars>>
    BY <2>2, ThreadLeavesWriters
  <2>4. QED
    BY <2>1, <2>3 DEF writerVars, Published, BeingWritten
<1>2. Repetitions(s, b) \in Nat /\ Published(b) \in Int /\ repeats[s][b] \in Nat
  BY RepetitionsTyped DEF BufferTypeOK
<1>3. /\ consumerLocations[b][s] \in Pad /\ writerLocation[b] \in Pad
      /\ RING_BUFFER_SIZE \in Nat \ {0}
  BY RingBufferAssumption DEF BufferTypeOK
<1>4. threadAt[s] = "consume" => Contains(ready[s], b)
  BY DEF SchedulerInv, ConsumedBufferIsReady
<1>5. CASE TakeReference(s, b) /\ UNCHANGED schedulerVars
  <2>1. UNCHANGED <<consumerLocations, repeats, ready>> /\ Consuming(s, b)'
    BY <1>1, <1>5, ConsumptionKeepsMap DEF TakeReference, schedulerVars, Consuming
  <2>2. /\ consumeAt[s] = "checkIllegal" /\ consumeAt'[s] = "testAdvance"
        /\ currentData'[s] = consumerLocations[b][s]
    BY <1>5, <2>1 DEF TakeReference, ConsumeGoto, BufferTypeOK
  <2>3. Repetitions(s, b)' = Repetitions(s, b)
    BY <2>1, <2>2 DEF Repetitions, Repeating
  <2>4. Fresh(s, b)' = Fresh(s, b)
    BY <2>1, <2>2 DEF Fresh
  <2>5. IsAtWriterLocation(s, b)' = IsAtWriterLocation(s, b)
    BY <1>1, <2>1 DEF IsAtWriterLocation
  <2>6. QED
    BY <1>1, <2>1, <2>2, <2>3, <2>4, <2>5 DEF RepeatInv
<1>6. CASE TestAdvance(s, b) /\ UNCHANGED schedulerVars
  <2>1. /\ UNCHANGED <<consumerLocations, currentData, repeats, ready>>
        /\ Consuming(s, b)' /\ consumeAt[s] = "testAdvance"
        /\ consumeAt'[s] = IF IsAtWriterLocation(s, b) THEN "testDeactivate" ELSE "advance"
    BY <1>1, <1>6 DEF TestAdvance, ConsumeGoto, ringVars, schedulerVars, Consuming, BufferTypeOK
  <2>2. IsAtWriterLocation(s, b)' = IsAtWriterLocation(s, b)
    BY <1>1, <2>1 DEF IsAtWriterLocation
  <2>3. ~Repeating(s, b) /\ currentData[s] = consumerLocations[b][s]
    BY <1>1, <2>1 DEF Repeating, RepeatInv
  <2>4. Fresh(s, b)
    BY <1>1, <1>4, <2>1 DEF Fresh, ControlInv, Consuming
  <2>5. CASE IsAtWriterLocation(s, b)
    <3>1. Repetitions(s, b)' = Repetitions(s, b) + 1
      BY <2>1, <2>3, <2>5 DEF Repetitions, Repeating, HasAdvanced
    <3>2. ~Fresh(s, b)'
      BY <2>1, <2>5 DEF Fresh
    <3>3. QED
      BY <1>1, <1>2, <2>1, <2>2, <2>4, <2>5, <3>1, <3>2 DEF RepeatInv
  <2>6. CASE ~IsAtWriterLocation(s, b)
    <3>1. Repetitions(s, b)' = Repetitions(s, b)
      BY <2>1, <2>3, <2>6 DEF Repetitions, Repeating
    <3>2. Fresh(s, b)'
      BY <2>1, <2>4, <2>6 DEF Fresh
    <3>3. RING_BUFFER_SIZE >= 2
      BY <1>3, <2>6 DEF IsAtWriterLocation, Pad
    <3>4. QED
      BY <1>1, <2>1, <2>2, <2>3, <2>4, <2>6, <3>1, <3>2, <3>3 DEF RepeatInv
  <2>7. QED
    BY <2>5, <2>6
<1>7. CASE AdvanceConsumer(s, b) /\ UNCHANGED schedulerVars
  <2>1. /\ UNCHANGED <<currentData, repeats, ready>>
        /\ Consuming(s, b)' /\ consumeAt[s] = "advance" /\ consumeAt'[s] = "testDeactivate"
        /\ consumerLocations'[b][s] = NextPad(consumerLocations[b][s])
    BY <1>1, <1>7 DEF AdvanceConsumer, ConsumeGoto, schedulerVars, Consuming, BufferTypeOK
  <2>2. RING_BUFFER_SIZE >= 2 /\ currentData[s] = consumerLocations[b][s]
    BY <1>1, <2>1 DEF RepeatInv
  <2>3. HasAdvanced(s, b)'
    BY <1>3, <2>1, <2>2 DEF HasAdvanced, NextPad, Pad
  <2>4. Repetitions(s, b)' = Repetitions(s, b)
    BY <2>1, <2>3 DEF Repetitions, Repeating
  <2>5. Fresh(s, b) /\ ~Fresh(s, b)'
    BY <1>1, <1>4, <2>1 DEF Fresh, ControlInv, Consuming
  <2>6. QED
    BY <1>1, <1>2, <2>1, <2>4, <2>5 DEF RepeatInv
<1>8. CASE FindMore(s)
  <2>1. /\ UNCHANGED <<consumerLocations, currentData, repeats, ready>>
        /\ Consuming(s, b)' /\ consumeAt[s] = "testDeactivate"
        /\ consumeAt'[s] = IF IsAtWriterLocation(s, b) THEN "deactivate" ELSE "copyHead"
    BY <1>1, <1>8 DEF FindMore, TestDeactivate, ConsumeGoto, Goto, ringVars, Consuming,
                      BufferTypeOK, SchedulerTypeOK
  <2>2. IsAtWriterLocation(s, b)' = IsAtWriterLocation(s, b)
    BY <1>1, <2>1 DEF IsAtWriterLocation
  <2>3. Repetitions(s, b)' = Repetitions(s, b)
    BY <1>1, <2>1 DEF Repetitions, Repeating, HasAdvanced
  <2>4. Fresh(s, b)' => ~IsAtWriterLocation(s, b)
    BY <2>1 DEF Fresh
  <2>5. QED
    BY <1>1, <2>1, <2>2, <2>3, <2>4 DEF RepeatInv
<1>9. CASE Deactivate(s)
  <2>1. /\ UNCHANGED <<consumerLocations, currentData, repeats>>
        /\ Consuming(s, b)' /\ consumeAt[s] = "deactivate" /\ consumeAt'[s] = "copyHead"
    BY <1>1, <1>9 DEF Deactivate, DeactivateConsumer, ConsumeGoto, Goto, ringVars, Consuming,
                      BufferTypeOK, SchedulerTypeOK
  <2>2. IsAtWriterLocation(s, b)' = IsAtWriterLocation(s, b)
    BY <1>1, <2>1 DEF IsAtWriterLocation
  <2>3. Repetitions(s, b)' = Repetitions(s, b)
    BY <1>1, <2>1 DEF Repetitions, Repeating, HasAdvanced
  <2>4. ~Fresh(s, b)'
    <3>1. DeactivateFor(s, b)
      BY <1>9 DEF Deactivate
    <3>2. Held(ready'[s]) = Held(ready[s]) \ {b}
      BY <3>1, ReadyAfterDeactivation
    <3>3. QED
      BY <3>2, ContainsIsHeld, NoPointerIsNoBuffer DEF Fresh
  <2>5. QED
    BY <1>1, <2>1, <2>2, <2>3, <2>4, RepeatInvStable
<1>10. CASE CopyHead(s, b) /\ UNCHANGED schedulerVars
  <2>1. /\ UNCHANGED <<consumerLocations, currentData, repeats, ready>>
        /\ Consuming(s, b)' /\ consumeAt[s] = "copyHead" /\ consumeAt'[s] = "copyTail"
    BY <1>1, <1>10 DEF CopyHead, ConsumeGoto, ringVars, schedulerVars, Consuming, BufferTypeOK
  <2>2. IsAtWriterLocation(s, b)' = IsAtWriterLocation(s, b)
    BY <1>1, <2>1 DEF IsAtWriterLocation
  <2>3. Repetitions(s, b)' = Repetitions(s, b)
    BY <1>1, <2>1 DEF Repetitions, Repeating, HasAdvanced
  <2>4. Fresh(s, b)' = Fresh(s, b)
    BY <2>1 DEF Fresh
  <2>5. QED
    BY <1>1, <2>1, <2>2, <2>3, <2>4, RepeatInvStable
<1>11. CASE CopyTail(s, b) /\ FinishConsumption(s)
  <2>1. /\ UNCHANGED <<consumerLocations, currentData, ready>>
        /\ ~Consuming(s, b)' /\ consumeAt[s] = "copyTail" /\ consumeAt'[s] = "checkIllegal"
        /\ repeats'[s][b] = IF HasAdvanced(s, b) THEN repeats[s][b] ELSE repeats[s][b] + 1
    BY <1>1, <1>11 DEF CopyTail, FinishConsumption, ConsumeGoto, Goto, ringVars, Consuming,
                       BufferTypeOK, SchedulerTypeOK
  <2>2. IsAtWriterLocation(s, b)' = IsAtWriterLocation(s, b)
    BY <1>1, <2>1 DEF IsAtWriterLocation
  <2>3. Repetitions(s, b)' = Repetitions(s, b)
    BY <1>1, <2>1 DEF Repetitions, Repeating
  <2>4. Fresh(s, b)' = Fresh(s, b)
    BY <2>1 DEF Fresh
  <2>5. QED
    BY <1>1, <2>1, <2>2, <2>3, <2>4, RepeatInvStable
<1>12. QED
  BY <1>5, <1>6, <1>7, <1>8, <1>9, <1>10, <1>11 DEF ConsumptionStep, InBuffer, Copy

(* A step of a thread that is not at b for s.                              *)
LEMMA RepeatOtherThread ==
    ASSUME DataFlowInv, NEW t \in Schedulers, ThreadStep(t),
           NEW s \in Schedulers, NEW b \in Buffers, RepeatInv(s, b),
           Loop(t) \/ (ConsumptionStep(t) /\ (s # t \/ b # inputBuffer[t]))
    PROVE  RepeatInv(s, b)'
<1> USE DEF DataFlowInv, DataFlowTypeOK
<1>1. /\ UNCHANGED <<writerLocation, writeAt, toNotify, activating>>
      /\ Published(b)' = Published(b)
  BY ThreadLeavesWriters DEF writerVars, Published, BeingWritten
<1>2. Contains(ready'[s], b) => Contains(ready[s], b)
  <2>1. CASE Loop(t)
    BY <2>1, LoopKeepsReady, ContainsIsHeld, NoPointerIsNoBuffer DEF Loop
  <2>2. CASE Deactivate(t)
    <3>1. DeactivateFor(t, inputBuffer[t]) /\ inputBuffer[t] \in Buffers
      BY <2>2, ConsumedBuffer DEF Deactivate, Goto
    <3>2. Held(ready'[s]) = IF s = t THEN Held(ready[t]) \ {inputBuffer[t]} ELSE Held(ready[s])
      BY <3>1, ReadyAfterDeactivation
    <3>3. QED
      BY <3>2, ContainsIsHeld, NoPointerIsNoBuffer
  <2>3. CASE InBuffer(t) \/ FindMore(t) \/ Copy(t)
    BY <2>3 DEF InBuffer, FindMore, Copy, FinishConsumption, schedulerVars
  <2>4. QED
    BY <2>1, <2>2, <2>3 DEF ThreadStep
<1>3. consumerLocations'[b][s] = consumerLocations[b][s] /\ repeats'[s][b] = repeats[s][b]
  <2>1. CASE Loop(t)
    BY <2>1 DEF Loop, bufferVars, ringVars, consumerVars
  <2>2. CASE ConsumptionStep(t) /\ (s # t \/ b # inputBuffer[t])
    <3>1. CASE CopyTail(t, inputBuffer[t])
      <4>1. inputBuffer[t] \in Buffers /\ repeats \in [Schedulers -> [Buffers -> Nat]]
        BY <2>2, ConsumptionFrame DEF BufferTypeOK
      <4>2. \/ repeats' = repeats
            \/ repeats' = [repeats EXCEPT ![t][inputBuffer[t]] = repeats[t][inputBuffer[t]] + 1]
        BY <3>1 DEF CopyTail
      <4>3. repeats'[s][b] = repeats[s][b]
        BY <2>2, <4>1, <4>2
      <4>4. QED
        BY <2>2, <4>3, ConsumptionFrame
    <3>2. CASE ~CopyTail(t, inputBuffer[t])
      <4>1. repeats' = repeats
        BY <2>2, <3>2
        DEF ConsumptionStep, InBuffer, FindMore, Deactivate, Copy, TakeReference, TestAdvance,
            AdvanceConsumer, TestDeactivate, DeactivateConsumer, CopyHead
      <4>2. QED
        BY <2>2, <4>1, ConsumptionFrame
    <3>3. QED
      BY <3>1, <3>2
  <2>3. QED
    BY <2>1, <2>2
<1>4. IsAtWriterLocation(s, b)' = IsAtWriterLocation(s, b)
  BY <1>1, <1>3 DEF IsAtWriterLocation
<1>5. CASE s # t \/ Loop(t)
  <2>1. /\ UNCHANGED <<consumeAt[s], currentData[s]>>
        /\ Consuming(s, b)' = Consuming(s, b) \/ consumeAt[s] = "checkIllegal"
    <3>1. CASE Loop(t)
      <4>1. s # t => UNCHANGED <<threadAt[s], inputBuffer[s]>>
        BY <3>1 DEF Loop, LoopStep, ReadIsEmpty, ReadTerminateOrder, EnterLoopBody,
                    ReadNextPointerToConsume, Goto, SchedulerTypeOK
      <4>2. consumeAt[t] = "checkIllegal"
        BY <3>1 DEF Loop, LoopStep, ReadIsEmpty, ReadTerminateOrder, EnterLoopBody,
                    ReadNextPointerToConsume, Goto, ControlInv
      <4>3. QED
        BY <3>1, <4>1, <4>2 DEF Loop, bufferVars, consumerVars, Consuming
    <3>2. CASE ConsumptionStep(t) /\ s # t
      BY <3>2, ConsumptionFrame DEF Consuming
    <3>3. QED
      BY <1>5, <3>1, <3>2
  <2>2. Repetitions(s, b)' = Repetitions(s, b)
    BY <1>3, <2>1 DEF Repetitions, Repeating, HasAdvanced
  <2>3. Fresh(s, b)' => Fresh(s, b)
    BY <1>2, <2>1 DEF Fresh
  <2>4. QED
    BY <1>1, <1>3, <1>4, <2>1, <2>2, <2>3, RepeatInvStable
<1>6. CASE s = t /\ ConsumptionStep(t) /\ b # inputBuffer[t]
  <2>1. ~Consuming(s, b) /\ ~Consuming(s, b)'
    <3>1. inputBuffer'[t] \in {inputBuffer[t], NoPointer} /\ b # NoPointer
      BY <1>6, ConsumptionFrame, NoPointerIsNoBuffer
    <3>2. QED
      BY <1>6, <3>1 DEF Consuming
  <2>2. Repetitions(s, b)' = Repetitions(s, b)
    BY <1>3, <2>1 DEF Repetitions, Repeating
  <2>3. Fresh(s, b)' => Fresh(s, b)
    BY <1>2, <2>1 DEF Fresh
  <2>4. QED
    BY <1>1, <1>3, <1>4, <2>1, <2>2, <2>3, RepeatInvStable
<1>7. QED
  BY <1>5, <1>6

LEMMA ActivatingStep ==
    ASSUME DataFlowInv, ActivatingInv, [Next]_dataFlowVars
    PROVE  ActivatingInv'
<1> USE DEF DataFlowInv, DataFlowTypeOK, ActivatingInv
<1>1. UNCHANGED <<writeAt, activating>> => ActivatingInv'
  OBVIOUS
<1>2. ASSUME NEW w \in Writers, WriterAction(w)
      PROVE  ActivatingInv'
  BY <1>2 DEF WriterAction, BeginWrite, FinishPad, LoadNextLocation, StoreWriterLocation,
              VisitConsumer, ActivateConsumer, NextTurn, WriteGoto, BufferTypeOK
<1>3. ASSUME NEW s \in Schedulers, NEW b \in Buffers, Link(s, b)
      PROVE  UNCHANGED writerVars
  BY <1>3 DEF Link
<1>4. ASSUME NEW t \in Schedulers, ThreadStep(t)
      PROVE  UNCHANGED writerVars
  BY <1>4, ThreadLeavesWriters
<1>5. CASE \/ StartWriters
           \/ JoinWriters
           \/ \E s \in Schedulers : Terminate(s) \/ JoinScheduler(s)
           \/ UNCHANGED dataFlowVars
  BY <1>5, MainLeavesBuffers DEF bufferVars, writerVars
<1>6. QED
  BY <1>1, <1>2, <1>3, <1>4, <1>5, WritersLeaveThreads, NextIsLinkOrNot DEF NextButLink, writerVars

(* A new consumer starts where the history says it has always been.        *)
LEMMA LinkKeepsLocations ==
    ASSUME DataFlowInv, NEW t \in Schedulers, NEW c \in Buffers, Link(t, c),
           NEW s \in Schedulers, NEW b \in Buffers
    PROVE  consumerLocations'[b][s] = consumerLocations[b][s]
<1> USE DEF DataFlowInv, DataFlowTypeOK
<1>1. consumerLocations' = [consumerLocations EXCEPT
          ![c][t] = IF t \in linkedTo[c] THEN consumerLocations[c][t] ELSE 0]
  BY DEF Link, AddLinkIfNoneExists
<1>2. t \notin linkedTo[c] => consumerLocations[c][t] = 0
  BY DEF Orderly
<1>3. QED
  BY <1>1, <1>2 DEF BufferTypeOK

LEMMA RepeatsStep ==
    ASSUME DataFlowInv, RepeatsInv, [Next]_dataFlowVars
    PROVE  RepeatsInv'
<1> USE DEF DataFlowInv, DataFlowTypeOK
<1>1. ActivatingInv'
  BY ActivatingStep DEF RepeatsInv
<1>2. SUFFICES ASSUME NEW s \in Schedulers, NEW b \in Buffers, SingleWriter(b)
               PROVE  RepeatInv(s, b)'
  BY <1>1 DEF RepeatsInv, SingleWriter
<1>3. RepeatInv(s, b) /\ ActivatingInv
  BY <1>2 DEF RepeatsInv
<1>4. ASSUME UNCHANGED <<writerLocation, writes, writerVars, consumerVars, ready, threadAt, inputBuffer>>,
             consumerLocations'[b][s] = consumerLocations[b][s]
      PROVE  RepeatInv(s, b)'
  <2>1. /\ Repetitions(s, b)' = Repetitions(s, b)
        /\ Fresh(s, b)' = Fresh(s, b)
        /\ Published(b)' = Published(b)
        /\ IsAtWriterLocation(s, b)' = IsAtWriterLocation(s, b)
        /\ Consuming(s, b)' = Consuming(s, b)
        /\ UNCHANGED <<consumeAt, currentData, writeAt, toNotify, activating>>
    BY <1>4 DEF Repetitions, Repeating, HasAdvanced, Fresh, Published, BeingWritten,
                IsAtWriterLocation, Consuming, writerVars, consumerVars
  <2>2. QED
    BY <1>3, <1>4, <2>1, RepeatInvStable
<1>5. CASE \/ StartWriters
           \/ JoinWriters
           \/ \E t \in Schedulers : Terminate(t) \/ JoinScheduler(t)
           \/ UNCHANGED dataFlowVars
  <2>1. UNCHANGED <<bufferVars, threadAt, inputBuffer>>
    BY <1>5, MainLeavesBuffers
  <2>2. ready' = ready
    BY <1>5 DEF StartWriters, JoinWriters, Terminate, OrderTermination, JoinScheduler, Join,
                schedulerVars, dataFlowVars
  <2>3. QED
    BY <1>4, <2>1, <2>2 DEF bufferVars, ringVars
<1>6. ASSUME NEW t \in Schedulers, NEW c \in Buffers, Link(t, c)
      PROVE  RepeatInv(s, b)'
  BY <1>4, <1>6, LinkKeepsLocations DEF Link, LinkWith
<1>7. ASSUME NEW w \in Writers, StartWrite(w) \/ ContinueWrite(w)
      PROVE  RepeatInv(s, b)'
  BY <1>2, <1>3, <1>7, RepeatOwnWriter, RepeatOtherWriter
<1>8. ASSUME NEW t \in Schedulers, ThreadStep(t)
      PROVE  RepeatInv(s, b)'
  <2>1. CASE s = t /\ b = inputBuffer[t] /\ ConsumptionStep(t)
    BY <1>3, <2>1, RepeatOwnThread
  <2>2. CASE Loop(t) \/ (ConsumptionStep(t) /\ (s # t \/ b # inputBuffer[t]))
    BY <1>3, <1>8, <2>2, RepeatOtherThread
  <2>3. QED
    BY <1>8, <2>1, <2>2 DEF ThreadStep, ConsumptionStep
<1>9. QED
  BY <1>5, <1>6, <1>7, <1>8, NextIsLinkOrNot DEF NextButLink

LEMMA RepeatsInvariant == Spec => []RepeatsInv
<1>1. Init => RepeatsInv
  <2> SUFFICES ASSUME Init PROVE RepeatsInv
    OBVIOUS
  <2>1. ASSUME NEW s \in Schedulers, NEW b \in Buffers
        PROVE  ~Contains(ready[s], b)
    <3>1. Held(EmptyList) = {}
      BY EmptyListIsWellFormed
    <3>2. QED
      BY <3>1, ContainsIsHeld, NoPointerIsNoBuffer DEF Init, SchedulerInit
  <2>2. \A b \in Buffers : Published(b) = 0
    BY DEF Init, BufferInit, Published, BeingWritten
  <2>3. ASSUME NEW s \in Schedulers, NEW b \in Buffers
        PROVE  ~Consuming(s, b) /\ ~Repeating(s, b) /\ repeats[s][b] = 0
    BY DEF Init, BufferInit, SchedulerInit, Consuming, Repeating
  <2>4. ASSUME NEW s \in Schedulers, NEW b \in Buffers
        PROVE  RepeatInv(s, b)
    BY <2>1, <2>2, <2>3 DEF Init, BufferInit, RepeatInv, Repetitions, Fresh
  <2>5. QED
    BY <2>4 DEF Init, BufferInit, RepeatsInv, ActivatingInv
<1>2. DataFlowInv /\ RepeatsInv /\ [Next]_dataFlowVars => RepeatsInv'
  BY RepeatsStep
<1>3. QED
  BY <1>1, <1>2, DataFlowInvariant, PTL DEF Spec

(* One write makes each consumer repeat at most once, lapped or not.       *)
THEOREM RepeatsAreBounded == Spec => []RepeatsBoundedByWrites
<1>1. DataFlowInv /\ RepeatsInv => RepeatsBoundedByWrites
  <2> SUFFICES ASSUME DataFlowInv, RepeatsInv, NEW s \in Schedulers, NEW b \in Buffers,
                      SingleWriter(b)
               PROVE  repeats[s][b] <= writes[b]
    BY DEF RepeatsBoundedByWrites
  <2>1. Repetitions(s, b) <= Published(b)
    BY DEF RepeatsInv, RepeatInv
  <2>2. repeats[s][b] \in Nat /\ writes[b] \in Nat
    BY PublishedIsNat DEF DataFlowInv, DataFlowTypeOK, BufferTypeOK
  <2>3. QED
    BY <2>1, <2>2 DEF Repetitions, Published
<1>2. QED
  BY <1>1, RepeatsInvariant, DataFlowInvariant, PTL

-----------------------------------------------------------------------------
(* Once the writers are joined, an empty list means that all is drained. *)

(* The writers are started when everything is linked. *)
LinkedInv == mainAt # "linking" => \A l \in Links : l[1] \in linkedTo[l[2]]

LEMMA LinkedStep ==
    ASSUME DataFlowInv, LinkedInv, [Next]_dataFlowVars
    PROVE  LinkedInv'
<1> USE DEF DataFlowInv, LinkedInv
<1>1. CASE UNCHANGED dataFlowVars
  BY <1>1 DEF dataFlowVars, bufferVars, ringVars
<1>2. ASSUME NEW s \in Schedulers, NEW b \in Buffers, Link(s, b)
      PROVE  LinkedInv'
  BY <1>2 DEF Link
<1>3. CASE NextButLink
  <2>1. linkedTo' = linkedTo
    BY <1>3, MapsChangeOnlyByLink
  <2>2. CASE StartWriters
    <3>1. \A l \in Links : l[1] \in Schedulers /\ l[2] \in Buffers /\ IsLinked(l[1], l[2])
      BY <2>2, LinksAssumption DEF StartWriters
    <3>2. QED
      BY <2>1, <3>1 DEF MapsAgreeWithLists
  <2>3. CASE ~StartWriters
    <3>1. mainAt' # "linking" => mainAt # "linking"
      BY <1>3, <2>3, WriterStepNeedsWriters, ThreadStepIsOwn
      DEF NextButLink, JoinWriters, Terminate, JoinScheduler
    <3>2. QED
      BY <2>1, <3>1
  <2>4. QED
    BY <2>2, <2>3
<1>4. QED
  BY <1>1, <1>2, <1>3, NextIsLinkOrNot

LEMMA LinkedInvariant == Spec => []LinkedInv
<1>1. Init => LinkedInv
  BY DEF Init, LinkedInv
<1>2. DataFlowInv /\ LinkedInv /\ [Next]_dataFlowVars => LinkedInv'
  BY LinkedStep
<1>3. QED
  BY <1>1, <1>2, DataFlowInvariant, PTL DEF Spec

LEMMA EmptyHoldsNothing ==
    ASSUME NEW l, WellFormed(l), IsEmpty(l), NEW x, x # NoPointer
    PROVE  ~Contains(l, x)
BY OccupiedIsFinite, FS_EmptySet DEF WellFormed, IsEmpty, Contains, Occupied

(* Only its own look at isEmpty() makes a thread go on to the order.       *)
LEMMA SeenEmpty ==
    ASSUME DataFlowInv, [Next]_dataFlowVars, NEW s \in Schedulers,
           threadAt[s] = "isEmpty", threadAt'[s] = "isTerminated"
    PROVE  IsEmpty(ready[s])
<1> USE DEF DataFlowInv, DataFlowTypeOK, SchedulerTypeOK
<1>1. CASE \/ StartWriters
           \/ JoinWriters
           \/ \E t \in Schedulers : Terminate(t) \/ JoinScheduler(t)
           \/ UNCHANGED dataFlowVars
  BY <1>1, MainLeavesBuffers
<1>2. ASSUME NEW t \in Schedulers, NEW b \in Buffers, Link(t, b)
      PROVE  FALSE
  BY <1>2 DEF Link, LinkWith
<1>3. ASSUME NEW w \in Writers, StartWrite(w) \/ ContinueWrite(w)
      PROVE  FALSE
  BY <1>3, WriterStepNeedsWriters
<1>4. ASSUME NEW t \in Schedulers, ThreadStep(t)
      PROVE  IsEmpty(ready[s])
  <2>1. CASE Loop(t)
    BY <2>1 DEF Loop, LoopStep, ReadIsEmpty, ReadTerminateOrder, EnterLoopBody,
                ReadNextPointerToConsume, Goto
  <2>2. CASE ConsumptionStep(t)
    <3>1. t = s
      BY <2>2, ConsumptionFrame
    <3>2. QED
      BY <2>2, <3>1, ConsumptionFrame DEF Consuming
  <2>3. QED
    BY <1>4, <2>1, <2>2 DEF ThreadStep, ConsumptionStep
<1>5. QED
  BY <1>1, <1>2, <1>3, <1>4, NextIsLinkOrNot DEF NextButLink

(* A consumer that is at the writer's location when nobody writes has      *)
(* copied all that was written, unless it was lapped.                      *)
LEMMA AtWriterIsDrained ==
    ASSUME DataFlowInv, NEW s \in Schedulers, NEW b \in Buffers, SingleWriter(b), ~overrun[b],
           s \in linkedTo[b], threadAt[s] = "isEmpty", ~BeingWritten(b), IsAtWriterLocation(s, b)
    PROVE  Drained(s, b)
<1> USE DEF DataFlowInv, DataFlowTypeOK, BufferTypeOK
<1> DEFINE at == consumerLocations[b][s]
<1>1. LinkInv(s, b) /\ ~Pending(s, b)
  BY DEF Orderly, Pending, Consuming
<1>2. at \in Pad /\ Unread(s, b) \in Offset /\ 0 \in Offset
  BY <1>1, RingBufferAssumption DEF LinkInv, Offset
<1>3. Ring(at, Unread(s, b)) = Ring(at, 0)
  BY <1>1, <1>2, RingFacts DEF LinkInv, IsAtWriterLocation
<1>4. Unread(s, b) = 0
  BY <1>2, <1>3, RingFacts
<1>5. Len(received[s][b]) = advances[s][b] /\ advances[s][b] \in Nat
  BY <1>1 DEF LinkInv
<1>6. Published(b) = writes[b] /\ writes[b] \in Nat
  BY PublishedIsNat DEF Published
<1>7. QED
  BY <1>4, <1>5, <1>6 DEF Unread, Drained

LEMMA EmptyStep ==
    ASSUME DataFlowInv, NoticedInv, StoppingInv, LinkedInv, [Next]_dataFlowVars,
           NEW s \in Schedulers, NEW b \in Buffers, <<s, b>> \in Links, SingleWriter(b),
           JoinedWritersOnly(b), mainAt = "stopping", threadAt[s] = "isEmpty", threadAt'[s] = "isTerminated"
    PROVE  Drained(s, b) \/ GivenUp(s, b)
<1>1. ~BeingNotified(s, b) /\ ~BeingWritten(b)
  BY DEF StoppingInv, BeingNotified, BeingWritten, JoinedWritersOnly
<1>2. s \in linkedTo[b]
  BY DEF LinkedInv
<1>3. ~Contains(ready[s], b)
  <2>1. WellFormed(ready[s])
    BY DEF DataFlowInv, SchedulerInv, LinkPartition
  <2>2. QED
    BY <2>1, SeenEmpty, EmptyHoldsNothing, NoPointerIsNoBuffer
<1>4. IsAtWriterLocation(s, b) \/ <<s, b>> \in missed
  BY <1>1, <1>2, <1>3 DEF NoticedInv, Noticed
<1>5. QED
  BY <1>1, <1>2, <1>4, AtWriterIsDrained DEF GivenUp

(* A thread that leaves the first exit test with an empty list, when no    *)
(* thread writes any more, has handed on all that was written, but for a   *)
(* lap or a late deactivation.                                             *)
THEOREM EmptyMeansDrained == Spec => SeenEmptyIsDrained
<1> DEFINE A == \A l \in Links :
                    LET s == l[1]
                        b == l[2]
                    IN  /\ SingleWriter(b) /\ JoinedWritersOnly(b) /\ mainAt = "stopping"
                        /\ threadAt[s] = "isEmpty" /\ threadAt'[s] = "isTerminated"
                        => Drained(s, b) \/ GivenUp(s, b)
<1>1. \A l \in Links : l = <<l[1], l[2]>> /\ l[1] \in Schedulers /\ l[2] \in Buffers
  BY LinksAssumption
<1>2. DataFlowInv /\ NoticedInv /\ StoppingInv /\ LinkedInv /\ [Next]_dataFlowVars
          => [A]_dataFlowVars
  <2> SUFFICES ASSUME DataFlowInv, NoticedInv, StoppingInv, LinkedInv, [Next]_dataFlowVars
               PROVE  A
    OBVIOUS
  <2>1. QED
    BY <1>1, EmptyStep
<1>3. QED
  BY <1>2, NoticedInvariant, StoppingInvariant, LinkedInvariant, DataFlowInvariant, PTL
  DEF Spec, SeenEmptyIsDrained

-----------------------------------------------------------------------------
(* Every link of a buffer with one writer is a queue. *)

(* Of the data a consumer has moved over, at most the last is not copied:  *)
(* also when it was lapped.                                                *)
LengthInv ==
    \A s \in Schedulers, b \in Buffers : SingleWriter(b) =>
        advances[s][b] = Len(received[s][b]) + (IF Pending(s, b) THEN 1 ELSE 0)

LEMMA ReceivedIsSeq ==
    ASSUME BufferTypeOK, NEW s \in Schedulers, NEW b \in Buffers
    PROVE  /\ received[s][b] \in Seq([head : Datum, tail : Datum])
           /\ Len(received[s][b]) \in Nat
           /\ advances[s][b] \in Nat
<1>1. received[s][b] \in Seq([head : Datum, tail : Datum]) /\ advances[s][b] \in Nat
  BY DEF BufferTypeOK
<1>2. QED
  BY <1>1, LenProperties

(* A step of s's own thread on b.                                          *)
LEMMA LengthOwnThread ==
    ASSUME DataFlowInv, NEW s \in Schedulers, ConsumptionStep(s),
           NEW b \in Buffers, b = inputBuffer[s], RepeatInv(s, b),
           advances[s][b] = Len(received[s][b]) + (IF Pending(s, b) THEN 1 ELSE 0)
    PROVE  advances'[s][b] = Len(received'[s][b]) + (IF Pending(s, b)' THEN 1 ELSE 0)
<1> USE DEF DataFlowInv, DataFlowTypeOK
<1>1. Consuming(s, b) /\ s \in linkedTo[b]
  BY ConsumptionFrame, ConsumedBuffer DEF Consuming
<1>2. Len(received[s][b]) \in Nat /\ advances[s][b] \in Nat
  BY ReceivedIsSeq
<1>3. ASSUME UNCHANGED <<advances, received>>, Pending(s, b)' = Pending(s, b)
      PROVE  advances'[s][b] = Len(received'[s][b]) + (IF Pending(s, b)' THEN 1 ELSE 0)
  BY <1>3
<1>4. CASE TakeReference(s, b)
  <2>1. /\ UNCHANGED <<advances, received>>
        /\ consumeAt[s] = "checkIllegal" /\ consumeAt'[s] = "testAdvance"
    BY <1>4 DEF TakeReference, ConsumeGoto, BufferTypeOK
  <2>2. QED
    BY <1>3, <2>1 DEF Pending
<1>5. CASE TestAdvance(s, b)
  <2>1. /\ UNCHANGED <<advances, received, consumerLocations, currentData>>
        /\ consumeAt[s] = "testAdvance"
    BY <1>5 DEF TestAdvance, ConsumeGoto, ringVars
  <2>2. ~HasAdvanced(s, b)'
    BY <1>1, <2>1 DEF RepeatInv, HasAdvanced
  <2>3. QED
    BY <1>3, <2>1, <2>2 DEF Pending
<1>6. CASE AdvanceConsumer(s, b) /\ UNCHANGED schedulerVars
  <2>1. /\ received' = received /\ currentData' = currentData
        /\ advances'[s][b] = advances[s][b] + 1
        /\ consumerLocations'[b][s] = NextPad(consumerLocations[b][s])
        /\ Consuming(s, b)' /\ consumeAt[s] = "advance" /\ consumeAt'[s] = "testDeactivate"
    BY <1>1, <1>6 DEF AdvanceConsumer, ConsumeGoto, schedulerVars, Consuming, BufferTypeOK
  <2>2. RING_BUFFER_SIZE >= 2 /\ currentData[s] = consumerLocations[b][s]
    BY <1>1, <2>1 DEF RepeatInv
  <2>3. consumerLocations[b][s] \in Pad
    BY DEF BufferTypeOK
  <2>4. HasAdvanced(s, b)'
    BY <2>1, <2>2, <2>3, RingFacts DEF HasAdvanced
  <2>5. ~Pending(s, b) /\ Pending(s, b)'
    BY <2>1, <2>4 DEF Pending
  <2>6. QED
    BY <1>2, <2>1, <2>5
<1>7. CASE FindMore(s) \/ Deactivate(s) \/ (CopyHead(s, b) /\ UNCHANGED schedulerVars)
  <2>1. /\ UNCHANGED <<advances, received, consumerLocations, currentData>>
        /\ consumeAt[s] \in {"testDeactivate", "deactivate", "copyHead"}
        /\ consumeAt'[s] \in {"deactivate", "copyHead", "copyTail"}
    BY <1>1, <1>7 DEF FindMore, TestDeactivate, Deactivate, DeactivateConsumer, CopyHead,
                      ConsumeGoto, ringVars, BufferTypeOK
  <2>2. Consuming(s, b)'
    BY <1>1, <1>7 DEF FindMore, Deactivate, schedulerVars, Goto, Consuming, SchedulerTypeOK
  <2>3. Pending(s, b)' = Pending(s, b)
    BY <1>1, <2>1, <2>2 DEF Pending, HasAdvanced
  <2>4. QED
    BY <1>3, <2>1, <2>3
<1>8. CASE CopyTail(s, b)
  <2>1. /\ consumeAt'[s] = "checkIllegal" /\ advances' = advances
    BY <1>8 DEF CopyTail, ConsumeGoto, BufferTypeOK
  <2>2. ~Pending(s, b)'
    BY <2>1 DEF Pending
  <2>3. CASE Pending(s, b)
    <3>1. Len(received'[s][b]) = Len(received[s][b]) + 1
      BY <1>1, <1>8, <2>3, CopyTailLength
    <3>2. QED
      BY <1>2, <2>1, <2>2, <2>3, <3>1
  <2>4. CASE ~Pending(s, b)
    <3>1. received'[s][b] = received[s][b]
      BY <1>1, <1>8, <2>4, CopyTailLength
    <3>2. QED
      BY <2>1, <2>2, <2>4, <3>1
  <2>5. QED
    BY <2>3, <2>4
<1>9. QED
  BY <1>4, <1>5, <1>6, <1>7, <1>8 DEF ConsumptionStep, InBuffer, Copy

LEMMA LengthStep ==
    ASSUME DataFlowInv, RepeatsInv, LengthInv, [Next]_dataFlowVars
    PROVE  LengthInv'
<1> USE DEF DataFlowInv, DataFlowTypeOK
<1> SUFFICES ASSUME NEW s \in Schedulers, NEW b \in Buffers, SingleWriter(b)
             PROVE  advances'[s][b] = Len(received'[s][b]) + (IF Pending(s, b)' THEN 1 ELSE 0)
  BY DEF LengthInv, SingleWriter
<1>1. advances[s][b] = Len(received[s][b]) + (IF Pending(s, b) THEN 1 ELSE 0)
  BY DEF LengthInv
<1>2. ASSUME UNCHANGED <<advances[s][b], received[s][b]>>, Pending(s, b)' = Pending(s, b)
      PROVE  advances'[s][b] = Len(received'[s][b]) + (IF Pending(s, b)' THEN 1 ELSE 0)
  BY <1>1, <1>2
<1>3. ASSUME UNCHANGED <<consumerVars, threadAt, inputBuffer>>,
             consumerLocations'[b][s] = consumerLocations[b][s]
      PROVE  advances'[s][b] = Len(received'[s][b]) + (IF Pending(s, b)' THEN 1 ELSE 0)
  BY <1>2, <1>3 DEF consumerVars, Pending, Consuming, HasAdvanced
<1>4. CASE \/ StartWriters
           \/ JoinWriters
           \/ \E t \in Schedulers : Terminate(t) \/ JoinScheduler(t)
           \/ UNCHANGED dataFlowVars
  BY <1>3, <1>4, MainLeavesBuffers DEF bufferVars, ringVars
<1>5. ASSUME NEW t \in Schedulers, NEW c \in Buffers, Link(t, c)
      PROVE  advances'[s][b] = Len(received'[s][b]) + (IF Pending(s, b)' THEN 1 ELSE 0)
  BY <1>3, <1>5, LinkKeepsLocations DEF Link, LinkWith
<1>6. ASSUME NEW w \in Writers, StartWrite(w) \/ ContinueWrite(w)
      PROVE  advances'[s][b] = Len(received'[s][b]) + (IF Pending(s, b)' THEN 1 ELSE 0)
  BY <1>3, <1>6, WritersLeaveThreads DEF ThreadsUnchanged
<1>7. ASSUME NEW t \in Schedulers, ThreadStep(t)
      PROVE  advances'[s][b] = Len(received'[s][b]) + (IF Pending(s, b)' THEN 1 ELSE 0)
  <2>1. CASE Loop(t)
    <3>1. /\ UNCHANGED <<consumerVars, consumerLocations>>
          /\ threadAt[t] \notin {"consume", "copy"}
          /\ s # t => UNCHANGED <<threadAt[s], inputBuffer[s]>>
      BY <2>1 DEF Loop, LoopStep, ReadIsEmpty, ReadTerminateOrder, EnterLoopBody,
                  ReadNextPointerToConsume, Goto, SchedulerTypeOK, bufferVars, ringVars
    <3>2. consumeAt[t] = "checkIllegal"
      BY <3>1 DEF ControlInv
    <3>3. Pending(s, b)' = Pending(s, b)
      BY <3>1, <3>2 DEF Pending, Consuming, HasAdvanced, consumerVars
    <3>4. QED
      BY <1>2, <3>1, <3>3 DEF consumerVars
  <2>2. CASE ConsumptionStep(t) /\ s # t
    <3>1. Pending(s, b)' = Pending(s, b)
      BY <2>2, ConsumptionFrame DEF Pending, Consuming, HasAdvanced
    <3>2. QED
      BY <1>2, <2>2, <3>1, ConsumptionFrame
  <2>3. CASE ConsumptionStep(t) /\ s = t /\ b # inputBuffer[t]
    <3>1. ~Consuming(s, b) /\ ~Consuming(s, b)'
      BY <2>3, ConsumptionFrame, NoPointerIsNoBuffer DEF Consuming
    <3>2. QED
      BY <1>2, <2>3, <3>1, ConsumptionFrame DEF Pending
  <2>4. CASE ConsumptionStep(t) /\ s = t /\ b = inputBuffer[t]
    BY <1>1, <2>4, LengthOwnThread DEF RepeatsInv
  <2>5. QED
    BY <1>7, <2>1, <2>2, <2>3, <2>4 DEF ThreadStep, ConsumptionStep
<1>8. QED
  BY <1>4, <1>5, <1>6, <1>7, NextIsLinkOrNot DEF NextButLink

LEMMA LengthInvariant == Spec => []LengthInv
<1>1. Init => LengthInv
  BY DEF Init, BufferInit, SchedulerInit, LengthInv, Pending, Consuming
<1>2. DataFlowInv /\ RepeatsInv /\ LengthInv /\ [Next]_dataFlowVars => LengthInv'
  BY LengthStep
<1>3. QED
  BY <1>1, <1>2, RepeatsInvariant, DataFlowInvariant, PTL DEF Spec

(* The data after the n-th, up to the p-th, as they are written.           *)
Between(n, p) == [i \in 1..(p - n) |-> Both(n + i)]

LEMMA BetweenIsSeq ==
    ASSUME NEW n \in Nat, NEW p \in Nat, n <= p
    PROVE  /\ Between(n, p) \in Seq([head : Nat, tail : Nat])
           /\ Len(Between(n, p)) = p - n
           /\ \A i \in 1..(p - n) : Between(n, p)[i] = Both(n + i)
<1> DEFINE S == [head : Nat, tail : Nat]
<1>1. p - n \in Nat /\ \A i \in 1..(p - n) : Both(n + i) \in S
  BY DEF Both
<1> HIDE DEF S
<1>2. Between(n, p) \in [1..(p - n) -> S]
  BY <1>1 DEF Between
<1>3. Between(n, p) \in Seq(S)
  BY <1>1, <1>2, SeqDef
<1>4. Len(Between(n, p)) = p - n
  BY <1>1, <1>2, <1>3, LenProperties
<1>5. QED
  BY <1>3, <1>4 DEF Between, S

LEMMA BetweenGrows ==
    ASSUME NEW n \in Nat, NEW p \in Nat, n <= p
    PROVE  Between(n, p + 1) = Append(Between(n, p), Both(p + 1))
<1> DEFINE S == [head : Nat, tail : Nat]
           old == Between(n, p)
           new == Between(n, p + 1)
<1>1. Both(p + 1) \in S
  BY DEF Both
<1>2. old \in Seq(S) /\ Len(old) = p - n /\ \A i \in 1..(p - n) : old[i] = Both(n + i)
  BY BetweenIsSeq
<1>3. new \in Seq(S) /\ Len(new) = p + 1 - n /\ \A i \in 1..(p + 1 - n) : new[i] = Both(n + i)
  BY BetweenIsSeq
<1> HIDE DEF S, old, new
<1>4. /\ Append(old, Both(p + 1)) \in Seq(S)
      /\ Len(Append(old, Both(p + 1))) = Len(old) + 1
      /\ \A i \in 1..Len(old) : Append(old, Both(p + 1))[i] = old[i]
      /\ Append(old, Both(p + 1))[Len(old) + 1] = Both(p + 1)
  BY <1>1, <1>2, AppendProperties
<1>5. \A i \in 1..Len(new) : new[i] = Append(old, Both(p + 1))[i]
  <2> SUFFICES ASSUME NEW i \in 1..Len(new)
               PROVE  new[i] = Append(old, Both(p + 1))[i]
    OBVIOUS
  <2>1. CASE i = p - n + 1
    <3>1. n + i = p + 1 /\ i = Len(old) + 1
      BY <1>2, <2>1
    <3>2. QED
      BY <1>3, <1>4, <3>1
  <2>2. CASE i # p - n + 1
    <3>1. i \in 1..(p - n)
      BY <1>3, <2>2
    <3>2. QED
      BY <1>2, <1>3, <1>4, <3>1
  <2>3. QED
    BY <2>1, <2>2
<1>6. Len(new) = Len(Append(old, Both(p + 1)))
  BY <1>2, <1>3, <1>4
<1>7. new = Append(old, Both(p + 1))
  BY <1>3, <1>4, <1>5, <1>6, SeqEqual
<1>8. QED
  BY <1>7 DEF old, new

LEMMA BetweenShrinks ==
    ASSUME NEW n \in Nat, NEW p \in Nat, n < p
    PROVE  /\ Between(n, p) # <<>>
           /\ Head(Between(n, p)) = Both(n + 1)
           /\ Tail(Between(n, p)) = Between(n + 1, p)
<1> DEFINE S == [head : Nat, tail : Nat]
           old == Between(n, p)
           new == Between(n + 1, p)
<1>1. old \in Seq(S) /\ Len(old) = p - n /\ \A i \in 1..(p - n) : old[i] = Both(n + i)
  BY BetweenIsSeq
<1>2. /\ new \in Seq(S) /\ Len(new) = p - (n + 1)
      /\ \A i \in 1..(p - (n + 1)) : new[i] = Both((n + 1) + i)
  BY BetweenIsSeq
<1> HIDE DEF S, old, new
<1>3. old # <<>>
  BY <1>1, EmptySeq
<1>4. /\ Tail(old) \in Seq(S) /\ Len(Tail(old)) = Len(old) - 1
      /\ \A i \in 1..Len(Tail(old)) : Tail(old)[i] = old[i + 1]
  BY <1>1, <1>3, HeadTailProperties
<1>5. Head(old) = Both(n + 1)
  BY <1>1
<1>6. \A i \in 1..Len(new) : new[i] = Tail(old)[i]
  <2> SUFFICES ASSUME NEW i \in 1..Len(new)
               PROVE  new[i] = Tail(old)[i]
    OBVIOUS
  <2>1. i \in 1..Len(Tail(old)) /\ i + 1 \in 1..(p - n) /\ n + (i + 1) = (n + 1) + i
    BY <1>1, <1>2, <1>4
  <2>2. QED
    BY <1>1, <1>2, <1>4, <2>1
<1>7. Len(new) = Len(Tail(old))
  BY <1>1, <1>2, <1>4
<1>8. new = Tail(old)
  BY <1>2, <1>4, <1>6, <1>7, SeqEqual
<1>9. QED
  BY <1>3, <1>5, <1>8 DEF old, new

(* What LinkQueue's variables stand for. *)
QueueMap == [l \in OwnLinks |-> Undelivered(l[1], l[2])]
DeliveredMap == [l \in OwnLinks |-> received[l[1]][l[2]]]
RepeatedMap == [l \in OwnLinks |-> repeats[l[1]][l[2]]]
WrittenMap == [b \in OwnBuffers |-> Published(b)]
SpoiledMap == [b \in OwnBuffers |-> overrun[b]]

LEMMA LinksHaveEnds ==
    ASSUME NEW l \in OwnLinks
    PROVE  /\ l \in Links /\ l = <<l[1], l[2]>>
           /\ l[1] \in Schedulers /\ l[2] \in Buffers
           /\ SingleWriter(l[2]) /\ l[2] \in OwnBuffers
BY LinksAssumption DEF OwnLinks, OwnBuffers

LEMMA QueueOfLink ==
    ASSUME BufferTypeOK, BehindInv, LengthInv,
           NEW s \in Schedulers, NEW b \in Buffers, SingleWriter(b)
    PROVE  /\ Len(received[s][b]) \in Nat /\ Published(b) \in Nat /\ advances[s][b] \in Nat
           /\ Len(received[s][b]) <= advances[s][b] /\ advances[s][b] <= Len(received[s][b]) + 1
           /\ Len(received[s][b]) <= Published(b)
           /\ Undelivered(s, b) = Between(Len(received[s][b]), Published(b))
           /\ Len(Undelivered(s, b)) = Published(b) - Len(received[s][b])
<1>1. Len(received[s][b]) \in Nat /\ advances[s][b] \in Nat
  BY ReceivedIsSeq
<1>2. Published(b) \in Nat /\ advances[s][b] <= Published(b)
  BY DEF BehindInv
<1> DEFINE n == Len(received[s][b])
           p == Published(b)
<1>3. Undelivered(s, b) = Between(n, p)
  BY DEF Undelivered, Between
<1>4. advances[s][b] = IF Pending(s, b) THEN n + 1 ELSE n
  <2>1. CASE Pending(s, b)
    BY <2>1 DEF LengthInv
  <2>2. CASE ~Pending(s, b)
    <3>1. advances[s][b] = n + 0
      BY <2>2 DEF LengthInv
    <3>2. QED
      BY <1>1, <2>2, <3>1
  <2>3. QED
    BY <2>1, <2>2
<1> HIDE DEF n, p
<1>5. n <= advances[s][b] /\ advances[s][b] <= n + 1 /\ n <= p
  BY <1>1, <1>2, <1>4 DEF n, p
<1>6. Len(Between(n, p)) = p - n
  BY <1>1, <1>2, <1>5, BetweenIsSeq DEF n, p
<1>7. QED
  BY <1>1, <1>2, <1>3, <1>5, <1>6 DEF n, p

(* What the queues show of a state, and what they do not. *)
LEMMA QueuesStutter ==
    ASSUME \A b \in Buffers : SingleWriter(b) => UNCHANGED <<Published(b), overrun[b]>>,
           \A s \in Schedulers, b \in Buffers :
               SingleWriter(b) => UNCHANGED <<received[s][b], repeats[s][b]>>
    PROVE  UNCHANGED Queues!queueVars
<1>1. \A b \in OwnBuffers : Published(b)' = Published(b) /\ overrun'[b] = overrun[b]
  BY DEF OwnBuffers
<1>2. \A l \in OwnLinks : /\ received'[l[1]][l[2]] = received[l[1]][l[2]]
                          /\ repeats'[l[1]][l[2]] = repeats[l[1]][l[2]]
                          /\ Published(l[2])' = Published(l[2])
  BY <1>1, LinksHaveEnds
<1>3. \A l \in OwnLinks : Undelivered(l[1], l[2])' = Undelivered(l[1], l[2])
  BY <1>2 DEF Undelivered
<1>4. WrittenMap' = WrittenMap /\ SpoiledMap' = SpoiledMap
  BY <1>1 DEF WrittenMap, SpoiledMap, OwnBuffers, SingleWriter
<1>5. DeliveredMap' = DeliveredMap /\ RepeatedMap' = RepeatedMap
  BY <1>2 DEF DeliveredMap, RepeatedMap, OwnLinks, SingleWriter
<1>6. QueueMap' = QueueMap
  BY <1>3 DEF QueueMap, OwnLinks, SingleWriter
<1>7. QED
  BY <1>4, <1>5, <1>6 DEF Queues!queueVars, QueueMap, DeliveredMap, RepeatedMap, WrittenMap,
                          SpoiledMap

(* The store of writerLocation appends the datum to the queues of b.       *)
LEMMA StoreIsPublish ==
    ASSUME DataFlowInv, BehindInv, LinkedInv, LengthInv,
           NEW w \in Writers, StoreWriterLocation(w), SingleWriter(WritesTo[w])
    PROVE  Queues!Publish(WritesTo[w])
<1> USE DEF DataFlowInv, DataFlowTypeOK
<1> DEFINE b == WritesTo[w]
           d == Both(Published(b) + 1)
<1>1. b \in Buffers /\ b \in OwnBuffers
  BY RingBufferAssumption DEF OwnBuffers
<1>2. WriterAction(w) /\ writeAt[w] = "storeNext"
      /\ UNCHANGED <<received, repeats, overrun>>
  BY DEF WriterAction, StoreWriterLocation, WriteGoto, consumerVars
<1>3. Published(b)' = Published(b) + 1
  BY <1>1, <1>2, OnlyStorePublishes
<1>4. \A c \in OwnBuffers : c # b => Published(c)' = Published(c)
  BY <1>2, OtherBufferUnwritten DEF OwnBuffers
<1>5. Published(b) = writes[b] - 1 /\ writes[b] \in Datum /\ Published(b) \in Nat
  BY <1>1, <1>2, LoneWriter DEF Published, BufferTypeOK, BehindInv
<1>6. d \in [head : Datum, tail : Datum]
  <2>1. Published(b) + 1 \in Datum
    BY <1>5 DEF Datum
  <2>2. QED
    BY <2>1 DEF Both
<1>7. overrun[b] \/ \A l \in OwnLinks : l[2] = b => Len(QueueMap[l]) < RING_BUFFER_SIZE
  <2> SUFFICES ASSUME ~overrun[b], NEW l \in OwnLinks, l[2] = b
               PROVE  Len(QueueMap[l]) < RING_BUFFER_SIZE
    OBVIOUS
  <2> DEFINE s == l[1]
             n == Len(received[s][b])
             k == Len(QueueMap[l])
  <2>1. s \in Schedulers /\ l \in Links
    BY LinksHaveEnds
  <2>2. s \in linkedTo[b]
    BY <1>2, <2>1 DEF LinkedInv, ControlInv
  <2>3. writes[b] - advances[s][b] <= RING_BUFFER_SIZE - 1
    BY <1>1, <2>1, <2>2 DEF Orderly, LinkInv
  <2>4. advances[s][b] <= n + 1
    BY <1>1, <2>1, QueueOfLink
  <2>5. k = Published(b) - n
    BY <1>1, <2>1, QueueOfLink DEF QueueMap
  <2>6. advances[s][b] \in Nat /\ n \in Nat /\ RING_BUFFER_SIZE \in Nat
        /\ writes[b] \in Nat
    BY <1>1, <2>1, QueueOfLink, RingBufferAssumption, PublishedIsNat
  <2> HIDE DEF s, b, n, k
  <2>7. k < RING_BUFFER_SIZE
    BY <1>5, <2>3, <2>4, <2>5, <2>6
  <2>8. QED
    BY <2>7 DEF k
<1>8. QueueMap' = [l \in OwnLinks |-> IF l[2] = b THEN Append(QueueMap[l], d) ELSE QueueMap[l]]
  <2>1. ASSUME NEW l \in OwnLinks
        PROVE  Undelivered(l[1], l[2])' =
                   IF l[2] = b THEN Append(Undelivered(l[1], l[2]), d)
                               ELSE Undelivered(l[1], l[2])
    <3> DEFINE n == Len(received[l[1]][l[2]])
    <3>1. l[1] \in Schedulers /\ l[2] \in Buffers /\ l[2] \in OwnBuffers /\ SingleWriter(l[2])
      BY LinksHaveEnds
    <3>2. n \in Nat /\ Published(l[2]) \in Nat /\ n <= Published(l[2])
      BY <3>1, QueueOfLink
    <3>3. /\ Undelivered(l[1], l[2]) = Between(n, Published(l[2]))
          /\ Undelivered(l[1], l[2])' = Between(n, Published(l[2])')
      BY <1>2 DEF Undelivered, Between
    <3> HIDE DEF n
    <3>4. CASE l[2] = b
      BY <1>3, <3>2, <3>3, <3>4, BetweenGrows
    <3>5. CASE l[2] # b
      BY <1>4, <3>1, <3>3, <3>5
    <3>6. QED
      BY <3>4, <3>5
  <2> HIDE DEF d
  <2>2. QED
    BY <2>1 DEF QueueMap, OwnLinks, SingleWriter
<1>9. WrittenMap' = [WrittenMap EXCEPT ![b] = WrittenMap[b] + 1]
  <2>1. \A c \in OwnBuffers : Published(c)' = IF c = b THEN Published(b) + 1 ELSE Published(c)
    BY <1>3, <1>4
  <2>2. WrittenMap' = [c \in OwnBuffers |-> IF c = b THEN Published(b) + 1 ELSE Published(c)]
    BY <2>1 DEF WrittenMap, OwnBuffers, SingleWriter
  <2>3. QED
    BY <1>1, <2>2 DEF WrittenMap
<1>10. UNCHANGED <<DeliveredMap, RepeatedMap, SpoiledMap>>
  BY <1>2 DEF DeliveredMap, RepeatedMap, SpoiledMap, OwnLinks, OwnBuffers, SingleWriter
<1> HIDE DEF b, d
<1>11. SpoiledMap[b] <=> overrun[b]
  BY <1>1 DEF SpoiledMap
<1>12. QED
  BY <1>6, <1>7, <1>8, <1>9, <1>10, <1>11
  DEF Queues!Publish, Queues!HasRoom, QueueMap, DeliveredMap, RepeatedMap, WrittenMap,
      SpoiledMap, b

(* A write that finds a consumer with a full ring spoils what follows.     *)
LEMMA LapIsSpoil ==
    ASSUME DataFlowInv, BehindInv, LengthInv,
           NEW w \in Writers, BeginWrite(w), SingleWriter(WritesTo[w])
    PROVE  Queues!Spoil(WritesTo[w]) \/ UNCHANGED Queues!queueVars
<1> USE DEF DataFlowInv, DataFlowTypeOK
<1> DEFINE b == WritesTo[w]
           far == SomeConsumerTooFarBehind(b, writes[b] + 1)
<1>1. b \in Buffers /\ b \in OwnBuffers
  BY RingBufferAssumption DEF OwnBuffers
<1>2. /\ WriterAction(w) /\ ~StoreWriterLocation(w)
      /\ writeAt[w] = "idle" /\ UNCHANGED <<received, repeats>>
      /\ overrun' = [overrun EXCEPT ![b] = overrun[b] \/ far]
  BY DEF WriterAction, BeginWrite, StoreWriterLocation, WriteGoto, consumerVars
<1>3. \A c \in Buffers : SingleWriter(c) => Published(c)' = Published(c)
  BY <1>2, OnlyStorePublishes
<1>4. Published(b) = writes[b] /\ writes[b] \in Nat
  BY <1>1, <1>2, LoneWriter, PublishedIsNat DEF Published
<1> HIDE DEF far
<1>5. overrun \in [Buffers -> BOOLEAN]
  BY DEF BufferTypeOK
<1>6. CASE far
  <2>1. PICK c \in linkedTo[b] : (writes[b] + 1) - advances[c][b] >= RING_BUFFER_SIZE
    BY <1>6 DEF far, SomeConsumerTooFarBehind
  <2> DEFINE l == <<c, b>>
             k == Len(QueueMap[l])
             n == Len(received[c][b])
  <2>2. c \in Schedulers /\ l \in OwnLinks
    BY <1>1 DEF BufferTypeOK, ControlInv, OwnLinks
  <2>3. k = Published(b) - n
    BY <1>1, <2>2, QueueOfLink DEF QueueMap
  <2>4. n \in Nat /\ advances[c][b] \in Nat /\ n <= advances[c][b] /\ RING_BUFFER_SIZE \in Nat
    BY <1>1, <2>2, QueueOfLink, RingBufferAssumption
  <2>5. \E m \in OwnLinks : m[2] = b /\ Len(QueueMap[m]) >= RING_BUFFER_SIZE - 1
    <3> HIDE DEF b, k, n
    <3>1. k >= RING_BUFFER_SIZE - 1
      BY <1>4, <2>1, <2>3, <2>4
    <3> HIDE DEF l
    <3>2. l \in OwnLinks /\ Len(QueueMap[l]) >= RING_BUFFER_SIZE - 1
      BY <2>2, <3>1 DEF k
    <3>3. l[2] = b
      BY DEF l
    <3>4. QED
      BY <3>2, <3>3
  <2>6. SpoiledMap' = [SpoiledMap EXCEPT ![b] = TRUE]
    <3>1. overrun' = [overrun EXCEPT ![b] = TRUE]
      BY <1>1, <1>2, <1>5, <1>6
    <3>2. SpoiledMap' = [c2 \in OwnBuffers |-> overrun'[c2]]
      BY DEF SpoiledMap, OwnBuffers, SingleWriter
    <3>3. \A c2 \in OwnBuffers : c2 \in Buffers
      BY DEF OwnBuffers
    <3> HIDE DEF b
    <3>4. QED
      BY <1>1, <1>5, <3>1, <3>2, <3>3 DEF SpoiledMap
  <2>7. \A m \in OwnLinks : Undelivered(m[1], m[2])' = Undelivered(m[1], m[2])
    BY <1>2, <1>3, LinksHaveEnds DEF Undelivered
  <2>8. QueueMap' = QueueMap
    BY <2>7 DEF QueueMap, OwnLinks, SingleWriter
  <2>9. DeliveredMap' = DeliveredMap /\ RepeatedMap' = RepeatedMap
    BY <1>2 DEF DeliveredMap, RepeatedMap, OwnLinks, SingleWriter
  <2>10. WrittenMap' = WrittenMap
    BY <1>3 DEF WrittenMap, OwnBuffers, SingleWriter
  <2> HIDE DEF b
  <2>11. Queues!Spoil(b)
    BY <2>5, <2>6, <2>8, <2>9, <2>10
    DEF Queues!Spoil, QueueMap, DeliveredMap, RepeatedMap, WrittenMap, SpoiledMap
  <2>12. QED
    BY <2>11 DEF b
<1>7. CASE ~far
  <2>1. overrun' = overrun
    BY <1>1, <1>2, <1>5, <1>7
  <2>2. QED
    BY <1>2, <1>3, <2>1, QueuesStutter
<1>8. QED
  BY <1>6, <1>7

(* What a thread that finishes its copy leaves of the queues.              *)
LEMMA CopyTailFrame ==
    ASSUME DataFlowInv, NEW t \in Schedulers, Copy(t), CopyTail(t, inputBuffer[t])
    PROVE  /\ ConsumptionStep(t) /\ Consuming(t, inputBuffer[t]) /\ inputBuffer[t] \in Buffers
           /\ <<t, inputBuffer[t]>> \in Links
           /\ \A b \in Buffers : Published(b)' = Published(b)
           /\ overrun' = overrun
           /\ received \in [Schedulers -> [Buffers -> Seq([head : Datum, tail : Datum])]]
           /\ repeats \in [Schedulers -> [Buffers -> Nat]]
           /\ \A q \in Schedulers, c \in Buffers :
                  q # t \/ c # inputBuffer[t] => received'[q][c] = received[q][c]
<1> USE DEF DataFlowInv, DataFlowTypeOK
<1>1. ConsumptionStep(t) /\ ThreadStep(t)
  BY DEF ConsumptionStep, ThreadStep
<1>2. Consuming(t, inputBuffer[t]) /\ inputBuffer[t] \in Buffers
  BY <1>1, ConsumptionFrame
<1>3. <<t, inputBuffer[t]>> \in Links
  BY <1>2 DEF Consuming, ControlInv
<1>4. UNCHANGED <<writes, overrun, writerVars>>
  BY <1>1, ThreadLeavesWriters
<1>5. \A q \in Schedulers, c \in Buffers :
          q # t \/ c # inputBuffer[t] => received'[q][c] = received[q][c]
  BY <1>1, ConsumptionFrame
<1>6. QED
  BY <1>1, <1>2, <1>3, <1>4, <1>5 DEF Published, BeingWritten, writerVars, BufferTypeOK

(* The copy after a move delivers the head of the link's queue.            *)
LEMMA CopyIsDelivery ==
    ASSUME DataFlowInv, DataFlowInv', BehindInv, LengthInv,
           NEW t \in Schedulers, NEW b \in Buffers, b = inputBuffer[t], SingleWriter(b),
           Copy(t), CopyTail(t, b), Pending(t, b)
    PROVE  Queues!Deliver(<<t, b>>)
<1> USE DEF DataFlowInv, DataFlowTypeOK
<1> DEFINE l == <<t, b>>
           n == Len(received[t][b])
           d == [head |-> headCopied[t], tail |-> buffer[b][currentData[t]].tail]
<1>1. l \in OwnLinks /\ l[1] = t /\ l[2] = b
  BY CopyTailFrame DEF OwnLinks
<1>2. /\ received' = [received EXCEPT ![t][b] = Append(received[t][b], d)]
      /\ repeats' = repeats /\ overrun' = overrun
  BY CopyTailFrame DEF CopyTail, Pending
<1>3. d \in [head : Datum, tail : Datum]
  BY DEF BufferTypeOK
<1>4. n \in Nat /\ Published(b) \in Nat /\ n < Published(b)
  <2>1. advances[t][b] = n + 1
    BY DEF LengthInv
  <2>2. n \in Nat
    BY QueueOfLink
  <2>3. Published(b) \in Nat /\ advances[t][b] <= Published(b)
    BY DEF BehindInv
  <2> HIDE DEF n
  <2>4. QED
    BY <2>1, <2>2, <2>3
<1>5. Len(received'[t][b]) = n + 1 /\ received'[t][b][n + 1] = d
  BY CopyTailFrame, CopyTailLength
<1>6. /\ QueueMap[l] = Between(n, Published(b))
      /\ QueueMap[l] # <<>> /\ Head(QueueMap[l]) = Both(n + 1)
      /\ Tail(QueueMap[l]) = Between(n + 1, Published(b))
  <2>1. QueueMap[l] = Between(n, Published(b))
    BY <1>1, QueueOfLink DEF QueueMap
  <2> HIDE DEF n, l
  <2>2. QED
    BY <1>4, <2>1, BetweenShrinks
<1>7. d = Head(QueueMap[l]) \/ SpoiledMap[b]
  <2>1. SpoiledMap[b] = overrun[b]
    BY DEF SpoiledMap, OwnBuffers
  <2>2. SUFFICES ASSUME ~overrun[b] PROVE d = Both(n + 1)
    BY <1>6, <2>1
  <2>3. InOrder' /\ ~overrun'[b]
    BY <1>2, <2>2
  <2>4. n + 1 \in 1..Len(received'[t][b])
    BY <1>4, <1>5
  <2>5. received'[t][b][n + 1] = Both(n + 1)
    BY <2>3, <2>4 DEF InOrder, SingleWriter, Both
  <2>6. QED
    BY <1>5, <2>5
<1>8. QueueMap' = [QueueMap EXCEPT ![l] = Tail(QueueMap[l])]
  <2>1. ASSUME NEW m \in OwnLinks
        PROVE  Undelivered(m[1], m[2])' = IF m = l THEN Tail(QueueMap[l])
                                                   ELSE Undelivered(m[1], m[2])
    <3>1. m = <<m[1], m[2]>> /\ m[1] \in Schedulers /\ m[2] \in Buffers
      BY LinksHaveEnds
    <3>2. Published(m[2])' = Published(m[2])
      BY <3>1, CopyTailFrame
    <3>3. CASE m = l
      <4>1. Undelivered(t, b)' = Between(Len(received'[t][b]), Published(b)')
        BY DEF Undelivered, Between
      <4>2. QED
        BY <1>1, <1>5, <1>6, <3>2, <3>3, <4>1
    <3>4. CASE m # l
      <4>1. m[1] # t \/ m[2] # b
        BY <3>1, <3>4
      <4>2. received'[m[1]][m[2]] = received[m[1]][m[2]]
        BY <3>1, <4>1, CopyTailFrame
      <4>3. QED
        BY <3>2, <3>4, <4>2 DEF Undelivered
    <3>5. QED
      BY <3>3, <3>4
  <2> HIDE DEF l
  <2>2. QueueMap' = [m \in OwnLinks |-> IF m = l THEN Tail(QueueMap[l])
                                                 ELSE Undelivered(m[1], m[2])]
    BY <2>1 DEF QueueMap, OwnLinks, SingleWriter
  <2>3. QED
    BY <2>2 DEF QueueMap
<1>9. DeliveredMap' = [DeliveredMap EXCEPT ![l] = Append(DeliveredMap[l], d)]
  <2>1. ASSUME NEW m \in OwnLinks
        PROVE  received'[m[1]][m[2]] = IF m = l THEN Append(received[t][b], d)
                                                ELSE received[m[1]][m[2]]
    <3>1. m = <<m[1], m[2]>> /\ m[1] \in Schedulers /\ m[2] \in Buffers
      BY LinksHaveEnds
    <3>2. received \in [Schedulers -> [Buffers -> Seq([head : Datum, tail : Datum])]]
      BY CopyTailFrame
    <3> HIDE DEF d
    <3>3. QED
      BY <1>2, <3>1, <3>2
  <2> HIDE DEF l, d
  <2>2. DeliveredMap' = [m \in OwnLinks |-> IF m = l THEN Append(received[t][b], d)
                                                     ELSE received[m[1]][m[2]]]
    BY <2>1 DEF DeliveredMap, OwnLinks, SingleWriter
  <2>3. DeliveredMap[l] = received[t][b]
    BY <1>1 DEF DeliveredMap
  <2>4. QED
    BY <2>2, <2>3 DEF DeliveredMap
<1>10. RepeatedMap' = RepeatedMap /\ WrittenMap' = WrittenMap /\ SpoiledMap' = SpoiledMap
  BY <1>2, CopyTailFrame DEF RepeatedMap, WrittenMap, SpoiledMap, OwnLinks, OwnBuffers,
                             SingleWriter
<1> HIDE DEF l, d
<1>11. Queues!Deliver(l)
  BY <1>1, <1>3, <1>6, <1>7, <1>8, <1>9, <1>10
  DEF Queues!Deliver, QueueMap, DeliveredMap, RepeatedMap, WrittenMap, SpoiledMap
<1>12. QED
  BY <1>11 DEF l

(* The copy without a move is a repetition that some write pays for.       *)
LEMMA CopyIsRepetition ==
    ASSUME DataFlowInv, RepeatsInv,
           NEW t \in Schedulers, NEW b \in Buffers, b = inputBuffer[t], SingleWriter(b),
           Copy(t), CopyTail(t, b), ~Pending(t, b)
    PROVE  Queues!Repeat(<<t, b>>)
<1> USE DEF DataFlowInv, DataFlowTypeOK
<1> DEFINE l == <<t, b>>
<1>1. l \in OwnLinks /\ l[1] = t /\ l[2] = b /\ b \in OwnBuffers
  BY CopyTailFrame DEF OwnLinks, OwnBuffers
<1>2. consumeAt[t] = "copyTail" /\ Consuming(t, b) /\ ~HasAdvanced(t, b)
  BY CopyTailFrame DEF CopyTail, ConsumeGoto, Pending
<1>3. /\ repeats' = [repeats EXCEPT ![t][b] = repeats[t][b] + 1]
      /\ received' = received /\ overrun' = overrun
  BY <1>2, CopyTailFrame DEF CopyTail
<1>4. repeats[t][b] < Published(b)
  <2>1. Repeating(t, b)
    BY <1>2 DEF Repeating
  <2>2. repeats[t][b] + 1 <= Published(b)
    BY <2>1 DEF RepeatsInv, RepeatInv, Repetitions
  <2>3. repeats[t][b] \in Nat /\ Published(b) \in Int
    BY PublishedIsNat DEF BufferTypeOK
  <2>4. QED
    BY <2>2, <2>3
<1>5. RepeatedMap' = [RepeatedMap EXCEPT ![l] = RepeatedMap[l] + 1]
  <2>1. ASSUME NEW m \in OwnLinks
        PROVE  repeats'[m[1]][m[2]] = IF m = l THEN repeats[t][b] + 1 ELSE repeats[m[1]][m[2]]
    <3>1. m = <<m[1], m[2]>> /\ m[1] \in Schedulers /\ m[2] \in Buffers
      BY LinksHaveEnds
    <3>2. repeats \in [Schedulers -> [Buffers -> Nat]]
      BY CopyTailFrame
    <3>3. QED
      BY <1>3, <3>1, <3>2
  <2> HIDE DEF l
  <2>2. RepeatedMap' = [m \in OwnLinks |-> IF m = l THEN repeats[t][b] + 1
                                                    ELSE repeats[m[1]][m[2]]]
    BY <2>1 DEF RepeatedMap, OwnLinks, SingleWriter
  <2>3. RepeatedMap[l] = repeats[t][b]
    BY <1>1 DEF RepeatedMap
  <2>4. QED
    BY <2>2, <2>3 DEF RepeatedMap
<1>6. RepeatedMap[l] < WrittenMap[b]
  BY <1>1, <1>4 DEF RepeatedMap, WrittenMap
<1>7. \A m \in OwnLinks : Undelivered(m[1], m[2])' = Undelivered(m[1], m[2])
  BY <1>3, CopyTailFrame, LinksHaveEnds DEF Undelivered
<1>8. QueueMap' = QueueMap
  BY <1>7 DEF QueueMap, OwnLinks, SingleWriter
<1>9. DeliveredMap' = DeliveredMap /\ WrittenMap' = WrittenMap /\ SpoiledMap' = SpoiledMap
  BY <1>3, CopyTailFrame DEF DeliveredMap, WrittenMap, SpoiledMap, OwnLinks, OwnBuffers,
                             SingleWriter
<1> HIDE DEF l
<1>10. Queues!Repeat(l)
  BY <1>1, <1>5, <1>6, <1>8, <1>9
  DEF Queues!Repeat, QueueMap, DeliveredMap, RepeatedMap, WrittenMap, SpoiledMap
<1>11. QED
  BY <1>10 DEF l

LEMMA QueueStep ==
    ASSUME DataFlowInv, DataFlowInv', BehindInv, RepeatsInv, LinkedInv, LengthInv,
           [Next]_dataFlowVars
    PROVE  [Queues!Next]_Queues!queueVars
<1> USE DEF DataFlowInv, DataFlowTypeOK
<1>1. ASSUME UNCHANGED <<writes, writeAt, overrun, received, repeats>>
      PROVE  UNCHANGED Queues!queueVars
  BY <1>1, QueuesStutter DEF Published, BeingWritten
<1>2. CASE \/ StartWriters
           \/ JoinWriters
           \/ \E t \in Schedulers : Terminate(t) \/ JoinScheduler(t)
           \/ UNCHANGED dataFlowVars
  BY <1>1, <1>2, MainLeavesBuffers DEF bufferVars, ringVars, writerVars, consumerVars
<1>3. ASSUME NEW s \in Schedulers, NEW b \in Buffers, Link(s, b)
      PROVE  UNCHANGED Queues!queueVars
  BY <1>1, <1>3 DEF Link, writerVars, consumerVars
<1>4. ASSUME NEW w \in Writers, StartWrite(w) \/ ContinueWrite(w)
      PROVE  Queues!Next \/ UNCHANGED Queues!queueVars
  <2>1. WriterAction(w) /\ UNCHANGED <<received, repeats>>
    BY <1>4, WritersLeaveThreads DEF ThreadsUnchanged, consumerVars
  <2>2. WritesTo[w] \in Buffers
    BY RingBufferAssumption
  <2>3. CASE ~SingleWriter(WritesTo[w])
    <3>1. \A b \in Buffers : SingleWriter(b) => Published(b)' = Published(b)
                                                /\ overrun'[b] = overrun[b]
      BY <2>1, <2>3, OtherBufferUnwritten
    <3>2. QED
      BY <2>1, <3>1, QueuesStutter
  <2>4. CASE SingleWriter(WritesTo[w]) /\ (StoreWriterLocation(w) \/ BeginWrite(w))
    <3>1. WritesTo[w] \in OwnBuffers
      BY <2>2, <2>4 DEF OwnBuffers
    <3>2. Queues!Publish(WritesTo[w]) \/ Queues!Spoil(WritesTo[w]) \/ UNCHANGED Queues!queueVars
      BY <2>4, StoreIsPublish, LapIsSpoil
    <3>3. QED
      BY <3>1, <3>2 DEF Queues!Next
  <2>5. CASE ~StoreWriterLocation(w) /\ ~BeginWrite(w)
    <3>1. \A b \in Buffers : SingleWriter(b) => Published(b)' = Published(b)
      BY <2>1, <2>5, OnlyStorePublishes
    <3>2. overrun' = overrun
      BY <2>1, <2>5 DEF WriterAction, FinishPad, LoadNextLocation, VisitConsumer,
                        ActivateConsumer, ringVars
    <3>3. QED
      BY <2>1, <3>1, <3>2, QueuesStutter
  <2>6. QED
    BY <2>3, <2>4, <2>5
<1>5. ASSUME NEW t \in Schedulers, ThreadStep(t)
      PROVE  Queues!Next \/ UNCHANGED Queues!queueVars
  <2>1. UNCHANGED <<writes, writeAt, overrun>>
    BY <1>5, ThreadLeavesWriters DEF writerVars
  <2>2. CASE Copy(t) /\ CopyTail(t, inputBuffer[t])
    <3>1. PICK b \in Buffers : b = inputBuffer[t] /\ <<t, b>> \in Links
      BY <2>2, CopyTailFrame
    <3>2. CASE SingleWriter(b)
      <4> DEFINE l == <<t, b>>
      <4>1. l \in OwnLinks
        BY <3>1, <3>2 DEF OwnLinks
      <4>2. CopyTail(t, b)
        BY <2>2, <3>1
      <4>3. Queues!Deliver(l) \/ Queues!Repeat(l)
        <5>1. CASE Pending(t, b)
          BY <2>2, <3>1, <3>2, <4>2, <5>1, CopyIsDelivery
        <5>2. CASE ~Pending(t, b)
          BY <2>2, <3>1, <3>2, <4>2, <5>2, CopyIsRepetition
        <5>3. QED
          BY <5>1, <5>2
      <4> HIDE DEF l
      <4>4. QED
        BY <4>1, <4>3 DEF Queues!Next
    <3>3. CASE ~SingleWriter(b)
      <4>1. \A s \in Schedulers, c \in Buffers : SingleWriter(c) =>
                received'[s][c] = received[s][c] /\ repeats'[s][c] = repeats[s][c]
        <5> SUFFICES ASSUME NEW s \in Schedulers, NEW c \in Buffers, c # b
                     PROVE  received'[s][c] = received[s][c] /\ repeats'[s][c] = repeats[s][c]
          BY <3>3
        <5>1. received'[s][c] = received[s][c]
          BY <2>2, <3>1, CopyTailFrame
        <5>2. repeats' = repeats \/ repeats' = [repeats EXCEPT ![t][b] = repeats[t][b] + 1]
          BY <2>2, <3>1 DEF CopyTail
        <5>3. repeats'[s][c] = repeats[s][c]
          <6>1. repeats \in [Schedulers -> [Buffers -> Nat]]
            BY DEF BufferTypeOK
          <6>2. QED
            BY <5>2, <6>1
        <5>4. QED
          BY <5>1, <5>3
      <4>2. QED
        BY <2>1, <4>1, QueuesStutter DEF Published, BeingWritten
    <3>4. QED
      BY <3>2, <3>3
  <2>3. CASE ~(Copy(t) /\ CopyTail(t, inputBuffer[t]))
    <3>1. UNCHANGED <<received, repeats>>
      BY <1>5, <2>3 DEF ThreadStep, Loop, bufferVars, consumerVars, InBuffer, TakeReference,
                        TestAdvance, AdvanceConsumer, FindMore, TestDeactivate, Deactivate,
                        DeactivateConsumer, Copy, CopyHead
    <3>2. QED
      BY <1>1, <2>1, <3>1
  <2>4. QED
    BY <2>2, <2>3
<1>6. QED
  BY <1>2, <1>3, <1>4, <1>5, NextIsLinkOrNot DEF NextButLink

LEMMA QueuesStart == Init => Queues!Init
<1> SUFFICES ASSUME Init PROVE Queues!Init
  OBVIOUS
<1>1. \A b \in Buffers : Published(b) = 0 /\ overrun[b] = FALSE
  BY DEF Init, BufferInit, Published, BeingWritten
<1>2. \A s \in Schedulers, b \in Buffers : received[s][b] = <<>> /\ repeats[s][b] = 0
  BY DEF Init, BufferInit
<1>3. ASSUME NEW l \in OwnLinks PROVE Undelivered(l[1], l[2]) = <<>>
  <2>1. Len(received[l[1]][l[2]]) = 0 /\ Published(l[2]) = 0
    BY <1>1, <1>2, LinksHaveEnds, EmptySeq
  <2>2. Undelivered(l[1], l[2]) = Between(0, 0)
    BY <2>1 DEF Undelivered, Between
  <2>3. Between(0, 0) \in Seq([head : Nat, tail : Nat]) /\ Len(Between(0, 0)) = 0
    BY BetweenIsSeq
  <2>4. QED
    BY <2>2, <2>3, EmptySeq
<1>4. QueueMap = [l \in OwnLinks |-> <<>>]
  BY <1>3 DEF QueueMap
<1>5. DeliveredMap = [l \in OwnLinks |-> <<>>] /\ RepeatedMap = [l \in OwnLinks |-> 0]
  BY <1>2, LinksHaveEnds DEF DeliveredMap, RepeatedMap
<1>6. WrittenMap = [b \in OwnBuffers |-> 0] /\ SpoiledMap = [b \in OwnBuffers |-> FALSE]
  BY <1>1 DEF WrittenMap, SpoiledMap, OwnBuffers
<1>7. QED
  BY <1>4, <1>5, <1>6
  DEF Queues!Init, QueueMap, DeliveredMap, RepeatedMap, WrittenMap, SpoiledMap

(* Every link of a buffer with one writer is a queue of bounded length:    *)
(* each datum written is appended to it once and its head is delivered,    *)
(* and only a write into a ring without room spoils that.                  *)
THEOREM LinksImplementQueues == Spec => LinksAreQueues
<1>1. Init => Queues!Init
  BY QueuesStart
<1>2. DataFlowInv /\ DataFlowInv' /\ BehindInv /\ RepeatsInv /\ LinkedInv /\ LengthInv
          /\ [Next]_dataFlowVars => [Queues!Next]_Queues!queueVars
  BY QueueStep
<1>3. QED
  BY <1>1, <1>2, DataFlowInvariant, BehindInvariant, RepeatsInvariant, LinkedInvariant,
     LengthInvariant, PTL DEF Spec, LinksAreQueues, Queues!Spec

=============================================================================
