--------------------------- MODULE DataFlowProofs ---------------------------
(***************************************************************************)
(* Ring buffers and schedulers together, for every number of buffers,      *)
(* writers, schedulers and pads: the schedulers behave as they do on their *)
(* own, the buffers' maps agree with the lists of the schedulers, and what *)
(* reaches the sink is in order.                                           *)
(***************************************************************************)
EXTENDS DataFlow, DataProcessingSchedulerProofs, SequenceTheorems

(* The pad k places after p. *)
Ring(p, k) == IF p + k < RING_BUFFER_SIZE THEN p + k ELSE p + k - RING_BUFFER_SIZE

Consuming(s, b) == threadAt[s] \in {"consume", "copy"} /\ inputBuffer[s] = b

(* s has moved its location on b and has still to copy the datum. *)
Pending(s, b) ==
    /\ Consuming(s, b)
    /\ consumeAt[s] \in {"testDeactivate", "deactivate", "copyHead", "copyTail"}
    /\ HasAdvanced(s, b)

Unread(s, b) == Published(b) - advances[s][b]

(* Where the threads are in the code of the buffer agrees with where they  *)
(* are in the code of the scheduler, and the buffers' maps with the lists. *)
ControlInv ==
    /\ \A s \in Schedulers :
        /\ threadAt[s] = "consume" =>
               consumeAt[s] \in {"checkIllegal", "testAdvance", "advance",
                                 "testDeactivate", "deactivate"}
        /\ threadAt[s] = "copy" => consumeAt[s] \in {"copyHead", "copyTail"}
        /\ IF threadAt[s] \in {"consume", "copy"}
             THEN s \in linkedTo[inputBuffer[s]]
             ELSE consumeAt[s] = "checkIllegal"
    /\ \A s \in Schedulers, b \in Buffers : s \in linkedTo[b] => <<s, b>> \in Links
    /\ mainAt = "linking" =>
        /\ \A w \in Writers : writeAt[w] = "idle"
        /\ \A b \in Buffers : writes[b] = 0 /\ writerLocation[b] = 0

(* A lone writer's own variables agree with its buffer. *)
WriterInv ==
    \A w \in Writers :
        LET b == WritesTo[w]
        IN  SingleWriter(b) /\ writeAt[w] \in {"writeTail", "loadNext", "storeNext"} =>
                /\ padWritten[w] = writerLocation[b]
                /\ datum[w] = writes[b]
                /\ writes[b] >= 1
                /\ buffer[b][writerLocation[b]].head = writes[b]
                /\ writeAt[w] # "writeTail" =>
                       buffer[b][writerLocation[b]].tail = writes[b]
                /\ writeAt[w] = "storeNext" => nextLocation[w] = NextPad(writerLocation[b])

(* The unread data lie between the consumer's location and the writer's,   *)
(* in order, and the reference taken before the last advance still         *)
(* designates the datum that advance moved over.                           *)
LinkInv(s, b) ==
    LET a == advances[s][b]
        at == consumerLocations[b][s]
    IN  /\ Unread(s, b) \in 0..(RING_BUFFER_SIZE - 1)
        /\ writes[b] - a <= RING_BUFFER_SIZE - 1
        /\ writerLocation[b] = Ring(at, Unread(s, b))
        /\ \A k \in 0..(Unread(s, b) - 1) : buffer[b][Ring(at, k)] = Both(a + k + 1)
        /\ Len(received[s][b]) = IF Pending(s, b) THEN a - 1 ELSE a
        /\ Consuming(s, b) /\ consumeAt[s] \in {"testAdvance", "advance"} =>
               currentData[s] = at
        /\ Consuming(s, b) /\ consumeAt[s] = "advance" => Unread(s, b) >= 1
        /\ Pending(s, b) =>
               /\ a >= 1
               /\ at = NextPad(currentData[s])
               /\ buffer[b][currentData[s]] = Both(a)
               /\ consumeAt[s] = "copyTail" => headCopied[s] = a

Orderly ==
    \A s \in Schedulers, b \in Buffers :
        /\ s \in linkedTo[b] /\ SingleWriter(b) /\ ~overrun[b] => LinkInv(s, b)
        /\ s \notin linkedTo[b] => /\ advances[s][b] = 0
                                   /\ consumerLocations[b][s] = 0
                                   /\ received[s][b] = <<>>

DataFlowInv ==
    /\ DataFlowTypeOK
    /\ SchedulerInv
    /\ MapsAgreeWithLists
    /\ ControlInv
    /\ WriterInv
    /\ Orderly
    /\ InOrder

-----------------------------------------------------------------------------
(* The buffers use the schedulers as DataProcessingScheduler expects: each *)
(* step of the whole is a step of the schedulers' specification, or leaves *)
(* the schedulers alone.                                                   *)

NextButLink ==
    \/ StartWriters
    \/ JoinWriters
    \/ \E s \in Schedulers : Terminate(s) \/ JoinScheduler(s)
    \/ \E w \in Writers : StartWrite(w) \/ ContinueWrite(w)
    \/ \E s \in Schedulers : ThreadStep(s)

LEMMA StepIsSchedulerStep ==
    ASSUME NextButLink
    PROVE  [OtherSchedulerStep]_schedulerVars
<1>1. CASE StartWriters \/ JoinWriters
  BY <1>1 DEF StartWriters, JoinWriters
<1>2. ASSUME NEW s \in Schedulers, Terminate(s) \/ JoinScheduler(s)
      PROVE  OtherSchedulerStep
  BY <1>2 DEF Terminate, JoinScheduler, OtherSchedulerStep
<1>3. ASSUME NEW w \in Writers, StartWrite(w)
      PROVE  UNCHANGED schedulerVars
  BY <1>3 DEF StartWrite
<1>4. ASSUME NEW w \in Writers, ContinueWrite(w)
      PROVE  [OtherSchedulerStep]_schedulerVars
  <2>1. ASSUME NEW s \in Schedulers, Activate(w, s)
        PROVE  OtherSchedulerStep
    <3>1. WritesTo[w] \in Buffers
      BY RingBufferAssumption
    <3>2. ActivatedByWriter(s)
      BY <2>1, <3>1 DEF Activate, ActivatedByWriter
    <3>3. QED
      BY <3>2 DEF OtherSchedulerStep
  <2>2. QED
    BY <1>4, <2>1 DEF ContinueWrite
<1>5. ASSUME NEW s \in Schedulers, ThreadStep(s)
      PROVE  [OtherSchedulerStep]_schedulerVars
  <2>1. CASE Loop(s)
    BY <2>1 DEF Loop, OtherSchedulerStep
  <2>2. CASE InBuffer(s)
    BY <2>2 DEF InBuffer
  <2>3. CASE FindMore(s)
    <3>1. CASE IsAtWriterLocation(s, inputBuffer[s])
      BY <2>3, <3>1 DEF FindMore, schedulerVars
    <3>2. CASE ~IsAtWriterLocation(s, inputBuffer[s])
      <4>1. ConsumeNextData(s)
        BY <2>3, <3>2 DEF FindMore, ConsumeNextData, statusVars
      <4>2. QED
        BY <4>1 DEF OtherSchedulerStep
    <3>3. QED
      BY <3>1, <3>2
  <2>4. CASE Deactivate(s)
    <3>1. ConsumeNextData(s)
      BY <2>4 DEF Deactivate, ConsumeNextData
    <3>2. QED
      BY <3>1 DEF OtherSchedulerStep
  <2>5. CASE Copy(s)
    BY <2>5 DEF Copy, OtherSchedulerStep
  <2>6. QED
    BY <1>5, <2>1, <2>2, <2>3, <2>4, <2>5 DEF ThreadStep
<1>6. QED
  BY <1>1, <1>2, <1>3, <1>4, <1>5 DEF NextButLink

LEMMA LinkIsLinkWith ==
    ASSUME NEW s \in Schedulers, NEW b \in Buffers, Link(s, b)
    PROVE  LinkWith(s, b)
BY DEF Link

LEMMA NextIsLinkOrNot ==
    Next <=> NextButLink \/ \E s \in Schedulers, b \in Buffers : Link(s, b)
BY DEF Next, NextButLink

(* Every behaviour of the whole is one of the schedulers' specification,   *)
(* so what is proved of it holds here.                                     *)
THEOREM DataFlowUsesSchedulers == Spec => SchedulerSpec
<1>1. Init => SchedulerInit
  BY DEF Init
<1>2. [Next]_dataFlowVars => [SchedulerNext]_schedulerVars
  <2>1. UNCHANGED dataFlowVars => UNCHANGED schedulerVars
    BY DEF dataFlowVars
  <2>2. OtherSchedulerStep => SchedulerNext
    BY DEF OtherSchedulerStep, SchedulerNext
  <2>3. \A s \in Schedulers, b \in Buffers : LinkWith(s, b) => SchedulerNext
    BY DEF SchedulerNext
  <2>4. QED
    BY <2>1, <2>2, <2>3, StepIsSchedulerStep, LinkIsLinkWith, NextIsLinkOrNot
<1>3. QED
  BY <1>1, <1>2, PTL DEF Spec, SchedulerSpec

THEOREM DataFlowKeepsSchedulerInv == Spec => []SchedulerInv
BY DataFlowUsesSchedulers, SchedulerInvariant, PTL

-----------------------------------------------------------------------------
(* Typing. *)

LEMMA NextPadIsPad == \A p \in Pad : NextPad(p) \in Pad
BY RingBufferAssumption DEF Pad, NextPad

LEMMA TypingOfInit == Init => DataFlowTypeOK
<1> SUFFICES ASSUME Init PROVE DataFlowTypeOK
  OBVIOUS
<1>1. 0 \in Pad /\ 0 \in Datum
  BY RingBufferAssumption DEF Pad, Datum
<1>2. BufferTypeOK
  BY <1>1 DEF Init, BufferInit, BufferTypeOK, WriteLocations, ConsumeLocations
<1>3. SchedulerTypeOK
  BY SchedulerInitInv DEF Init, SchedulerInv
<1>4. QED
  BY <1>2, <1>3 DEF Init, DataFlowTypeOK

LEMMA TypingOfWriters ==
    ASSUME BufferTypeOK, NEW w \in Writers,
           \/ BeginWrite(w) \/ FinishPad(w) \/ LoadNextLocation(w) \/ StoreWriterLocation(w)
           \/ \E s \in Schedulers : VisitConsumer(w, s) \/ ActivateConsumer(w, s)
    PROVE  BufferTypeOK'
<1> USE DEF BufferTypeOK, WriteGoto, WriteLocations, consumerVars, ringVars
<1> DEFINE b == WritesTo[w]
<1>1. b \in Buffers /\ MaxWrites \in Nat
  BY RingBufferAssumption
<1>2. CASE BeginWrite(w)
  <2> DEFINE p == writerLocation[b]
             n == writes[b] + 1
  <2>1. n \in Datum /\ p \in Pad
    BY <1>1, <1>2 DEF BeginWrite, Datum
  <2>2. /\ writes' = [writes EXCEPT ![b] = n]
        /\ datum' = [datum EXCEPT ![w] = n]
        /\ padWritten' = [padWritten EXCEPT ![w] = p]
        /\ buffer' = [buffer EXCEPT ![b][p] = [head |-> n, tail |-> buffer[b][p].tail]]
        /\ overrun' \in [Buffers -> BOOLEAN]
        /\ writeAt' = [writeAt EXCEPT ![w] = "writeTail"]
        /\ UNCHANGED <<writerLocation, linkedTo, consumerLocations, nextLocation, toNotify,
                       activating, consumerVars>>
    BY <1>1, <1>2 DEF BeginWrite
  <2> HIDE DEF p, n
  <2>3. buffer' \in [Buffers -> [Pad -> [head : Datum, tail : Datum]]]
    BY <1>1, <2>1, <2>2
  <2>4. QED
    BY <1>1, <2>1, <2>2, <2>3
<1>3. CASE FinishPad(w)
  <2>1. buffer' \in [Buffers -> [Pad -> [head : Datum, tail : Datum]]]
    BY <1>1, <1>3 DEF FinishPad
  <2>2. QED
    BY <1>3, <2>1 DEF FinishPad
<1>4. CASE LoadNextLocation(w)
  <2>1. NextPad(writerLocation[b]) \in Pad
    BY <1>1, NextPadIsPad
  <2>2. QED
    BY <1>4, <2>1 DEF LoadNextLocation
<1>5. CASE StoreWriterLocation(w)
  BY <1>1, <1>5 DEF StoreWriterLocation
<1>6. ASSUME NEW s \in Schedulers, VisitConsumer(w, s)
      PROVE  BufferTypeOK'
  <2>1. NextTurn(w, s) \in WriteLocations
    BY DEF NextTurn
  <2>2. /\ \/ writeAt' = [writeAt EXCEPT ![w] = NextTurn(w, s)]
           \/ writeAt' = [writeAt EXCEPT ![w] = "activate"]
        /\ \/ toNotify' = [toNotify EXCEPT ![w] = toNotify[w] \ {s}]
           \/ toNotify' = toNotify
        /\ \/ activating' = activating
           \/ activating' = [activating EXCEPT ![w] = {s}]
        /\ UNCHANGED <<ringVars, datum, padWritten, nextLocation, consumerVars>>
    BY <1>6 DEF VisitConsumer, Visited
  <2>3. writeAt' \in [Writers -> WriteLocations]
    BY <2>1, <2>2
  <2>4. toNotify' \in [Writers -> SUBSET Schedulers]
    <3>1. toNotify[w] \ {s} \in SUBSET Schedulers
      OBVIOUS
    <3>2. CASE toNotify' = [toNotify EXCEPT ![w] = toNotify[w] \ {s}]
      BY <3>1, <3>2
    <3>3. QED
      BY <2>2, <3>2
  <2>5. activating' \in [Writers -> SUBSET Schedulers]
    <3>1. {s} \in SUBSET Schedulers
      OBVIOUS
    <3>2. CASE activating' = [activating EXCEPT ![w] = {s}]
      BY <3>1, <3>2
    <3>3. QED
      BY <2>2, <3>2
  <2>6. QED
    BY <2>2, <2>3, <2>4, <2>5
<1>7. ASSUME NEW s \in Schedulers, ActivateConsumer(w, s)
      PROVE  BufferTypeOK'
  BY <1>7 DEF ActivateConsumer, Visited, NextTurn
<1>8. QED
  BY <1>2, <1>3, <1>4, <1>5, <1>6, <1>7

LEMMA TypingOfConsumers ==
    ASSUME BufferTypeOK, NEW s \in Schedulers, NEW b \in Buffers,
           \/ TakeReference(s, b) \/ TestAdvance(s, b) \/ AdvanceConsumer(s, b)
           \/ TestDeactivate(s, b) \/ DeactivateConsumer(s) \/ CopyHead(s, b) \/ CopyTail(s, b)
    PROVE  BufferTypeOK'
<1> USE DEF BufferTypeOK, ConsumeGoto, ConsumeLocations, writerVars, ringVars
<1>1. CASE TakeReference(s, b)
  <2>1. 0 \in Pad
    BY RingBufferAssumption DEF Pad
  <2>2. /\ linkedTo' \in [Buffers -> SUBSET Schedulers]
        /\ consumerLocations' \in [Buffers -> [Schedulers -> Pad]]
    BY <1>1, <2>1 DEF TakeReference, AddLinkIfNoneExists
  <2>3. consumerLocations'[b][s] \in Pad
    BY <2>2
  <2>4. currentData' \in [Schedulers -> Pad]
    BY <1>1, <2>3 DEF TakeReference
  <2>5. QED
    BY <1>1, <2>2, <2>4 DEF TakeReference
<1>2. CASE TestAdvance(s, b)
  BY <1>2 DEF TestAdvance
<1>3. CASE AdvanceConsumer(s, b)
  <2>1. NextPad(consumerLocations[b][s]) \in Pad /\ advances[s][b] + 1 \in Nat
    BY NextPadIsPad
  <2>2. /\ consumerLocations' \in [Buffers -> [Schedulers -> Pad]]
        /\ advances' \in [Schedulers -> [Buffers -> Nat]]
    BY <1>3, <2>1 DEF AdvanceConsumer
  <2>3. QED
    BY <1>3, <2>2 DEF AdvanceConsumer
<1>4. CASE TestDeactivate(s, b)
  BY <1>4 DEF TestDeactivate
<1>5. CASE DeactivateConsumer(s)
  BY <1>5 DEF DeactivateConsumer
<1>6. CASE CopyHead(s, b)
  <2>1. buffer[b][currentData[s]].head \in Datum
    OBVIOUS
  <2>2. QED
    BY <1>6, <2>1 DEF CopyHead
<1>7. CASE CopyTail(s, b)
  <2> DEFINE data == [head |-> headCopied[s], tail |-> buffer[b][currentData[s]].tail]
             D == [head : Datum, tail : Datum]
  <2>1. data \in D
    OBVIOUS
  <2>2. received[s][b] \in Seq(D)
    OBVIOUS
  <2> HIDE DEF data, D
  <2>3. Append(received[s][b], data) \in Seq(D)
    BY <2>1, <2>2
  <2>4. \/ received' = [received EXCEPT ![s][b] = Append(received[s][b], data)] /\ repeats' = repeats
        \/ repeats' = [repeats EXCEPT ![s][b] = repeats[s][b] + 1] /\ received' = received
    BY <1>7 DEF CopyTail, data
  <2>5. received \in [Schedulers -> [Buffers -> Seq(D)]] /\ repeats \in [Schedulers -> [Buffers -> Nat]]
    BY DEF D
  <2>6. received' \in [Schedulers -> [Buffers -> Seq(D)]]
    <3>1. CASE received' = [received EXCEPT ![s][b] = Append(received[s][b], data)]
      BY <2>3, <2>5, <3>1
    <3>2. QED
      BY <2>4, <2>5, <3>1
  <2>7. repeats' \in [Schedulers -> [Buffers -> Nat]]
    <3>1. CASE repeats' = [repeats EXCEPT ![s][b] = repeats[s][b] + 1]
      <4>1. repeats[s][b] + 1 \in Nat
        BY <2>5
      <4>2. QED
        BY <2>5, <3>1, <4>1
    <3>2. QED
      BY <2>4, <2>5, <3>1
  <2>8. /\ consumeAt' \in [Schedulers -> ConsumeLocations]
        /\ UNCHANGED <<ringVars, writerVars, currentData, headCopied, advances>>
    BY <1>7 DEF CopyTail
  <2>9. QED
    BY <2>6, <2>7, <2>8 DEF D
<1>8. QED
  BY <1>1, <1>2, <1>3, <1>4, <1>5, <1>6, <1>7

-----------------------------------------------------------------------------
(* Control: where the threads are, and what is linked.                     *)

(* linkedTo changes only by Link: a consumption finds its link.            *)
LEMMA ConsumptionKeepsMap ==
    ASSUME BufferTypeOK, NEW s \in Schedulers, NEW b \in Buffers, TakeReference(s, b),
           s \in linkedTo[b]
    PROVE  UNCHANGED <<linkedTo, consumerLocations>>
<1>1. linkedTo[b] \cup {s} = linkedTo[b]
  OBVIOUS
<1>2. /\ linkedTo' = [linkedTo EXCEPT ![b] = linkedTo[b]]
      /\ consumerLocations' = [consumerLocations EXCEPT ![b][s] = consumerLocations[b][s]]
  BY <1>1 DEF TakeReference, AddLinkIfNoneExists
<1>3. /\ linkedTo \in [Buffers -> SUBSET Schedulers]
      /\ consumerLocations \in [Buffers -> [Schedulers -> Pad]]
  BY DEF BufferTypeOK
<1>4. linkedTo' = linkedTo
  BY <1>2, <1>3
<1>5. consumerLocations' = consumerLocations
  BY <1>2, <1>3
<1>6. QED
  BY <1>4, <1>5

LEMMA ConsumedBuffer ==
    ASSUME SchedulerInv, ControlInv, NEW s \in Schedulers, threadAt[s] \in {"consume", "copy"}
    PROVE  inputBuffer[s] \in Buffers /\ s \in linkedTo[inputBuffer[s]]
BY DEF SchedulerInv, ConsumedBufferIsReady, ControlInv

(* The variables of the buffers' maps change only when a link is made.     *)
LEMMA MapsChangeOnlyByLink ==
    ASSUME DataFlowTypeOK, SchedulerInv, ControlInv, NextButLink
    PROVE  linkedTo' = linkedTo
<1> USE DEF DataFlowTypeOK, bufferVars, ringVars
<1>1. CASE StartWriters \/ JoinWriters
  BY <1>1 DEF StartWriters, JoinWriters
<1>2. ASSUME NEW s \in Schedulers, Terminate(s) \/ JoinScheduler(s)
      PROVE  linkedTo' = linkedTo
  BY <1>2 DEF Terminate, JoinScheduler
<1>3. ASSUME NEW w \in Writers, StartWrite(w) \/ ContinueWrite(w)
      PROVE  linkedTo' = linkedTo
  BY <1>3 DEF StartWrite, BeginWrite, ContinueWrite, FinishPad, LoadNextLocation,
              StoreWriterLocation, VisitConsumer, Activate, ActivateConsumer
<1>4. ASSUME NEW s \in Schedulers, ThreadStep(s)
      PROVE  linkedTo' = linkedTo
  <2>1. CASE Loop(s)
    BY <2>1 DEF Loop
  <2>2. CASE InBuffer(s)
    <3>1. inputBuffer[s] \in Buffers /\ s \in linkedTo[inputBuffer[s]]
      BY <2>2, ConsumedBuffer DEF InBuffer
    <3>2. QED
      BY <2>2, <3>1, ConsumptionKeepsMap DEF InBuffer, TestAdvance, AdvanceConsumer
  <2>3. CASE FindMore(s) \/ Deactivate(s) \/ Copy(s)
    BY <2>3 DEF FindMore, TestDeactivate, Deactivate, DeactivateConsumer, Copy, CopyHead, CopyTail
  <2>4. QED
    BY <1>4, <2>1, <2>2, <2>3 DEF ThreadStep
<1>5. QED
  BY <1>1, <1>2, <1>3, <1>4 DEF NextButLink

LEMMA MapsAgreeStep ==
    ASSUME DataFlowTypeOK, SchedulerInv, MapsAgreeWithLists, ControlInv, [Next]_dataFlowVars
    PROVE  MapsAgreeWithLists'
<1>1. CASE NextButLink
  <2>1. linkedTo' = linkedTo
    BY <1>1, MapsChangeOnlyByLink
  <2>2. \A s \in Schedulers, b \in Buffers : IsLinked(s, b)' <=> IsLinked(s, b)
    BY <1>1, StepIsSchedulerStep, OtherStepsKeepLinks
  <2>3. QED
    BY <2>1, <2>2 DEF MapsAgreeWithLists
<1>2. ASSUME NEW s \in Schedulers, NEW b \in Buffers, Link(s, b)
      PROVE  MapsAgreeWithLists'
  <2>1. \A t \in Schedulers, c \in Buffers :
           IsLinked(t, c)' <=> IsLinked(t, c) \/ (t = s /\ c = b)
    BY <1>2, LinkIsLinkWith, LinkWithLinks
  <2>2. linkedTo' = [linkedTo EXCEPT ![b] = linkedTo[b] \cup {s}]
    BY <1>2 DEF Link, AddLinkIfNoneExists
  <2>3. \A t \in Schedulers, c \in Buffers :
           t \in linkedTo'[c] <=> t \in linkedTo[c] \/ (t = s /\ c = b)
    BY <2>2 DEF DataFlowTypeOK, BufferTypeOK
  <2>4. QED
    BY <2>1, <2>3 DEF MapsAgreeWithLists
<1>3. CASE UNCHANGED dataFlowVars
  BY <1>3 DEF dataFlowVars, bufferVars, ringVars, schedulerVars, MapsAgreeWithLists, IsLinked
<1>4. QED
  BY <1>1, <1>2, <1>3, NextIsLinkOrNot

LEMMA TypingStep ==
    ASSUME DataFlowTypeOK, SchedulerInv, SchedulerInv', ControlInv, [Next]_dataFlowVars
    PROVE  DataFlowTypeOK'
<1> USE DEF DataFlowTypeOK
<1>1. SchedulerTypeOK'
  BY DEF SchedulerInv
<1>2. CASE UNCHANGED dataFlowVars
  BY <1>1, <1>2 DEF dataFlowVars, bufferVars, ringVars, writerVars, consumerVars, BufferTypeOK
<1>3. ASSUME NEW s \in Schedulers, NEW b \in Buffers, Link(s, b)
      PROVE  DataFlowTypeOK'
  <2>1. 0 \in Pad
    BY RingBufferAssumption DEF Pad
  <2>2. /\ linkedTo' \in [Buffers -> SUBSET Schedulers]
        /\ consumerLocations' \in [Buffers -> [Schedulers -> Pad]]
    BY <1>3, <2>1 DEF Link, AddLinkIfNoneExists, BufferTypeOK
  <2>3. QED
    BY <1>1, <1>3, <2>2 DEF Link, BufferTypeOK, writerVars, consumerVars
<1>4. CASE StartWriters \/ JoinWriters
  BY <1>1, <1>4 DEF StartWriters, JoinWriters, bufferVars, ringVars, writerVars, consumerVars,
                    BufferTypeOK
<1>5. ASSUME NEW s \in Schedulers, Terminate(s) \/ JoinScheduler(s)
      PROVE  DataFlowTypeOK'
  BY <1>1, <1>5 DEF Terminate, JoinScheduler, bufferVars, ringVars, writerVars, consumerVars,
                    BufferTypeOK
<1>6. ASSUME NEW w \in Writers, StartWrite(w) \/ ContinueWrite(w)
      PROVE  DataFlowTypeOK'
  <2>1. BufferTypeOK'
    BY <1>6, TypingOfWriters DEF StartWrite, ContinueWrite, Activate
  <2>2. mainAt' = mainAt /\ missed' \subseteq missed
    BY <1>6 DEF StartWrite, ContinueWrite, Activate
  <2>3. QED
    BY <1>1, <2>1, <2>2
<1>7. ASSUME NEW s \in Schedulers, ThreadStep(s)
      PROVE  DataFlowTypeOK'
  <2> DEFINE b == inputBuffer[s]
  <2>1. CASE Loop(s)
    BY <1>1, <2>1 DEF Loop, bufferVars, ringVars, writerVars, consumerVars, BufferTypeOK
  <2>2. CASE ~Loop(s)
    <3>1. threadAt[s] \in {"consume", "copy"}
      BY <1>7, <2>2 DEF ThreadStep, InBuffer, FindMore, Deactivate, Copy, CopyHead, CopyTail,
                        FinishConsumption, Goto, ConsumeGoto, ControlInv
    <3>2. b \in Buffers /\ s \in linkedTo[b] /\ <<s, b>> \in Links
      BY <3>1, ConsumedBuffer DEF ControlInv
    <3>3. BufferTypeOK'
      BY <1>7, <2>2, <3>2, TypingOfConsumers
      DEF ThreadStep, InBuffer, FindMore, Deactivate, Copy
    <3>4. mainAt' = mainAt /\ missed' \subseteq missed \cup {<<s, b>>}
      BY <1>7, <2>2 DEF ThreadStep, InBuffer, FindMore, Deactivate, Copy
    <3>5. QED
      BY <1>1, <3>2, <3>3, <3>4
  <2>3. QED
    BY <2>1, <2>2
<1>8. QED
  BY <1>2, <1>3, <1>4, <1>5, <1>6, <1>7, NextIsLinkOrNot DEF NextButLink

LEMMA ControlStep ==
    ASSUME DataFlowTypeOK, SchedulerInv, SchedulerInv', MapsAgreeWithLists, ControlInv,
           [Next]_dataFlowVars
    PROVE  ControlInv'
<1> USE DEF DataFlowTypeOK, SchedulerTypeOK, BufferTypeOK
<1>1. CASE UNCHANGED dataFlowVars
  BY <1>1 DEF dataFlowVars, bufferVars, ringVars, writerVars, consumerVars, schedulerVars, ControlInv
<1>2. ASSUME NEW s \in Schedulers, NEW b \in Buffers, Link(s, b)
      PROVE  ControlInv'
  <2>1. linkedTo' = [linkedTo EXCEPT ![b] = linkedTo[b] \cup {s}]
    BY <1>2 DEF Link, AddLinkIfNoneExists
  <2>2. /\ UNCHANGED <<threadAt, inputBuffer, consumeAt, writeAt, writes, writerLocation, mainAt>>
        /\ <<s, b>> \in Links
    BY <1>2 DEF Link, LinkWith, writerVars, consumerVars
  <2>3. \A t \in Schedulers, c \in Buffers :
           /\ t \in linkedTo[c] => t \in linkedTo'[c]
           /\ t \in linkedTo'[c] => t \in linkedTo[c] \/ (t = s /\ c = b)
    BY <2>1
  <2>4. \A t \in Schedulers : threadAt[t] \in {"consume", "copy"} => inputBuffer[t] \in Buffers
    BY ConsumedBuffer
  <2>5. QED
    BY <2>2, <2>3, <2>4 DEF ControlInv
<1>3. CASE StartWriters \/ JoinWriters
  BY <1>3 DEF StartWriters, JoinWriters, bufferVars, ringVars, consumerVars, schedulerVars, ControlInv
<1>4. ASSUME NEW s \in Schedulers, Terminate(s) \/ JoinScheduler(s)
      PROVE  ControlInv'
  BY <1>4 DEF Terminate, OrderTermination, JoinScheduler, Join, bufferVars, ringVars, writerVars,
              consumerVars, ControlInv
<1>5. ASSUME NEW w \in Writers, StartWrite(w) \/ ContinueWrite(w)
      PROVE  ControlInv'
  <2>1. /\ UNCHANGED <<threadAt, inputBuffer, linkedTo, mainAt, consumeAt>>
        /\ mainAt # "linking"
    BY <1>5 DEF StartWrite, BeginWrite, ContinueWrite, FinishPad, LoadNextLocation,
                StoreWriterLocation, VisitConsumer, Activate, ActivateConsumer, schedulerVars,
                consumerVars, ringVars, WriteGoto, ControlInv
  <2>2. QED
    BY <2>1 DEF ControlInv
<1>6. ASSUME NEW s \in Schedulers, ThreadStep(s)
      PROVE  ControlInv'
  <2>1. NextButLink
    BY <1>6 DEF NextButLink
  <2>2. linkedTo' = linkedTo
    BY <2>1, MapsChangeOnlyByLink
  <2>3. UNCHANGED <<mainAt, writeAt, writes, writerLocation>>
    BY <1>6 DEF ThreadStep, Loop, InBuffer, TakeReference, TestAdvance, AdvanceConsumer, FindMore,
                TestDeactivate, Deactivate, DeactivateConsumer, Copy, CopyHead, CopyTail, bufferVars,
                ringVars, writerVars
  <2>4. ASSUME NEW t \in Schedulers, t # s
        PROVE  threadAt'[t] = threadAt[t] /\ consumeAt'[t] = consumeAt[t]
               /\ inputBuffer'[t] = inputBuffer[t]
    BY <1>6, <2>4
    DEF ThreadStep, Loop, LoopStep, ReadIsEmpty, ReadTerminateOrder, EnterLoopBody,
        ReadNextPointerToConsume, InBuffer, TakeReference, TestAdvance, AdvanceConsumer, FindMore,
        TestDeactivate, Deactivate, DeactivateConsumer, Copy, CopyHead, CopyTail, FinishConsumption,
        bufferVars, consumerVars, schedulerVars, Goto, ConsumeGoto
  <2> DEFINE Thread(at, b, c) ==
        /\ at = "consume" => c \in {"checkIllegal", "testAdvance", "advance",
                                    "testDeactivate", "deactivate"}
        /\ at = "copy" => c \in {"copyHead", "copyTail"}
        /\ IF at \in {"consume", "copy"} THEN s \in linkedTo[b] ELSE c = "checkIllegal"
  <2>5. Thread(threadAt[s], inputBuffer[s], consumeAt[s])
    BY DEF ControlInv
  <2>6. Thread(threadAt'[s], inputBuffer'[s], consumeAt'[s])
    <3>1. CASE ReadNextPointerToConsume(s) /\ UNCHANGED bufferVars
      <4>1. threadAt[s] = "readNext" /\ consumeAt[s] = "checkIllegal" /\ consumeAt' = consumeAt
            /\ threadAt'[s] \in {"threw", "consume"}
        BY <2>5, <3>1 DEF ReadNextPointerToConsume, Goto, bufferVars, consumerVars
      <4>2. threadAt'[s] = "consume" => s \in linkedTo[inputBuffer'[s]]
        <5>1. SUFFICES ASSUME threadAt'[s] = "consume" PROVE s \in linkedTo[inputBuffer'[s]]
          OBVIOUS
        <5>2. PICK c \in Buffers : inputBuffer'[s] = c /\ IsLinked(s, c)'
          BY <5>1 DEF SchedulerInv, ConsumedBufferIsReady, IsLinked
        <5>3. OtherSchedulerStep
          BY <3>1 DEF OtherSchedulerStep, LoopStep
        <5>4. IsLinked(s, c)
          BY <5>2, <5>3, OtherStepsKeepLinks
        <5>5. QED
          BY <5>2, <5>4 DEF MapsAgreeWithLists
      <4>3. QED
        BY <4>1, <4>2
    <3>2. CASE (ReadIsEmpty(s) \/ ReadTerminateOrder(s) \/ EnterLoopBody(s)) /\ UNCHANGED bufferVars
      BY <2>5, <3>2 DEF ReadIsEmpty, ReadTerminateOrder, EnterLoopBody, Goto, bufferVars, consumerVars
    <3>3. CASE InBuffer(s)
      BY <2>5, <3>3 DEF InBuffer, TakeReference, TestAdvance, AdvanceConsumer, ConsumeGoto, schedulerVars
    <3>4. CASE FindMore(s)
      BY <2>5, <3>4 DEF FindMore, TestDeactivate, ConsumeGoto, Goto
    <3>5. CASE Deactivate(s)
      BY <2>5, <3>5 DEF Deactivate, DeactivateConsumer, ConsumeGoto, Goto
    <3>6. CASE CopyHead(s, inputBuffer[s]) /\ UNCHANGED schedulerVars
      BY <2>5, <3>6 DEF CopyHead, ConsumeGoto, schedulerVars
    <3>7. CASE CopyTail(s, inputBuffer[s]) /\ FinishConsumption(s)
      BY <2>5, <3>7 DEF CopyTail, FinishConsumption, ConsumeGoto, Goto
    <3>8. QED
      BY <1>6, <3>1, <3>2, <3>3, <3>4, <3>5, <3>6, <3>7 DEF ThreadStep, Loop, LoopStep, Copy
  <2>7. \A t \in Schedulers :
           /\ threadAt'[t] = "consume" => consumeAt'[t] \in {"checkIllegal", "testAdvance",
                                              "advance", "testDeactivate", "deactivate"}
           /\ threadAt'[t] = "copy" => consumeAt'[t] \in {"copyHead", "copyTail"}
           /\ IF threadAt'[t] \in {"consume", "copy"}
                THEN t \in linkedTo[inputBuffer'[t]] ELSE consumeAt'[t] = "checkIllegal"
    BY <2>4, <2>6 DEF ControlInv
  <2>8. QED
    BY <2>2, <2>3, <2>7 DEF ControlInv
<1>7. QED
  BY <1>1, <1>2, <1>3, <1>4, <1>5, <1>6, NextIsLinkOrNot DEF NextButLink

-----------------------------------------------------------------------------
(* The steps of a writer, reduced to what they do to its buffer.           *)

WriterAction(w) ==
    \/ BeginWrite(w)
    \/ FinishPad(w)
    \/ LoadNextLocation(w)
    \/ StoreWriterLocation(w)
    \/ \E s \in Schedulers : VisitConsumer(w, s) \/ ActivateConsumer(w, s)

LEMMA WriterStep ==
    ASSUME BufferTypeOK, WriterInv, NEW v \in Writers, WriterAction(v)
    PROVE  WriterInv'
<1> USE DEF BufferTypeOK
<1> DEFINE b == WritesTo[v]
           p == writerLocation[b]
<1>1. b \in Buffers /\ p \in Pad
  BY RingBufferAssumption
<1>2. SUFFICES ASSUME NEW w \in Writers, SingleWriter(WritesTo[w]),
                      writeAt'[w] \in {"writeTail", "loadNext", "storeNext"}
               PROVE  LET c == WritesTo[w]
                          q == writerLocation'[c]
                      IN  /\ padWritten'[w] = q
                          /\ datum'[w] = writes'[c]
                          /\ writes'[c] >= 1
                          /\ buffer'[c][q].head = writes'[c]
                          /\ writeAt'[w] # "writeTail" => buffer'[c][q].tail = writes'[c]
                          /\ writeAt'[w] = "storeNext" => nextLocation'[w] = NextPad(q)
  BY DEF WriterInv, SingleWriter
<1> DEFINE c == WritesTo[w]
<1>3. c \in Buffers /\ writerLocation[c] \in Pad
  BY RingBufferAssumption
<1>4. CASE w # v
  <2>1. c # b
    BY <1>2, <1>4 DEF SingleWriter
  <2>2. /\ writeAt'[w] = writeAt[w]
        /\ padWritten'[w] = padWritten[w]
        /\ datum'[w] = datum[w]
        /\ nextLocation'[w] = nextLocation[w]
    BY <1>4 DEF WriterAction, BeginWrite, FinishPad, LoadNextLocation, StoreWriterLocation,
                VisitConsumer, ActivateConsumer, WriteGoto
  <2>3. writerLocation'[c] = writerLocation[c] /\ writes'[c] = writes[c] /\ buffer'[c] = buffer[c]
    BY <1>1, <1>3, <2>1 DEF WriterAction, BeginWrite, FinishPad, LoadNextLocation,
       StoreWriterLocation, VisitConsumer, ActivateConsumer, ringVars
  <2>4. QED
    BY <1>2, <2>2, <2>3 DEF WriterInv
<1>5. CASE w = v
  <2>1. CASE BeginWrite(v)
    <3>1. /\ writes' = [writes EXCEPT ![b] = writes[b] + 1]
          /\ datum' = [datum EXCEPT ![v] = writes[b] + 1]
          /\ padWritten' = [padWritten EXCEPT ![v] = p]
          /\ buffer' = [buffer EXCEPT ![b][p] = [head |-> writes[b] + 1, tail |-> buffer[b][p].tail]]
          /\ writeAt' = [writeAt EXCEPT ![v] = "writeTail"]
          /\ writerLocation' = writerLocation
      BY <2>1 DEF BeginWrite, WriteGoto
    <3>2. writes[b] \in Nat
      BY <1>1 DEF Datum
    <3>3. /\ buffer'[b][p].head = writes[b] + 1
          /\ writes'[b] = writes[b] + 1
          /\ datum'[v] = writes[b] + 1
          /\ padWritten'[v] = p
          /\ writeAt'[v] = "writeTail"
      BY <1>1, <3>1
    <3>4. QED
      BY <1>5, <3>1, <3>2, <3>3
  <2>2. CASE FinishPad(v)
    <3>1. writeAt[v] = "writeTail" /\ writeAt'[v] = "loadNext"
      BY <2>2 DEF FinishPad, WriteGoto
    <3>2. padWritten[v] = p /\ datum[v] = writes[b] /\ writes[b] >= 1 /\ buffer[b][p].head = writes[b]
      BY <1>2, <1>5, <3>1 DEF WriterInv
    <3>3. buffer' = [buffer EXCEPT ![b][p] = [head |-> buffer[b][p].head, tail |-> datum[v]]]
      BY <2>2, <3>2 DEF FinishPad
    <3>4. buffer'[b][p].head = writes[b] /\ buffer'[b][p].tail = writes[b]
      BY <1>1, <3>2, <3>3
    <3>5. QED
      BY <1>5, <2>2, <3>1, <3>2, <3>4 DEF FinishPad
  <2>3. CASE LoadNextLocation(v)
    BY <1>2, <1>5, <2>3 DEF LoadNextLocation, WriteGoto, WriterInv, ringVars
  <2>4. CASE StoreWriterLocation(v)
    BY <1>2, <1>5, <2>4 DEF StoreWriterLocation, WriteGoto
  <2>5. ASSUME NEW s \in Schedulers, VisitConsumer(v, s) \/ ActivateConsumer(v, s)
        PROVE  FALSE
    BY <1>2, <1>5, <2>5 DEF VisitConsumer, ActivateConsumer, WriteGoto, NextTurn
  <2>6. QED
    BY <2>1, <2>2, <2>3, <2>4, <2>5 DEF WriterAction
<1>6. QED
  BY <1>4, <1>5

-----------------------------------------------------------------------------
(* The ring. *)

Offset == 0..(RING_BUFFER_SIZE - 1)

LEMMA RingFacts ==
    ASSUME NEW p \in Pad
    PROVE  /\ Ring(p, 0) = p
           /\ \A k \in Offset : Ring(p, k) \in Pad
           /\ \A k, j \in Offset : Ring(p, k) = Ring(p, j) => k = j
           /\ \A k \in Offset : k + 1 \in Offset =>
                  /\ NextPad(Ring(p, k)) = Ring(p, k + 1)
                  /\ Ring(NextPad(p), k) = Ring(p, k + 1)
           /\ \A q \in Pad : p = NextPad(q) => q = Ring(p, RING_BUFFER_SIZE - 1)
           /\ RING_BUFFER_SIZE >= 2 => NextPad(p) # p
BY RingBufferAssumption, SMT DEF Pad, Offset, Ring, NextPad

LEMMA PublishedIsNat ==
    ASSUME BufferTypeOK, NEW b \in Buffers
    PROVE  writes[b] \in Nat /\ Published(b) \in Int
BY RingBufferAssumption DEF BufferTypeOK, Datum, Published

(* With one writer, b is being written exactly when that writer is.        *)
LEMMA LoneWriter ==
    ASSUME NEW w \in Writers, SingleWriter(WritesTo[w])
    PROVE  BeingWritten(WritesTo[w]) <=> writeAt[w] \in {"writeTail", "loadNext", "storeNext"}
BY DEF BeingWritten, SingleWriter

LEMMA LoneWriterAfter ==
    ASSUME NEW w \in Writers, SingleWriter(WritesTo[w])
    PROVE  BeingWritten(WritesTo[w])' <=> writeAt'[w] \in {"writeTail", "loadNext", "storeNext"}
BY DEF BeingWritten, SingleWriter

(* A write on another buffer changes nothing of b.                         *)
LEMMA OtherBufferUnwritten ==
    ASSUME BufferTypeOK, NEW w \in Writers, WriterAction(w), NEW b \in Buffers, WritesTo[w] # b
    PROVE  /\ buffer'[b] = buffer[b] /\ writerLocation'[b] = writerLocation[b]
           /\ writes'[b] = writes[b] /\ overrun'[b] = overrun[b]
           /\ Published(b)' = Published(b)
<1> USE DEF BufferTypeOK
<1>1. WritesTo[w] \in Buffers
  BY RingBufferAssumption
<1>2. \A v \in Writers : v # w => writeAt'[v] = writeAt[v]
  BY DEF WriterAction, BeginWrite, FinishPad, LoadNextLocation, StoreWriterLocation,
         VisitConsumer, ActivateConsumer, WriteGoto
<1>3. BeingWritten(b)' <=> BeingWritten(b)
  BY <1>2 DEF BeingWritten
<1>4. /\ buffer'[b] = buffer[b] /\ writerLocation'[b] = writerLocation[b]
      /\ writes'[b] = writes[b] /\ overrun'[b] = overrun[b]
  BY <1>1 DEF WriterAction, BeginWrite, FinishPad, LoadNextLocation, StoreWriterLocation,
         VisitConsumer, ActivateConsumer, ringVars
<1>5. QED
  BY <1>3, <1>4 DEF Published

-----------------------------------------------------------------------------
(* A writer's step preserves what is said of a link.                       *)

ThreadsUnchanged == UNCHANGED <<threadAt, inputBuffer, linkedTo, consumerLocations, consumerVars>>

(* The pad being written is neither unread nor the one a consumer copies.  *)
LEMMA WrittenPadIsFree ==
    ASSUME BufferTypeOK, NEW s \in Schedulers, NEW b \in Buffers, LinkInv(s, b),
           Unread(s, b) \in 0..(RING_BUFFER_SIZE - 2)
    PROVE  /\ \A k \in 0..(Unread(s, b) - 1) :
                  Ring(consumerLocations[b][s], k) # writerLocation[b]
           /\ Pending(s, b) => currentData[s] # writerLocation[b]
<1> DEFINE at == consumerLocations[b][s]
           u == Unread(s, b)
<1>1. at \in Pad /\ currentData[s] \in Pad /\ RING_BUFFER_SIZE \in Nat \ {0}
  BY RingBufferAssumption DEF BufferTypeOK
<1>2. writerLocation[b] = Ring(at, u)
  BY DEF LinkInv
<1> HIDE DEF u
<1>3. u \in Offset /\ RING_BUFFER_SIZE - 1 \in Offset /\ u # RING_BUFFER_SIZE - 1
  BY <1>1 DEF Offset, u
<1>4. \A k \in 0..(u - 1) : k \in Offset /\ k # u
  BY <1>1, <1>3 DEF Offset
<1>5. \A k \in 0..(u - 1) : Ring(at, k) # writerLocation[b]
  BY <1>1, <1>2, <1>3, <1>4, RingFacts
<1>6. Pending(s, b) => currentData[s] # writerLocation[b]
  <2>1. SUFFICES ASSUME Pending(s, b) PROVE currentData[s] # writerLocation[b]
    OBVIOUS
  <2>2. at = NextPad(currentData[s])
    BY <2>1 DEF LinkInv
  <2>3. currentData[s] = Ring(at, RING_BUFFER_SIZE - 1)
    BY <1>1, <2>2, RingFacts
  <2>4. QED
    BY <1>1, <1>2, <1>3, <2>3, RingFacts
<1>7. QED
  BY <1>5, <1>6 DEF u

(* The two writes to a pad change no other pad.                            *)
LEMMA WrittenPadOnly ==
    ASSUME BufferTypeOK, NEW w \in Writers,
           BeginWrite(w) \/ (FinishPad(w) /\ padWritten[w] = writerLocation[WritesTo[w]])
    PROVE  \A q \in Pad : q # writerLocation[WritesTo[w]] =>
               buffer'[WritesTo[w]][q] = buffer[WritesTo[w]][q]
<1> DEFINE b == WritesTo[w]
           p == writerLocation[b]
<1>1. b \in Buffers /\ p \in Pad
  BY RingBufferAssumption DEF BufferTypeOK
<1>2. \E d : buffer' = [buffer EXCEPT ![b][p] = d]
  BY DEF BeginWrite, FinishPad
<1>3. PICK d : buffer' = [buffer EXCEPT ![b][p] = d]
  BY <1>2
<1>4. QED
  BY <1>1, <1>3 DEF BufferTypeOK

(* A write that is no overrun found room in the ring.                      *)
LEMMA WriteFindsRoom ==
    ASSUME BufferTypeOK, NEW w \in Writers, BeginWrite(w), NEW c \in linkedTo[WritesTo[w]],
           ~overrun'[WritesTo[w]]
    PROVE  ~((writes[WritesTo[w]] + 1) - advances[c][WritesTo[w]] >= RING_BUFFER_SIZE)
<1>1. overrun' = [overrun EXCEPT ![WritesTo[w]] = overrun[WritesTo[w]]
                       \/ SomeConsumerTooFarBehind(WritesTo[w], writes[WritesTo[w]] + 1)]
  BY DEF BeginWrite
<1>2. WritesTo[w] \in Buffers
  BY RingBufferAssumption
<1>3. overrun \in [Buffers -> BOOLEAN]
  BY DEF BufferTypeOK
<1>4. ~SomeConsumerTooFarBehind(WritesTo[w], writes[WritesTo[w]] + 1)
  <2> DEFINE far == SomeConsumerTooFarBehind(WritesTo[w], writes[WritesTo[w]] + 1)
  <2>1. overrun' = [overrun EXCEPT ![WritesTo[w]] = overrun[WritesTo[w]] \/ far]
    BY <1>1
  <2> HIDE DEF far
  <2>2. far => overrun'[WritesTo[w]]
    BY <1>2, <1>3, <2>1
  <2>3. QED
    BY <2>2 DEF far
<1>5. QED
  BY <1>4 DEF SomeConsumerTooFarBehind

LEMMA LinkInvWriter ==
    ASSUME BufferTypeOK, WriterInv, NEW w \in Writers, WriterAction(w), ThreadsUnchanged,
           NEW s \in Schedulers, NEW b \in Buffers, s \in linkedTo[b], SingleWriter(b),
           ~overrun'[b], LinkInv(s, b)
    PROVE  LinkInv(s, b)'
<1> USE DEF BufferTypeOK
<1> DEFINE a == advances[s][b]
           at == consumerLocations[b][s]
           u == Unread(s, b)
           p == writerLocation[b]
           N == RING_BUFFER_SIZE
<1>1. /\ a \in Nat /\ at \in Pad /\ p \in Pad /\ currentData[s] \in Pad
      /\ writes[b] \in Nat /\ Published(b) \in Int /\ N \in Nat \ {0}
      /\ u = Published(b) - a /\ u \in 0..(N - 1) /\ p = Ring(at, u)
  BY PublishedIsNat, RingBufferAssumption DEF LinkInv, Unread
<1>2. /\ UNCHANGED <<threadAt, inputBuffer, consumerLocations, consumeAt, currentData, headCopied,
                      advances, received>>
      /\ Pending(s, b)' = Pending(s, b)
      /\ \A c : Consuming(s, c)' = Consuming(s, c)
  BY DEF ThreadsUnchanged, consumerVars, Pending, Consuming, HasAdvanced
<1>3. CASE WritesTo[w] # b
  <2>1. /\ buffer'[b] = buffer[b] /\ writerLocation'[b] = p /\ writes'[b] = writes[b]
        /\ Published(b)' = Published(b)
    BY <1>3, OtherBufferUnwritten
  <2>2. Unread(s, b)' = u
    BY <1>2, <2>1 DEF Unread
  <2>3. QED
    BY <1>2, <2>1, <2>2 DEF LinkInv
<1>4. CASE WritesTo[w] = b
  <2>1. BeingWritten(b) <=> writeAt[w] \in {"writeTail", "loadNext", "storeNext"}
    BY <1>4, LoneWriter
  <2>2. BeingWritten(b)' <=> writeAt'[w] \in {"writeTail", "loadNext", "storeNext"}
    BY <1>4, LoneWriterAfter
  (* The writes to a pad: Published stays, one pad that is free changes. *)
  <2>3. ASSUME \A q \in Pad : q # p => buffer'[b][q] = buffer[b][q],
               writerLocation' = writerLocation, writes'[b] \in Nat,
               Published(b)' = Published(b), writes'[b] = Published(b) + 1, writes'[b] - a <= N - 1
        PROVE  LinkInv(s, b)'
    <3>1. u \in 0..(N - 2)
      BY <1>1, <2>3
    <3>2. /\ \A k \in 0..(u - 1) : Ring(at, k) # p
          /\ Pending(s, b) => currentData[s] # p
      BY <3>1, WrittenPadIsFree
    <3>3. \A q \in Pad : q # p => buffer'[b][q] = buffer[b][q]
      BY <2>3
    <3>4. \A k \in 0..(u - 1) : Ring(at, k) \in Pad
      BY <1>1, RingFacts DEF Offset
    <3>5. \A k \in 0..(u - 1) : buffer'[b][Ring(at, k)] = Both(a + k + 1)
      BY <3>2, <3>3, <3>4 DEF LinkInv
    <3>6. Pending(s, b) => buffer'[b][currentData[s]] = Both(a)
      BY <1>1, <3>2, <3>3 DEF LinkInv
    <3>7. Unread(s, b)' = u
      BY <1>2, <2>3 DEF Unread
    <3>8. QED
      BY <1>1, <1>2, <2>3, <3>5, <3>6, <3>7 DEF LinkInv
  <2>4. CASE BeginWrite(w)
    <3>1. /\ writes' = [writes EXCEPT ![b] = writes[b] + 1]
          /\ writerLocation' = writerLocation
          /\ writeAt[w] = "idle" /\ writeAt' = [writeAt EXCEPT ![w] = "writeTail"]
      BY <1>4, <2>4 DEF BeginWrite, WriteGoto
    <3>2. writes'[b] = writes[b] + 1 /\ writeAt'[w] = "writeTail"
      BY <3>1
    <3>3. ~((writes[b] + 1) - a >= N)
      BY <1>4, <2>4, WriteFindsRoom
    <3>4. Published(b) = writes[b] /\ Published(b)' = writes[b]
      BY <1>1, <2>1, <2>2, <3>1, <3>2 DEF Published
    <3>5. \A q \in Pad : q # p => buffer'[b][q] = buffer[b][q]
      <4>1. \A q \in Pad : q # writerLocation[WritesTo[w]] =>
                buffer'[WritesTo[w]][q] = buffer[WritesTo[w]][q]
        BY <2>4, WrittenPadOnly
      <4>2. QED
        BY <1>4, <4>1
    <3>6. QED
      BY <1>1, <2>3, <3>1, <3>2, <3>3, <3>4, <3>5
  <2>5. CASE FinishPad(w)
    <3>1. writeAt[w] = "writeTail" /\ writeAt' = [writeAt EXCEPT ![w] = "loadNext"]
          /\ writes' = writes /\ writerLocation' = writerLocation
      BY <2>5 DEF FinishPad, WriteGoto
    <3>2. padWritten[w] = p
      BY <1>4, <3>1 DEF WriterInv
    <3>3. \A q \in Pad : q # p => buffer'[b][q] = buffer[b][q]
      BY <1>1, <1>4, <2>5, <3>2, WrittenPadOnly
    <3>4. Published(b) = writes[b] - 1 /\ Published(b)' = writes[b] - 1
      BY <2>1, <2>2, <3>1 DEF Published
    <3>5. writes[b] - a <= N - 1
      BY DEF LinkInv
    <3>6. QED
      BY <1>1, <2>3, <3>1, <3>3, <3>4, <3>5
  <2>6. CASE StoreWriterLocation(w)
    <3>1. /\ writeAt[w] = "storeNext" /\ writeAt'[w] \notin {"writeTail", "loadNext", "storeNext"}
          /\ writerLocation' = [writerLocation EXCEPT ![b] = nextLocation[w]]
          /\ UNCHANGED <<buffer, writes>>
      BY <1>4, <2>6 DEF StoreWriterLocation, WriteGoto
    <3>2. /\ nextLocation[w] = NextPad(p)
          /\ buffer[b][p].head = writes[b] /\ buffer[b][p].tail = writes[b]
      BY <1>4, <3>1 DEF WriterInv
    <3>3. Published(b) = writes[b] - 1 /\ Published(b)' = writes[b]
      BY <2>1, <2>2, <3>1 DEF Published
    <3>4. writes[b] - a <= N - 1
      BY DEF LinkInv
    <3>5. /\ u + 1 \in 0..(N - 1) /\ Unread(s, b)' = u + 1
          /\ writes[b] = a + u + 1
      BY <1>1, <1>2, <3>3, <3>4 DEF Unread
    <3>6. writerLocation'[b] = Ring(at, u + 1)
      BY <1>1, <3>1, <3>2, <3>5, RingFacts DEF Offset
    <3>7. buffer[b][p] = Both(a + u + 1)
      <4>1. buffer[b][p] \in [head : Datum, tail : Datum]
        BY <1>1
      <4>2. QED
        BY <3>2, <3>5, <4>1 DEF Both
    <3> HIDE DEF u
    <3>8. \A k \in 0..u : buffer[b][Ring(at, k)] = Both(a + k + 1)
      <4>1. TAKE k \in 0..u
      <4>2. CASE k = u
        BY <1>1, <3>7, <4>2
      <4>3. CASE k # u
        <5>1. k \in 0..(u - 1)
          BY <1>1, <4>3
        <5>2. QED
          BY <5>1 DEF LinkInv, u
      <4>4. QED
        BY <4>2, <4>3
    <3>9. Unread(s, b)' - 1 = u
      BY <1>1, <3>5
    <3>10. /\ Unread(s, b)' \in 0..(N - 1)
           /\ writes'[b] - advances'[s][b] <= N - 1
           /\ writerLocation'[b] = Ring(consumerLocations'[b][s], Unread(s, b)')
      BY <1>2, <3>1, <3>4, <3>5, <3>6
    <3>11. \A k \in 0..(Unread(s, b)' - 1) :
               buffer'[b][Ring(consumerLocations'[b][s], k)] = Both(advances'[s][b] + k + 1)
      BY <1>2, <3>1, <3>8, <3>9
    <3>12. Unread(s, b)' >= 1
      BY <1>1, <3>5
    <3>13. QED
      BY <1>2, <3>1, <3>10, <3>11, <3>12 DEF LinkInv
  <2>7. CASE LoadNextLocation(w) \/ \E c \in Schedulers : VisitConsumer(w, c) \/ ActivateConsumer(w, c)
    <3>1. UNCHANGED <<buffer, writes, writerLocation>>
      BY <2>7 DEF LoadNextLocation, VisitConsumer, ActivateConsumer, ringVars
    <3>2. BeingWritten(b)' <=> BeingWritten(b)
      BY <2>1, <2>2, <2>7 DEF LoadNextLocation, VisitConsumer, ActivateConsumer, WriteGoto, NextTurn
    <3>3. Unread(s, b)' = u
      BY <1>2, <3>1, <3>2 DEF Unread, Published
    <3>4. QED
      BY <1>2, <3>1, <3>3 DEF LinkInv
  <2>8. QED
    BY <2>4, <2>5, <2>6, <2>7 DEF WriterAction
<1>5. QED
  BY <1>3, <1>4

-----------------------------------------------------------------------------
(* A step of a scheduler's thread preserves what is said of a link.        *)

LEMMA ThreadLeavesWriters ==
    ASSUME BufferTypeOK, SchedulerInv, ControlInv, NEW t \in Schedulers, ThreadStep(t)
    PROVE  UNCHANGED <<buffer, writerLocation, writes, overrun, writerVars, linkedTo>>
<1>1. CASE Loop(t)
  BY <1>1 DEF Loop, bufferVars, ringVars
<1>2. CASE TakeReference(t, inputBuffer[t]) /\ threadAt[t] = "consume"
  <2>1. t \in linkedTo[inputBuffer[t]] /\ inputBuffer[t] \in Buffers
    BY <1>2 DEF ControlInv, SchedulerInv, ConsumedBufferIsReady
  <2>2. linkedTo' = linkedTo
    BY <1>2, <2>1, ConsumptionKeepsMap
  <2>3. QED
    BY <1>2, <2>2 DEF TakeReference
<1>3. CASE TestAdvance(t, inputBuffer[t])
  BY <1>3 DEF TestAdvance, ringVars
<1>4. CASE AdvanceConsumer(t, inputBuffer[t])
  BY <1>4 DEF AdvanceConsumer
<1>5. CASE FindMore(t)
  BY <1>5 DEF FindMore, TestDeactivate, ringVars
<1>6. CASE Deactivate(t)
  BY <1>6 DEF Deactivate, DeactivateConsumer, ringVars
<1>7. CASE CopyHead(t, inputBuffer[t])
  BY <1>7 DEF CopyHead, ringVars
<1>8. CASE CopyTail(t, inputBuffer[t])
  BY <1>8 DEF CopyTail, ringVars
<1>9. QED
  BY <1>1, <1>2, <1>3, <1>4, <1>5, <1>6, <1>7, <1>8 DEF ThreadStep, InBuffer, Copy

(* The link (s, b) when s is not in a consumption of b, or stays where it  *)
(* was in one.                                                             *)
LEMMA LinkInvStable ==
    ASSUME NEW s \in Schedulers, NEW b \in Buffers, LinkInv(s, b),
           UNCHANGED <<buffer[b], writerLocation[b], writes[b], writeAt>>,
           UNCHANGED <<advances[s][b], consumerLocations[b][s], Len(received[s][b])>>,
           \/ /\ UNCHANGED <<consumeAt[s], currentData[s], headCopied[s]>>
              /\ Consuming(s, b)' = Consuming(s, b)
           \/ /\ ~Pending(s, b)
              /\ Consuming(s, b)' => consumeAt'[s] = "checkIllegal"
    PROVE  LinkInv(s, b)'
<1>1. Unread(s, b)' = Unread(s, b)
  BY DEF Unread, Published, BeingWritten
<1>2. CASE /\ UNCHANGED <<consumeAt[s], currentData[s], headCopied[s]>>
           /\ Consuming(s, b)' = Consuming(s, b)
  <2>1. Pending(s, b)' = Pending(s, b)
    BY <1>2 DEF Pending, HasAdvanced
  <2>2. QED
    BY <1>1, <1>2, <2>1 DEF LinkInv
<1>3. CASE ~Pending(s, b) /\ (Consuming(s, b)' => consumeAt'[s] = "checkIllegal")
  <2>1. ~Pending(s, b)'
    BY <1>3 DEF Pending
  <2>2. QED
    BY <1>1, <1>3, <2>1 DEF LinkInv
<1>4. QED
  BY <1>2, <1>3

(* The step of s that moves its location on b.                             *)
LEMMA LinkInvAdvance ==
    ASSUME BufferTypeOK, NEW s \in Schedulers, NEW b \in Buffers, LinkInv(s, b),
           Consuming(s, b), AdvanceConsumer(s, b), UNCHANGED <<threadAt, inputBuffer>>
    PROVE  LinkInv(s, b)'
<1> USE DEF BufferTypeOK
<1> DEFINE a == advances[s][b]
           at == consumerLocations[b][s]
           u == Unread(s, b)
           N == RING_BUFFER_SIZE
<1>1. /\ a \in Nat /\ at \in Pad /\ currentData[s] = at /\ writes[b] \in Nat /\ N \in Nat \ {0}
      /\ u \in 1..(N - 1) /\ Published(b) \in Int /\ u = Published(b) - a
      /\ writerLocation[b] = Ring(at, u) /\ writes[b] - a <= N - 1
      /\ Len(received[s][b]) = a
  <2>1. /\ a \in Nat /\ at \in Pad /\ N \in Nat \ {0}
        /\ u = Published(b) - a
    BY RingBufferAssumption DEF Unread
  <2> writes[b] \in Nat /\ Published(b) \in Int
    BY PublishedIsNat
  <2>2. consumeAt[s] = "advance" /\ ~Pending(s, b)
    BY DEF AdvanceConsumer, ConsumeGoto, Pending
  <2>3. /\ u \in 0..(N - 1) /\ u >= 1 /\ currentData[s] = at /\ Len(received[s][b]) = a
        /\ writerLocation[b] = Ring(at, u) /\ writes[b] - a <= N - 1
    BY <2>2 DEF LinkInv
  <2>4. QED
    BY <2>1, <2>3
<1>2. /\ consumerLocations'[b][s] = NextPad(at) /\ advances'[s][b] = a + 1
      /\ consumeAt'[s] = "testDeactivate"
      /\ UNCHANGED <<buffer, writerLocation, writes, writeAt, currentData, received>>
  BY DEF AdvanceConsumer, ConsumeGoto, writerVars
<1>3. Consuming(s, b)'
  BY DEF Consuming
<1>4. Unread(s, b)' = u - 1
  <2> HIDE DEF BufferTypeOK, u
  <2>1. BeingWritten(b)' <=> BeingWritten(b)
    BY <1>2 DEF BeingWritten
  <2>2. Published(b)' = Published(b)
    BY <1>2, <2>1, Zenon DEF Published
  <2>3. Unread(s, b)' = Published(b) - (a + 1)
    BY <1>2, <2>2, Zenon DEF Unread
  <2>4. QED
    BY <1>1, <2>3
<1>5. NextPad(at) # at
  <2>1. N >= 2
    BY <1>1
  <2>2. QED
    BY <1>1, <2>1, RingFacts
<1>6. Pending(s, b)'
  BY <1>1, <1>2, <1>3, <1>5 DEF Pending, HasAdvanced
<1>7. buffer[b][at] = Both(a + 1)
  <2>1. Ring(at, 0) = at
    BY <1>1, RingFacts
  <2>2. buffer[b][Ring(at, 0)] = Both(a + 0 + 1)
    BY <1>1 DEF LinkInv
  <2>3. QED
    BY <1>1, <2>1, <2>2
<1>8. \A k \in 0..(u - 2) : Ring(NextPad(at), k) = Ring(at, k + 1)
  BY <1>1, RingFacts DEF Offset
<1>9. \A k \in 0..(u - 2) : buffer[b][Ring(NextPad(at), k)] = Both((a + 1) + k + 1)
  <2>1. TAKE k \in 0..(u - 2)
  <2>2. k + 1 \in 0..(u - 1) /\ a + (k + 1) + 1 = (a + 1) + k + 1
    BY <1>1
  <2>3. buffer[b][Ring(at, k + 1)] = Both(a + (k + 1) + 1)
    BY <2>2 DEF LinkInv
  <2>4. QED
    BY <1>8, <2>2, <2>3
<1>10. writerLocation[b] = Ring(NextPad(at), u - 1)
  BY <1>1, RingFacts DEF Offset
<1>11. /\ Unread(s, b)' \in 0..(N - 1)
       /\ writes[b] - (a + 1) <= N - 1
       /\ Unread(s, b)' - 1 = u - 2
       /\ (a + 1) - 1 = a /\ a + 1 >= 1
  BY <1>1, <1>4
<1>12. \A k \in 0..(Unread(s, b)' - 1) :
           buffer'[b][Ring(consumerLocations'[b][s], k)] = Both(advances'[s][b] + k + 1)
  BY <1>2, <1>9, <1>11
<1>13. writerLocation'[b] = Ring(consumerLocations'[b][s], Unread(s, b)')
  BY <1>2, <1>4, <1>10
<1>14. /\ consumerLocations'[b][s] = NextPad(currentData'[s])
       /\ buffer'[b][currentData'[s]] = Both(advances'[s][b])
       /\ Len(received'[s][b]) = advances'[s][b] - 1
  BY <1>1, <1>2, <1>7, <1>11
<1>15. QED
  BY <1>2, <1>6, <1>11, <1>12, <1>13, <1>14 DEF LinkInv

(* A consumption by t changes t's own words and what t has on that buffer. *)
ConsumptionStep(t) == InBuffer(t) \/ FindMore(t) \/ Deactivate(t) \/ Copy(t)

LEMMA ConsumptionFrame ==
    ASSUME BufferTypeOK, SchedulerInv, ControlInv, NEW t \in Schedulers, ConsumptionStep(t)
    PROVE  /\ Consuming(t, inputBuffer[t]) /\ inputBuffer[t] \in Buffers
           /\ inputBuffer'[t] \in {inputBuffer[t], NoPointer}
           /\ \A q \in Schedulers : q # t =>
                  UNCHANGED <<threadAt[q], inputBuffer[q], consumeAt[q], currentData[q], headCopied[q]>>
           /\ \A q \in Schedulers, d \in Buffers : q # t \/ d # inputBuffer[t] =>
                  UNCHANGED <<advances[q][d], consumerLocations[d][q], received[q][d]>>
<1> USE DEF BufferTypeOK, SchedulerInv, SchedulerTypeOK
<1> DEFINE c == inputBuffer[t]
<1>1. threadAt[t] \in {"consume", "copy"}
  BY DEF ConsumptionStep, InBuffer, FindMore, Deactivate, Copy, CopyHead, CopyTail,
         ConsumeGoto, Goto, ControlInv
<1>2. c \in Buffers /\ t \in linkedTo[c]
  BY <1>1, ConsumedBuffer
<1>3. /\ inputBuffer'[t] \in {c, NoPointer}
      /\ \A q \in Schedulers : q # t => UNCHANGED <<threadAt[q], inputBuffer[q]>>
  BY DEF ConsumptionStep, InBuffer, FindMore, Deactivate, Copy, FinishConsumption,
         Goto, schedulerVars
<1>4. \A q \in Schedulers : q # t => UNCHANGED <<consumeAt[q], currentData[q], headCopied[q]>>
  BY DEF ConsumptionStep, InBuffer, FindMore, Deactivate, Copy, TakeReference, TestAdvance,
         AdvanceConsumer, TestDeactivate, DeactivateConsumer, CopyHead, CopyTail, ConsumeGoto
<1>5. ASSUME NEW q \in Schedulers, NEW d \in Buffers, q # t \/ d # c
      PROVE  /\ UNCHANGED <<advances[q][d], received[q][d]>>
             /\ consumerLocations'[d][q] = consumerLocations[d][q]
  <2>1. advances'[q][d] = advances[q][d]
    <3>1. advances' = advances \/ advances' = [advances EXCEPT ![t][c] = advances[t][c] + 1]
      BY DEF ConsumptionStep, InBuffer, FindMore, Deactivate, Copy, TakeReference, TestAdvance,
         AdvanceConsumer, TestDeactivate, DeactivateConsumer, CopyHead, CopyTail
    <3>2. QED
      BY <1>2, <1>5, <3>1
  <2>2. received'[q][d] = received[q][d]
    <3>1. received' = received \/ \E r : received' = [received EXCEPT ![t][c] = r]
      BY DEF ConsumptionStep, InBuffer, FindMore, Deactivate, Copy, TakeReference, TestAdvance,
         AdvanceConsumer, TestDeactivate, DeactivateConsumer, CopyHead, CopyTail
    <3>2. QED
      BY <1>2, <1>5, <3>1
  <2>3. consumerLocations'[d][q] = consumerLocations[d][q]
    <3>1. CASE TakeReference(t, c)
      BY <1>2, <3>1, ConsumptionKeepsMap
    <3>2. CASE AdvanceConsumer(t, c)
      <4>1. consumerLocations' = [consumerLocations EXCEPT ![c][t] = NextPad(consumerLocations[c][t])]
        BY <3>2 DEF AdvanceConsumer
      <4>2. QED
        BY <1>2, <1>5, <4>1
    <3>3. CASE ~TakeReference(t, c) /\ ~AdvanceConsumer(t, c)
      BY <3>3 DEF ConsumptionStep, InBuffer, FindMore, Deactivate, Copy, TestAdvance,
         TestDeactivate, DeactivateConsumer, CopyHead, CopyTail, ringVars
    <3>4. QED
      BY <3>1, <3>2, <3>3
  <2>4. QED
    BY <2>1, <2>2, <2>3
<1>6. QED
  BY <1>1, <1>2, <1>3, <1>4, <1>5 DEF Consuming

(* The copy adds one datum when, and only when, the location had moved.    *)
LEMMA CopyTailLength ==
    ASSUME BufferTypeOK, NEW s \in Schedulers, NEW b \in Buffers, CopyTail(s, b), Consuming(s, b)
    PROVE  /\ Pending(s, b) =>
                  /\ Len(received'[s][b]) = Len(received[s][b]) + 1
                  /\ \A i \in 1..Len(received[s][b]) : received'[s][b][i] = received[s][b][i]
                  /\ received'[s][b][Len(received[s][b]) + 1] =
                         [head |-> headCopied[s], tail |-> buffer[b][currentData[s]].tail]
           /\ ~Pending(s, b) => received'[s][b] = received[s][b]
<1> DEFINE D == [head : Datum, tail : Datum]
           r == received[s][b]
           data == [head |-> headCopied[s], tail |-> buffer[b][currentData[s]].tail]
<1>1. received \in [Schedulers -> [Buffers -> Seq(D)]]
  BY DEF BufferTypeOK
<1>2. Pending(s, b) <=> HasAdvanced(s, b)
  BY DEF Pending, CopyTail, ConsumeGoto
<1>3. CASE HasAdvanced(s, b)
  <2>1. received' = [received EXCEPT ![s][b] = Append(r, data)]
    BY <1>3 DEF CopyTail
  <2>2. received'[s][b] = Append(r, data)
    BY <1>1, <2>1
  <2>3. r \in Seq(D)
    BY <1>1
  <2> HIDE DEF r, data, D
  <2>4. /\ Len(Append(r, data)) = Len(r) + 1
        /\ \A i \in 1..Len(r) : Append(r, data)[i] = r[i]
        /\ Append(r, data)[Len(r) + 1] = data
    BY <2>3
  <2>5. QED
    BY <1>2, <1>3, <2>2, <2>4 DEF r, data
<1>4. CASE ~HasAdvanced(s, b)
  BY <1>2, <1>4 DEF CopyTail
<1>5. QED
  BY <1>3, <1>4

LEMMA LinkInvThread ==
    ASSUME BufferTypeOK, SchedulerInv, ControlInv, NEW t \in Schedulers, ThreadStep(t),
           NEW s \in Schedulers, NEW b \in Buffers, s \in linkedTo[b], LinkInv(s, b)
    PROVE  LinkInv(s, b)'
<1> USE DEF BufferTypeOK
<1> DEFINE a == advances[s][b]
           at == consumerLocations[b][s]
<1>1. UNCHANGED <<buffer, writerLocation, writes, writeAt>>
  BY ThreadLeavesWriters DEF writerVars
<1>2. CASE Loop(t)
  <2>1. UNCHANGED <<consumerLocations, advances, received, consumeAt, currentData, headCopied>>
    BY <1>2 DEF Loop, bufferVars, ringVars, consumerVars
  <2>2. CASE t # s
    <3>1. Consuming(s, b)' = Consuming(s, b)
      BY <1>2, <2>2 DEF Loop, LoopStep, ReadIsEmpty, ReadTerminateOrder, EnterLoopBody,
         ReadNextPointerToConsume, Goto, Consuming, SchedulerInv, SchedulerTypeOK
    <3>2. QED
      BY <1>1, <2>1, <3>1, LinkInvStable
  <2>3. CASE t = s
    <3>1. threadAt[s] \notin {"consume", "copy"}
      BY <1>2, <2>3 DEF Loop, LoopStep, ReadIsEmpty, ReadTerminateOrder, EnterLoopBody,
         ReadNextPointerToConsume, Goto
    <3>2. consumeAt[s] = "checkIllegal" /\ ~Pending(s, b)
      BY <3>1 DEF ControlInv, Pending
    <3>3. QED
      BY <1>1, <2>1, <3>2, LinkInvStable
  <2>4. QED
    BY <2>2, <2>3
<1>3. CASE ConsumptionStep(t) /\ t # s
  <2>1. UNCHANGED <<threadAt[s], inputBuffer[s], consumeAt[s], currentData[s], headCopied[s]>>
    BY <1>3, ConsumptionFrame
  <2>2. UNCHANGED <<advances[s][b], consumerLocations[b][s], received[s][b]>>
    BY <1>3, ConsumptionFrame
  <2>3. Consuming(s, b)' = Consuming(s, b)
    BY <2>1 DEF Consuming
  <2>4. QED
    BY <1>1, <2>1, <2>2, <2>3, LinkInvStable
<1>4. CASE ConsumptionStep(s) /\ inputBuffer[s] # b
  <2>1. UNCHANGED <<advances[s][b], consumerLocations[b][s], received[s][b]>>
    BY <1>4, ConsumptionFrame
  <2>2. inputBuffer'[s] # b
    BY <1>4, ConsumptionFrame, BufferAssumption
  <2>3. ~Pending(s, b) /\ ~Consuming(s, b)'
    BY <1>4, <2>2 DEF Pending, Consuming
  <2>4. QED
    BY <1>1, <2>1, <2>3, LinkInvStable
<1>5. CASE ConsumptionStep(s) /\ inputBuffer[s] = b
  <2>1. Consuming(s, b)
    BY <1>5, ConsumptionFrame
  <2>2. CASE TakeReference(s, b) /\ threadAt[s] = "consume" /\ UNCHANGED <<threadAt, inputBuffer>>
    <3>1. UNCHANGED <<linkedTo, consumerLocations>>
      BY <2>2, ConsumptionKeepsMap
    <3>2. consumeAt[s] = "checkIllegal" /\ consumeAt'[s] = "testAdvance" /\ currentData'[s] = at
          /\ UNCHANGED <<advances, received, headCopied>>
      BY <2>2, <3>1 DEF TakeReference, ConsumeGoto
    <3>3. ~Pending(s, b) /\ ~Pending(s, b)' /\ Unread(s, b)' = Unread(s, b)
      BY <1>1, <3>2 DEF Pending, Unread, Published, BeingWritten
    <3>4. QED
      BY <1>1, <3>1, <3>2, <3>3 DEF LinkInv
  <2>3. CASE TestAdvance(s, b) /\ UNCHANGED <<threadAt, inputBuffer>>
    <3>1. /\ consumeAt[s] = "testAdvance"
          /\ consumeAt'[s] = IF IsAtWriterLocation(s, b) THEN "testDeactivate" ELSE "advance"
          /\ UNCHANGED <<consumerLocations, advances, received, headCopied, currentData>>
      BY <2>3 DEF TestAdvance, ConsumeGoto, ringVars
    <3>2. currentData[s] = at
      BY <2>1, <3>1 DEF LinkInv
    <3>3. ~Pending(s, b) /\ ~Pending(s, b)' /\ Unread(s, b)' = Unread(s, b)
      BY <1>1, <3>1, <3>2 DEF Pending, HasAdvanced, Unread, Published, BeingWritten
    <3>4. consumeAt'[s] = "advance" => Unread(s, b) >= 1
      <4>1. SUFFICES ASSUME at # writerLocation[b] PROVE Unread(s, b) >= 1
        BY <3>1 DEF IsAtWriterLocation
      <4>2. Unread(s, b) \in 0..(RING_BUFFER_SIZE - 1) /\ writerLocation[b] = Ring(at, Unread(s, b))
        BY DEF LinkInv
      <4>3. Unread(s, b) # 0
        BY <4>1, <4>2, RingFacts
      <4> HIDE DEF a
      <4>4. QED
        BY <4>2, <4>3, RingBufferAssumption
    <3>5. QED
      BY <1>1, <3>1, <3>2, <3>3, <3>4 DEF LinkInv
  <2>4. CASE AdvanceConsumer(s, b) /\ UNCHANGED <<threadAt, inputBuffer>>
    BY <2>1, <2>4, LinkInvAdvance
  <2>5. CASE \/ TestDeactivate(s, b)
             \/ DeactivateConsumer(s)
    <3>1. /\ consumeAt[s] \in {"testDeactivate", "deactivate"}
          /\ consumeAt'[s] \in {"deactivate", "copyHead"}
          /\ UNCHANGED <<consumerLocations, advances, received, headCopied, currentData>>
      BY <2>5 DEF TestDeactivate, DeactivateConsumer, ConsumeGoto, ringVars
    <3>2. inputBuffer'[s] = b /\ threadAt'[s] \in {"consume", "copy"}
      <4>1. FindMore(s) \/ Deactivate(s)
        BY <1>5, <2>5, <3>1 DEF ConsumptionStep, InBuffer, Copy, TakeReference, TestAdvance,
           AdvanceConsumer, TestDeactivate, DeactivateConsumer, CopyHead, CopyTail, ConsumeGoto
      <4>2. QED
        BY <1>5, <4>1 DEF FindMore, Deactivate, Goto, SchedulerInv, SchedulerTypeOK
    <3>3. Consuming(s, b)' /\ Pending(s, b)' = Pending(s, b) /\ Unread(s, b)' = Unread(s, b)
      BY <1>1, <2>1, <3>1, <3>2 DEF Consuming, Pending, HasAdvanced, Unread, Published, BeingWritten
    <3>4. QED
      BY <1>1, <3>1, <3>3 DEF LinkInv
  <2>6. CASE CopyHead(s, b) /\ UNCHANGED <<threadAt, inputBuffer>>
    <3>1. /\ consumeAt[s] = "copyHead" /\ consumeAt'[s] = "copyTail"
          /\ headCopied'[s] = buffer[b][currentData[s]].head
          /\ UNCHANGED <<consumerLocations, advances, received, currentData>>
      BY <2>6 DEF CopyHead, ConsumeGoto, ringVars
    <3>2. Pending(s, b)' = Pending(s, b) /\ Unread(s, b)' = Unread(s, b)
      BY <1>1, <2>1, <2>6, <3>1 DEF Consuming, Pending, HasAdvanced, Unread, Published, BeingWritten
    <3>3. Pending(s, b) => headCopied'[s] = a
      BY <3>1 DEF LinkInv, Both
    <3>4. QED
      BY <1>1, <3>1, <3>2, <3>3 DEF LinkInv
  <2>7. CASE CopyTail(s, b) /\ FinishConsumption(s)
    <3>1. /\ consumeAt[s] = "copyTail" /\ consumeAt'[s] = "checkIllegal"
          /\ UNCHANGED <<consumerLocations, advances, currentData, headCopied>>
      BY <2>7 DEF CopyTail, ConsumeGoto, ringVars
    <3>2. ~Pending(s, b)' /\ Unread(s, b)' = Unread(s, b)
      BY <1>1, <3>1 DEF Pending, Unread, Published, BeingWritten
    <3>3. Len(received'[s][b]) = a
      <4>1. a \in Nat
        OBVIOUS
      <4>2. Len(received[s][b]) = IF Pending(s, b) THEN a - 1 ELSE a
        BY DEF LinkInv
      <4>3. Len(received'[s][b]) = IF Pending(s, b) THEN Len(received[s][b]) + 1 ELSE Len(received[s][b])
        BY <2>1, <2>7, CopyTailLength
      <4> HIDE DEF a
      <4>4. QED
        BY <4>1, <4>2, <4>3
    <3>4. QED
      BY <1>1, <3>1, <3>2, <3>3 DEF LinkInv
  <2>8. QED
    BY <1>5, <2>2, <2>3, <2>4, <2>5, <2>6, <2>7
       DEF ConsumptionStep, InBuffer, FindMore, Deactivate, Copy, schedulerVars
<1>6. QED
  BY <1>2, <1>3, <1>4, <1>5 DEF ThreadStep, ConsumptionStep

-----------------------------------------------------------------------------
(* The invariant of the whole. *)

(* What a writer's step, and one of the main thread but Link, leaves alone.*)
LEMMA WritersLeaveThreads ==
    ASSUME NEW w \in Writers, StartWrite(w) \/ ContinueWrite(w)
    PROVE  WriterAction(w) /\ ThreadsUnchanged
BY DEF StartWrite, ContinueWrite, Activate, WriterAction, BeginWrite, FinishPad, LoadNextLocation,
       StoreWriterLocation, VisitConsumer, ActivateConsumer, ThreadsUnchanged, ringVars, schedulerVars

LEMMA MainLeavesBuffers ==
    ASSUME \/ StartWriters
           \/ JoinWriters
           \/ \E s \in Schedulers : Terminate(s) \/ JoinScheduler(s)
           \/ UNCHANGED dataFlowVars
    PROVE  UNCHANGED <<bufferVars, threadAt, inputBuffer>>
BY DEF StartWriters, JoinWriters, Terminate, OrderTermination, JoinScheduler, Join, dataFlowVars,
       schedulerVars

LEMMA OverrunStays ==
    ASSUME BufferTypeOK, SchedulerInv, ControlInv, [Next]_dataFlowVars,
           NEW b \in Buffers, ~overrun'[b]
    PROVE  ~overrun[b]
<1>1. CASE \/ StartWriters
           \/ JoinWriters
           \/ \E s \in Schedulers : Terminate(s) \/ JoinScheduler(s)
           \/ UNCHANGED dataFlowVars
  BY <1>1, MainLeavesBuffers DEF bufferVars, ringVars
<1>2. ASSUME NEW s \in Schedulers, NEW c \in Buffers, Link(s, c)
      PROVE  ~overrun[b]
  BY <1>2 DEF Link
<1>3. ASSUME NEW w \in Writers, BeginWrite(w)
      PROVE  ~overrun[b]
  <2> DEFINE far == SomeConsumerTooFarBehind(WritesTo[w], writes[WritesTo[w]] + 1)
  <2>1. overrun' = [overrun EXCEPT ![WritesTo[w]] = overrun[WritesTo[w]] \/ far]
    BY <1>3 DEF BeginWrite
  <2>2. overrun \in [Buffers -> BOOLEAN] /\ WritesTo[w] \in Buffers
    BY RingBufferAssumption DEF BufferTypeOK
  <2> HIDE DEF far
  <2>3. overrun[b] => overrun'[b]
    BY <2>1, <2>2
  <2>4. QED
    BY <2>3
<1>4. ASSUME NEW w \in Writers, WriterAction(w), ~BeginWrite(w)
      PROVE  ~overrun[b]
  BY <1>4 DEF WriterAction, FinishPad, LoadNextLocation, StoreWriterLocation, VisitConsumer,
              ActivateConsumer, ringVars
<1>5. ASSUME NEW s \in Schedulers, ThreadStep(s)
      PROVE  ~overrun[b]
  BY <1>5, ThreadLeavesWriters
<1>6. QED
  BY <1>1, <1>2, <1>3, <1>4, <1>5, WritersLeaveThreads, NextIsLinkOrNot DEF NextButLink

(* A new link finds nothing written yet.                                   *)
LEMMA LinkInvLink ==
    ASSUME DataFlowTypeOK, ControlInv, Orderly, NEW s \in Schedulers, NEW b \in Buffers, Link(s, b),
           s \notin linkedTo[b]
    PROVE  LinkInv(s, b)'
<1> USE DEF DataFlowTypeOK, BufferTypeOK
<1>1. /\ writes[b] = 0 /\ writerLocation[b] = 0
      /\ \A w \in Writers : writeAt[w] = "idle"
  BY DEF Link, ControlInv
<1>2. /\ advances[s][b] = 0 /\ consumerLocations[b][s] = 0 /\ received[s][b] = <<>>
  BY DEF Orderly
<1>3. /\ UNCHANGED <<buffer, writerLocation, writes, writeAt, consumeAt, advances, received,
                     threadAt, inputBuffer>>
      /\ consumerLocations'[b][s] = 0
  <2>1. UNCHANGED <<buffer, writerLocation, writes, writeAt, consumeAt, advances, received,
                    threadAt, inputBuffer>>
    BY DEF Link, LinkWith, writerVars, consumerVars
  <2>2. consumerLocations' = [consumerLocations EXCEPT ![b][s] = 0]
    BY DEF Link, AddLinkIfNoneExists
  <2>3. QED
    BY <2>1, <2>2
<1>4. ~Consuming(s, b)'
  BY <1>3 DEF Consuming, ControlInv
<1>5. ~Pending(s, b)'
  BY <1>4 DEF Pending
<1>6. Published(b)' = 0
  BY <1>1, <1>3 DEF Published, BeingWritten
<1>7. Unread(s, b)' = 0
  BY <1>2, <1>3, <1>6 DEF Unread
<1>8. 0 \in 0..(RING_BUFFER_SIZE - 1) /\ Ring(0, 0) = 0 /\ Len(<<>>) = 0
  BY RingBufferAssumption DEF Ring
<1>9. QED
  BY <1>1, <1>2, <1>3, <1>4, <1>5, <1>7, <1>8 DEF LinkInv

LEMMA OrderlyStep ==
    ASSUME DataFlowTypeOK, SchedulerInv, MapsAgreeWithLists, ControlInv, WriterInv, Orderly,
           [Next]_dataFlowVars
    PROVE  Orderly'
<1> USE DEF DataFlowTypeOK
<1>1. SUFFICES ASSUME NEW s \in Schedulers, NEW b \in Buffers
               PROVE  /\ s \in linkedTo'[b] /\ SingleWriter(b) /\ ~overrun'[b] => LinkInv(s, b)'
                      /\ s \notin linkedTo'[b] => /\ advances'[s][b] = 0
                                                  /\ consumerLocations'[b][s] = 0
                                                  /\ received'[s][b] = <<>>
  BY DEF Orderly, SingleWriter
<1>2. ~overrun'[b] => ~overrun[b]
  BY OverrunStays
<1>3. CASE \/ StartWriters
           \/ JoinWriters
           \/ \E t \in Schedulers : Terminate(t) \/ JoinScheduler(t)
           \/ UNCHANGED dataFlowVars
  <2>1. UNCHANGED <<bufferVars, threadAt, inputBuffer>>
    BY <1>3, MainLeavesBuffers
  <2>2. LinkInv(s, b) => LinkInv(s, b)'
    BY <2>1, LinkInvStable DEF bufferVars, ringVars, writerVars, consumerVars, Consuming
  <2>3. QED
    BY <1>2, <2>1, <2>2 DEF Orderly, bufferVars, ringVars, consumerVars
<1>4. ASSUME NEW t \in Schedulers, NEW c \in Buffers, Link(t, c)
      PROVE  /\ s \in linkedTo'[b] /\ SingleWriter(b) /\ ~overrun'[b] => LinkInv(s, b)'
             /\ s \notin linkedTo'[b] => /\ advances'[s][b] = 0
                                         /\ consumerLocations'[b][s] = 0
                                         /\ received'[s][b] = <<>>
  <2>1. /\ UNCHANGED <<buffer, writerLocation, writes, writeAt, consumeAt, currentData, headCopied,
                       advances, received, threadAt, inputBuffer>>
        /\ linkedTo' = [linkedTo EXCEPT ![c] = linkedTo[c] \cup {t}]
    BY <1>4 DEF Link, LinkWith, AddLinkIfNoneExists, writerVars, consumerVars
  <2>2. s \in linkedTo'[b] <=> (s \in linkedTo[b] \/ (s = t /\ b = c))
    BY <2>1 DEF BufferTypeOK
  <2>3. s # t \/ b # c \/ s \in linkedTo[b] => consumerLocations'[b][s] = consumerLocations[b][s]
    <3>1. \E p : /\ consumerLocations' = [consumerLocations EXCEPT ![c][t] = p]
                 /\ t \in linkedTo[c] => p = consumerLocations[c][t]
      BY <1>4 DEF Link, AddLinkIfNoneExists
    <3>2. QED
      BY <3>1 DEF BufferTypeOK
  <2>4. CASE s \in linkedTo[b]
    <3>1. Consuming(s, b)' = Consuming(s, b)
      BY <2>1 DEF Consuming
    <3>2. LinkInv(s, b) => LinkInv(s, b)'
      BY <2>1, <2>3, <2>4, <3>1, LinkInvStable
    <3>3. QED
      BY <1>2, <2>2, <2>4, <3>2 DEF Orderly
  <2>5. CASE s \notin linkedTo[b] /\ s = t /\ b = c
    BY <1>4, <2>2, <2>5, LinkInvLink
  <2>6. CASE s \notin linkedTo[b] /\ (s # t \/ b # c)
    BY <2>1, <2>2, <2>3, <2>6 DEF Orderly
  <2>7. QED
    BY <2>4, <2>5, <2>6
<1>5. ASSUME NEW w \in Writers, StartWrite(w) \/ ContinueWrite(w)
      PROVE  /\ s \in linkedTo'[b] /\ SingleWriter(b) /\ ~overrun'[b] => LinkInv(s, b)'
             /\ s \notin linkedTo'[b] => /\ advances'[s][b] = 0
                                         /\ consumerLocations'[b][s] = 0
                                         /\ received'[s][b] = <<>>
  <2>1. WriterAction(w) /\ ThreadsUnchanged
    BY <1>5, WritersLeaveThreads
  <2>2. UNCHANGED <<linkedTo, consumerLocations, advances, received>>
    BY <2>1 DEF ThreadsUnchanged, consumerVars
  <2>3. s \in linkedTo[b] /\ SingleWriter(b) /\ ~overrun'[b] => LinkInv(s, b)'
    <3>1. SUFFICES ASSUME s \in linkedTo[b], SingleWriter(b), ~overrun'[b]
                   PROVE  LinkInv(s, b)'
      OBVIOUS
    <3>2. LinkInv(s, b)
      BY <1>2, <3>1 DEF Orderly
    <3>3. QED
      BY <2>1, <3>1, <3>2, LinkInvWriter
  <2>4. QED
    BY <2>2, <2>3 DEF Orderly
<1>6. ASSUME NEW t \in Schedulers, ThreadStep(t)
      PROVE  /\ s \in linkedTo'[b] /\ SingleWriter(b) /\ ~overrun'[b] => LinkInv(s, b)'
             /\ s \notin linkedTo'[b] => /\ advances'[s][b] = 0
                                         /\ consumerLocations'[b][s] = 0
                                         /\ received'[s][b] = <<>>
  <2>1. linkedTo' = linkedTo
    BY <1>6, ThreadLeavesWriters
  <2>2. s \in linkedTo[b] /\ LinkInv(s, b) => LinkInv(s, b)'
    BY <1>6, LinkInvThread
  <2>3. s \notin linkedTo[b] => UNCHANGED <<advances[s][b], consumerLocations[b][s], received[s][b]>>
    <3>1. CASE Loop(t)
      BY <3>1 DEF Loop, bufferVars, ringVars, consumerVars
    <3>2. CASE ConsumptionStep(t)
      <4>1. t \in linkedTo[inputBuffer[t]]
        BY <3>2, ConsumptionFrame, ConsumedBuffer DEF Consuming
      <4>2. QED
        BY <3>2, <4>1, ConsumptionFrame
    <3>3. QED
      BY <1>6, <3>1, <3>2 DEF ThreadStep, ConsumptionStep
  <2>4. QED
    BY <1>2, <2>1, <2>2, <2>3 DEF Orderly
<1>7. QED
  BY <1>3, <1>4, <1>5, <1>6, NextIsLinkOrNot DEF NextButLink

(* The datum a copy adds is the next one.                                  *)
LEMMA InOrderStep ==
    ASSUME DataFlowTypeOK, SchedulerInv, MapsAgreeWithLists, ControlInv, Orderly, InOrder,
           [Next]_dataFlowVars
    PROVE  InOrder'
<1> USE DEF DataFlowTypeOK
<1>1. SUFFICES ASSUME NEW s \in Schedulers, NEW b \in Buffers, SingleWriter(b), ~overrun'[b],
                      NEW i \in 1..Len(received'[s][b])
               PROVE  received'[s][b][i] = Both(i)
  BY DEF InOrder, SingleWriter, Both
<1>2. ~overrun[b]
  BY <1>1, OverrunStays
<1>3. \A j \in 1..Len(received[s][b]) : received[s][b][j] = Both(j)
  BY <1>1, <1>2 DEF InOrder, Both
<1>4. CASE CopyTail(s, b) /\ Consuming(s, b)
  <2>1. s \in linkedTo[b]
    BY <1>4, ConsumedBuffer DEF Consuming
  <2>2. LinkInv(s, b)
    BY <1>1, <1>2, <2>1 DEF Orderly
  <2>3. CASE ~Pending(s, b)
    BY <1>1, <1>3, <1>4, <2>3, CopyTailLength
  <2>4. CASE Pending(s, b)
    <3> DEFINE n == Len(received[s][b])
               a == advances[s][b]
    <3>1. n = a - 1 /\ a >= 1 /\ buffer[b][currentData[s]] = Both(a) /\ headCopied[s] = a
      BY <1>4, <2>2, <2>4 DEF LinkInv, CopyTail, ConsumeGoto
    <3>2. a \in Nat
      BY DEF BufferTypeOK
    <3>3. received'[s][b][n + 1] = Both(a)
      BY <1>4, <2>4, <3>1, CopyTailLength DEF Both
    <3>4. Len(received'[s][b]) = n + 1 /\ \A j \in 1..n : received'[s][b][j] = received[s][b][j]
      BY <1>4, <2>4, CopyTailLength
    <3> HIDE DEF n, a
    <3>5. n + 1 = a /\ n \in Nat
      BY <3>1, <3>2
    <3>6. CASE i = n + 1
      BY <3>3, <3>5, <3>6
    <3>7. CASE i # n + 1
      <4>1. i \in 1..n
        BY <3>4, <3>5, <3>7
      <4>2. QED
        BY <1>3, <3>4, <4>1 DEF n
    <3>8. QED
      BY <3>6, <3>7
  <2>5. QED
    BY <2>3, <2>4
<1>5. CASE received'[s][b] = received[s][b]
  BY <1>1, <1>3, <1>5
<1>6. received'[s][b] = received[s][b] \/ (CopyTail(s, b) /\ Consuming(s, b))
  <2>1. CASE \/ StartWriters
             \/ JoinWriters
             \/ \E t \in Schedulers : Terminate(t) \/ JoinScheduler(t)
             \/ UNCHANGED dataFlowVars
    BY <2>1, MainLeavesBuffers DEF bufferVars, consumerVars
  <2>2. ASSUME NEW t \in Schedulers, NEW c \in Buffers, Link(t, c)
        PROVE  received' = received
    BY <2>2 DEF Link, consumerVars
  <2>3. ASSUME NEW w \in Writers, StartWrite(w) \/ ContinueWrite(w)
        PROVE  received' = received
    BY <2>3, WritersLeaveThreads DEF ThreadsUnchanged, consumerVars
  <2>4. ASSUME NEW t \in Schedulers, ThreadStep(t)
        PROVE  received'[s][b] = received[s][b] \/ (CopyTail(s, b) /\ Consuming(s, b))
    <3>1. CASE Loop(t)
      BY <3>1 DEF Loop, bufferVars, consumerVars
    <3>2. CASE ConsumptionStep(t) /\ (s # t \/ b # inputBuffer[t])
      BY <3>2, ConsumptionFrame
    <3>3. CASE ConsumptionStep(t) /\ s = t /\ b = inputBuffer[t]
      <4>1. Consuming(s, b)
        BY <3>3, ConsumptionFrame
      <4>2. CopyTail(s, b) \/ received' = received
        BY <3>3 DEF ConsumptionStep, InBuffer, FindMore, Deactivate, Copy, TakeReference,
           TestAdvance, AdvanceConsumer, TestDeactivate, DeactivateConsumer, CopyHead
      <4>3. QED
        BY <4>1, <4>2
    <3>4. QED
      BY <2>4, <3>1, <3>2, <3>3 DEF ThreadStep, ConsumptionStep
  <2>5. QED
    BY <2>1, <2>2, <2>3, <2>4, NextIsLinkOrNot DEF NextButLink
<1>7. QED
  BY <1>4, <1>5, <1>6

LEMMA WriterInvStep ==
    ASSUME DataFlowTypeOK, SchedulerInv, ControlInv, WriterInv, [Next]_dataFlowVars
    PROVE  WriterInv'
<1> USE DEF DataFlowTypeOK
<1>1. ASSUME NEW w \in Writers, StartWrite(w) \/ ContinueWrite(w)
      PROVE  WriterInv'
  BY <1>1, WritersLeaveThreads, WriterStep
<1>2. UNCHANGED <<buffer, writerLocation, writes, writerVars>> => WriterInv'
  BY DEF WriterInv, writerVars, SingleWriter
<1>3. CASE \/ StartWriters
           \/ JoinWriters
           \/ \E t \in Schedulers : Terminate(t) \/ JoinScheduler(t)
           \/ UNCHANGED dataFlowVars
  BY <1>2, <1>3, MainLeavesBuffers DEF bufferVars, ringVars
<1>4. ASSUME NEW s \in Schedulers, NEW b \in Buffers, Link(s, b)
      PROVE  WriterInv'
  BY <1>2, <1>4 DEF Link
<1>5. ASSUME NEW s \in Schedulers, ThreadStep(s)
      PROVE  WriterInv'
  BY <1>2, <1>5, ThreadLeavesWriters
<1>6. QED
  BY <1>1, <1>3, <1>4, <1>5, NextIsLinkOrNot DEF NextButLink

LEMMA DataFlowInitInv == Init => DataFlowInv
<1> SUFFICES ASSUME Init PROVE DataFlowInv
  OBVIOUS
<1>1. DataFlowTypeOK
  BY TypingOfInit
<1>2. SchedulerInv
  BY SchedulerInitInv DEF Init
<1>3. MapsAgreeWithLists
  <2>1. ASSUME NEW s \in Schedulers, NEW b \in Buffers PROVE ~IsLinked(s, b)
    <3>1. EmptyList \in Lists(Buffers) /\ Held(EmptyList) = {}
      BY EmptyListIsWellFormed
    <3>2. ~Contains(EmptyList, b)
      BY <3>1, ContainsIsHeld, BufferAssumption
    <3>3. QED
      BY <3>2 DEF Init, SchedulerInit, IsLinked
  <2>2. QED
    BY <2>1 DEF Init, BufferInit, MapsAgreeWithLists
<1>4. ControlInv
  BY DEF Init, BufferInit, SchedulerInit, ControlInv
<1>5. WriterInv
  BY DEF Init, BufferInit, WriterInv
<1>6. Orderly
  BY DEF Init, BufferInit, Orderly
<1>7. InOrder
  BY DEF Init, BufferInit, InOrder
<1>8. QED
  BY <1>1, <1>2, <1>3, <1>4, <1>5, <1>6, <1>7 DEF DataFlowInv

LEMMA DataFlowNextInv ==
    ASSUME DataFlowInv, SchedulerInv', [Next]_dataFlowVars
    PROVE  DataFlowInv'
<1> USE DEF DataFlowInv
<1>1. DataFlowTypeOK'
  BY TypingStep
<1>2. MapsAgreeWithLists'
  BY MapsAgreeStep
<1>3. ControlInv'
  BY ControlStep
<1>4. WriterInv'
  BY WriterInvStep
<1>5. Orderly'
  BY OrderlyStep
<1>6. InOrder'
  BY InOrderStep
<1>7. QED
  BY <1>1, <1>2, <1>3, <1>4, <1>5, <1>6

(* The invariant holds of every behaviour, for any number of buffers,      *)
(* schedulers, writers, pads and writes.                                   *)
THEOREM DataFlowInvariant == Spec => []DataFlowInv
BY DataFlowInitInv, DataFlowNextInv, DataFlowKeepsSchedulerInv, PTL DEF Spec

(* Every variable keeps its type.                                          *)
THEOREM DataFlowTyping == Spec => []DataFlowTypeOK
BY DataFlowInvariant, PTL DEF DataFlowInv

(* What reaches the sink of a consumer is what its buffer's only writer    *)
(* wrote, in order, without loss, repetition or tearing, as long as no     *)
(* write found the ring full.                                              *)
THEOREM ConsumedInOrder == Spec => []InOrder
BY DataFlowInvariant, PTL DEF DataFlowInv

(* activateFor and deactivateFor never meet a buffer that is not linked.   *)
THEOREM MapsAndListsAgree == Spec => []MapsAgreeWithLists
BY DataFlowInvariant, PTL DEF DataFlowInv

=============================================================================
