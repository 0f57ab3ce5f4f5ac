----------------------------- MODULE RingBuffer -----------------------------
(***************************************************************************)
(* RingBuffer and RingBufferPad: each buffer is a ring of pads, one        *)
(* writerLocation and one location per linked consumer.  The code takes no *)
(* lock, so each read or write of one of these shared words is a step of   *)
(* its own; they interleave freely (sequential consistency is assumed).    *)
(*                                                                         *)
(* A datum is wider than a word: a pad holds two words, head and tail, that*)
(* are written, and copied, one after the other.  The n-th datum written   *)
(* to a buffer is n in both words; 0 is the default constructed T.         *)
(*                                                                         *)
(* The calls from a buffer into its consumers, activateFor and             *)
(* deactivateFor, are left to the module that composes the two (DataFlow). *)
(***************************************************************************)
EXTENDS Naturals, Sequences, Topology

CONSTANTS Writers,           \* the threads that write
          WritesTo,          \* the buffer each of them writes to
          RING_BUFFER_SIZE,
          MaxWrites          \* bound: data written to one buffer

ASSUME RingBufferAssumption ==
    /\ RING_BUFFER_SIZE \in Nat \ {0}
    /\ MaxWrites \in Nat
    /\ WritesTo \in [Writers -> Buffers]

VARIABLES
    buffer,             \* the pads of each buffer
    writerLocation,
    linkedTo,           \* the keys of consumerLocationsMap: the linked consumers
    consumerLocations,  \* its values; 0 for a consumer that is not linked
    writes,             \* data whose writing has begun, on each buffer
    writeAt,            \* where each writer is in write()
    datum,              \* what it writes
    padWritten,         \* the pad it writes on
    nextLocation,       \* what writerLocation->next() gave it
    toNotify,           \* consumers its notification loop has still to visit
    activating,         \* the one among them it is about to activate, if any
    consumeAt,          \* where each consumer is in consumeNextDataFor()
    currentData,        \* the pad the returned reference designates
    headCopied,         \* the word already copied through it
    advances,           \* history: how often each consumer's location moved
    received,           \* history: the data it copied after such a move
    repeats,            \* history: how often it copied without having moved
    overrun             \* history: a write began with a consumer too far behind

writerVars == <<writeAt, datum, padWritten, nextLocation, toNotify, activating>>
consumerVars == <<consumeAt, currentData, headCopied, advances, received, repeats>>
ringVars == <<buffer, writerLocation, linkedTo, consumerLocations, writes, overrun>>
bufferVars == <<ringVars, writerVars, consumerVars>>

Pad   == 0..(RING_BUFFER_SIZE - 1)
Datum == 0..MaxWrites

WriteLocations == {"idle", "writeTail", "loadNext", "storeNext", "notify", "activate"}
ConsumeLocations == {"checkIllegal", "testAdvance", "advance", "testDeactivate",
                     "deactivate", "copyHead", "copyTail"}

BufferTypeOK ==
    /\ buffer \in [Buffers -> [Pad -> [head : Datum, tail : Datum]]]
    /\ writerLocation \in [Buffers -> Pad]
    /\ linkedTo \in [Buffers -> SUBSET Schedulers]
    /\ consumerLocations \in [Buffers -> [Schedulers -> Pad]]
    /\ writes \in [Buffers -> Datum]
    /\ overrun \in [Buffers -> BOOLEAN]
    /\ writeAt \in [Writers -> WriteLocations]
    /\ datum \in [Writers -> Datum]
    /\ padWritten \in [Writers -> Pad]
    /\ nextLocation \in [Writers -> Pad]
    /\ toNotify \in [Writers -> SUBSET Schedulers]
    /\ activating \in [Writers -> SUBSET Schedulers]
    /\ consumeAt \in [Schedulers -> ConsumeLocations]
    /\ currentData \in [Schedulers -> Pad]
    /\ headCopied \in [Schedulers -> Datum]
    /\ advances \in [Schedulers -> [Buffers -> Nat]]
    /\ received \in [Schedulers -> [Buffers -> Seq([head : Datum, tail : Datum])]]
    /\ repeats \in [Schedulers -> [Buffers -> Nat]]

BufferInit ==
    /\ buffer = [b \in Buffers |-> [p \in Pad |-> [head |-> 0, tail |-> 0]]]
    /\ writerLocation = [b \in Buffers |-> 0]
    /\ linkedTo = [b \in Buffers |-> {}]
    /\ consumerLocations = [b \in Buffers |-> [c \in Schedulers |-> 0]]
    /\ writes = [b \in Buffers |-> 0]
    /\ overrun = [b \in Buffers |-> FALSE]
    /\ writeAt = [w \in Writers |-> "idle"]
    /\ datum = [w \in Writers |-> 0]
    /\ padWritten = [w \in Writers |-> 0]
    /\ nextLocation = [w \in Writers |-> 0]
    /\ toNotify = [w \in Writers |-> {}]
    /\ activating = [w \in Writers |-> {}]
    /\ consumeAt = [c \in Schedulers |-> "checkIllegal"]
    /\ currentData = [c \in Schedulers |-> 0]
    /\ headCopied = [c \in Schedulers |-> 0]
    /\ advances = [c \in Schedulers |-> [b \in Buffers |-> 0]]
    /\ received = [c \in Schedulers |-> [b \in Buffers |-> <<>>]]
    /\ repeats = [c \in Schedulers |-> [b \in Buffers |-> 0]]

-----------------------------------------------------------------------------
(* Faulty: the pads are a chain, not a ring. *)
NextPadUnchained(p) == p + 1

(* chainPadsInBuffer: the last pad leads back to the first. *)
NextPad(p) == IF p = RING_BUFFER_SIZE - 1 THEN 0 ELSE p + 1

IsAtWriterLocation(c, b) == consumerLocations[b][c] = writerLocation[b]

(* addLinkIfNoneExists: a new consumer starts at the first pad. *)
AddLinkIfNoneExists(c, b) ==
    /\ linkedTo' = [linkedTo EXCEPT ![b] = linkedTo[b] \cup {c}]
    /\ consumerLocations' = [consumerLocations EXCEPT
           ![b][c] = IF c \in linkedTo[b] THEN consumerLocations[b][c] ELSE 0]

(* c's location has moved since it took its reference. *)
HasAdvanced(c, b) == consumerLocations[b][c] # currentData[c]

-----------------------------------------------------------------------------
(* write(data), by the thread w. *)

WriteGoto(w, from, to) == writeAt[w] = from /\ writeAt' = [writeAt EXCEPT ![w] = to]

SomeConsumerTooFarBehind(b, n) ==
    \E c \in linkedTo[b] : n - advances[c][b] >= RING_BUFFER_SIZE

(* writerLocation->write: nothing looks at where the consumers are.  Only  *)
(* the history variable overrun notes that one of them had already         *)
(* RING_BUFFER_SIZE - 1 data to consume, all the ring can hold.            *)
BeginWrite(w) ==
    LET b == WritesTo[w]
        p == writerLocation[b]
        n == writes[b] + 1
    IN  /\ n <= MaxWrites
        /\ WriteGoto(w, "idle", "writeTail")
        /\ writes' = [writes EXCEPT ![b] = n]
        /\ datum' = [datum EXCEPT ![w] = n]
        /\ padWritten' = [padWritten EXCEPT ![w] = p]
        /\ buffer' = [buffer EXCEPT ![b][p] = [head |-> n, tail |-> buffer[b][p].tail]]
        /\ overrun' = [overrun EXCEPT
               ![b] = overrun[b] \/ SomeConsumerTooFarBehind(b, n)]
        /\ UNCHANGED <<writerLocation, linkedTo, consumerLocations, nextLocation, toNotify,
                       activating, consumerVars>>

FinishPad(w) ==
    LET b == WritesTo[w]
        p == padWritten[w]
    IN  /\ WriteGoto(w, "writeTail", "loadNext")
        /\ buffer' = [buffer EXCEPT ![b][p] = [head |-> buffer[b][p].head, tail |-> datum[w]]]
        /\ UNCHANGED <<writerLocation, linkedTo, consumerLocations, writes, overrun, datum,
                       padWritten, nextLocation, toNotify, activating, consumerVars>>

(* writerLocation = writerLocation->next() is a load and a store: threads  *)
(* that write to the same buffer may both load before either stores.       *)
LoadNextLocation(w) ==
    /\ WriteGoto(w, "loadNext", "storeNext")
    /\ nextLocation' = [nextLocation EXCEPT ![w] = NextPad(writerLocation[WritesTo[w]])]
    /\ UNCHANGED <<ringVars, datum, padWritten, toNotify, activating, consumerVars>>

(* Faulty: nobody is notified. *)
StoreUnnotified(w) ==
    LET b == WritesTo[w]
    IN  /\ WriteGoto(w, "storeNext", "idle")
        /\ writerLocation' = [writerLocation EXCEPT ![b] = nextLocation[w]]
        /\ UNCHANGED <<buffer, linkedTo, consumerLocations, writes, overrun, datum, toNotify,
                       padWritten, nextLocation, activating, consumerVars>>

(* The store shows the datum to the consumers; then they are notified. *)
StoreWriterLocation(w) ==
    LET b == WritesTo[w]
    IN  /\ WriteGoto(w, "storeNext", IF linkedTo[b] = {} THEN "idle" ELSE "notify")
        /\ writerLocation' = [writerLocation EXCEPT ![b] = nextLocation[w]]
        /\ toNotify' = [toNotify EXCEPT ![w] = linkedTo[b]]
        /\ UNCHANGED <<buffer, linkedTo, consumerLocations, writes, overrun, datum,
                       padWritten, nextLocation, activating, consumerVars>>

(* One turn of notifyConsumersIfAnyDataIsPresent, in the map's own order:  *)
(* only a consumer that is elsewhere than the writer is activated ...      *)
Visited(w, c) == toNotify' = [toNotify EXCEPT ![w] = toNotify[w] \ {c}]
NextTurn(w, c) == IF toNotify[w] = {c} THEN "idle" ELSE "notify"

(* Faulty: the loop ends at a consumer that has nothing to consume. *)
VisitUntilIdleConsumer(w, c) ==
    /\ c \in toNotify[w]
    /\ IF IsAtWriterLocation(c, WritesTo[w])
         THEN /\ WriteGoto(w, "notify", "idle")
              /\ toNotify' = [toNotify EXCEPT ![w] = {}]
              /\ UNCHANGED activating
         ELSE /\ WriteGoto(w, "notify", "activate")
              /\ activating' = [activating EXCEPT ![w] = {c}]
              /\ UNCHANGED toNotify
    /\ UNCHANGED <<ringVars, datum, padWritten, nextLocation, consumerVars>>

VisitConsumer(w, c) ==
    /\ c \in toNotify[w]
    /\ IF IsAtWriterLocation(c, WritesTo[w])
         THEN /\ WriteGoto(w, "notify", NextTurn(w, c))
              /\ Visited(w, c)
              /\ UNCHANGED activating
         ELSE /\ WriteGoto(w, "notify", "activate")
              /\ activating' = [activating EXCEPT ![w] = {c}]
              /\ UNCHANGED toNotify
    /\ UNCHANGED <<ringVars, datum, padWritten, nextLocation, consumerVars>>

(* ... by a call that is a later step: activateFor must be conjoined. *)
ActivateConsumer(w, c) ==
    /\ c \in activating[w]
    /\ WriteGoto(w, "activate", NextTurn(w, c))
    /\ Visited(w, c)
    /\ activating' = [activating EXCEPT ![w] = {}]
    /\ UNCHANGED <<ringVars, datum, padWritten, nextLocation, consumerVars>>

-----------------------------------------------------------------------------
(* consumeNextDataFor(c) on b, then the copy its caller makes.             *)

ConsumeGoto(c, from, to) ==
    consumeAt[c] = from /\ consumeAt' = [consumeAt EXCEPT ![c] = to]

(* throwErrorIfIllegalConsumption writes a message and goes on; consumeFor *)
(* takes a reference to the pad.                                           *)
IllegalConsumption(c, b) == consumeAt[c] = "checkIllegal" /\ IsAtWriterLocation(c, b)

TakeReference(c, b) ==
    /\ ConsumeGoto(c, "checkIllegal", "testAdvance")
    /\ AddLinkIfNoneExists(c, b)
    /\ currentData' = [currentData EXCEPT ![c] = consumerLocations'[b][c]]
    /\ UNCHANGED <<buffer, writerLocation, writes, overrun, writerVars,
                   headCopied, advances, received, repeats>>

(* Faulty: the location moves in any case. *)
AdvanceUntested(c, b) ==
    /\ ConsumeGoto(c, "testAdvance", "advance")
    /\ UNCHANGED <<ringVars, writerVars, currentData, headCopied, advances, received, repeats>>

TestAdvance(c, b) ==
    /\ ConsumeGoto(c, "testAdvance",
                   IF IsAtWriterLocation(c, b) THEN "testDeactivate" ELSE "advance")
    /\ UNCHANGED <<ringVars, writerVars, currentData, headCopied, advances,
                   received, repeats>>

AdvanceConsumer(c, b) ==
    /\ ConsumeGoto(c, "advance", "testDeactivate")
    /\ consumerLocations' = [consumerLocations EXCEPT ![b][c] = NextPad(consumerLocations[b][c])]
    /\ advances' = [advances EXCEPT ![c][b] = advances[c][b] + 1]
    /\ UNCHANGED <<buffer, writerLocation, linkedTo, writes, overrun, writerVars,
                   currentData, headCopied, received, repeats>>

TestDeactivate(c, b) ==
    /\ ConsumeGoto(c, "testDeactivate",
                   IF IsAtWriterLocation(c, b) THEN "deactivate" ELSE "copyHead")
    /\ UNCHANGED <<ringVars, writerVars, currentData, headCopied, advances,
                   received, repeats>>

(* The call to deactivateFor must be conjoined. *)
DeactivateConsumer(c) ==
    /\ ConsumeGoto(c, "deactivate", "copyHead")
    /\ UNCHANGED <<ringVars, writerVars, currentData, headCopied, advances,
                   received, repeats>>

(* Faulty: what is copied is at the location that has just moved. *)
CopyHeadAtLocation(c, b) ==
    /\ ConsumeGoto(c, "copyHead", "copyTail")
    /\ headCopied' = [headCopied EXCEPT ![c] = buffer[b][consumerLocations[b][c]].head]
    /\ UNCHANGED <<ringVars, writerVars, currentData, advances, received, repeats>>

(* auto data = consumeNextDataFor(this): the reference is copied only now. *)
CopyHead(c, b) ==
    /\ ConsumeGoto(c, "copyHead", "copyTail")
    /\ headCopied' = [headCopied EXCEPT ![c] = buffer[b][currentData[c]].head]
    /\ UNCHANGED <<ringVars, writerVars, currentData, advances, received, repeats>>

CopyTail(c, b) ==
    LET data == [head |-> headCopied[c], tail |-> buffer[b][currentData[c]].tail]
    IN  /\ ConsumeGoto(c, "copyTail", "checkIllegal")
        /\ IF HasAdvanced(c, b)
             THEN /\ received' = [received EXCEPT ![c][b] = Append(received[c][b], data)]
                  /\ UNCHANGED repeats
             ELSE /\ repeats' = [repeats EXCEPT ![c][b] = repeats[c][b] + 1]
                  /\ UNCHANGED received
        /\ UNCHANGED <<ringVars, writerVars, currentData, headCopied, advances>>

=============================================================================
