# SensorGateway in TLA+

SensorGateway reads messages and raw data from a sensor (AWL over CAN, Guardian
over USB), translates them to a common structure and sends them to a server. This
directory specifies how it moves data between its threads, how it connects, fails,
recovers and ends, and how it translates; it model-checks that with TLC and proves every
safety property the runs check with TLAPS, for all values of the constants. Paths below are relative to
`src/sensor-gateway/`.

## 1. Inventory

### How the program is built

`SensorAccessLink` owns three elements and five scheduler threads:

    sensor -> SensorCommunicator --Message--> [scheduler] DataTranslator --Message--> [scheduler] ServerCommunicator -> server
              (own thread)       --RawData--> [scheduler]                --RawData--> [scheduler]
                    |                                |                                       |
                    +----Error----------+----Error---+------------Error----------------------+
                                        v
                              [errorScheduler] SensorAccessLink::consume(Error)

Every arrow is one `RingBuffer` (inside a `DataSource`) and one
`DataProcessingScheduler` that consumes from it; `errorScheduler` consumes from
three. The threads: the communicator's own, one for each scheduler, the main thread,
and a detached thread after a fatal error.

| component | its state | its operations | what is hard | what makes it correct |
|---|---|---|---|---|
| `common/container` lists | slots, two markers, an atomic count | `store`, `remove`, `contains`, `readNextPointerToConsume`, `consumeNext` | markers that skip or stick, the count read without the lock | the count is the number of occupied slots, nothing is held twice, a marker always finds a slot, what came first is read first |
| `RingBuffer`, `RingBufferPad` | 256 pads, `writerLocation`, a location for each consumer | `write`, `linkWith`, `consumeNextDataFor` | no lock at all: a reference returned after the location moved, a lapped consumer, a stale test before `activateFor` and `deactivateFor` | data arrive whole, once, in order; what is written is eventually consumed |
| `DataProcessingScheduler` | the two lists of linked buffers, a count, the termination order, a thread | `linkWith`, `activateFor`, `deactivateFor`, `terminateAndJoin`, the loop | calls from many threads, a loop that reads without the mutex, an exit condition made of two reads | a linked buffer is in exactly one list, the loop never throws, the order is obeyed, nothing ready is abandoned |
| `SensorCommunicator` | a thread, the termination order | `start`, the fetch loop, `handleCaughtError`, `terminateAndJoin` | errors that close and open the connection again, recursively; closing before the flag is set, with a transfer under way | it ends when ordered to unless the device keeps it waiting; handlers nest no deeper than the device fails |
| `ServerCommunicator` | the address | `openConnection`, `consume`, `closeConnection` | a second failure inside a `noexcept` handler; two threads | a failure is reported and survived; data are sent over an open connection |
| `DataTranslator`, translation strategies | the message under construction | `translateMessage`, `translateRawData` | a velocity whose track was lost or refused, a full pixel, a frame's remains in the next, the sign of narrow integers | a message holds what arrived since the last end of frame |
| `SensorAccessLinkError`, factories | none | severity and category predicates, tables | which error closes, opens, ends | the classes agree with each other |
| sensor strategies | connection handles, counts of what can be fetched | `openConnection`, `fetch...`, `closeConnection` | counts left from a failed query, a handle closed by another thread, a destructor that closes again | what is fetched is what was announced; a context is exited once |
| `SensorAccessLink` | all of the above | `start`, `terminateAndJoin`, `consume(Error)`, the destructor | two threads that terminate at once, the order of the joins, strategies destroyed first | every thread is joined once, nothing ready is left in a buffer and nothing open |
| Spirit message, timestamps | tracks in pixels in a message, time points | `addTrack`, `fetchTrackById`, `updatePixelId`, copies and assignments | two arrays with counters, copies that are not the whole | what is added is found, and nothing else |
| `HighIntegrityThread` | a `std::thread` | `exitSafely`, move assignment | a joined thread joined again | joinable threads are joined, detachable ones detached |

`PROJECT.json` lists the hazards line by line, each with the properties that watch it.

## 2. The modules

| module | what it models |
|---|---|
| `Topology` | the constants both sides of a `ConsumerLink` share |
| `PointerList` | the list containers, as operators on a list value |
| `DataProcessingScheduler` | the scheduler, its two lists and its thread's loop; the buffers are an environment that may activate at any time |
| `RingBuffer` | ring buffers, the steps of `write` and of `consumeNextDataFor` |
| `DataFlow` | both together, with the main thread that links, starts, terminates and joins |
| `LinkQueue` | the promise of a link, a bounded queue from its buffer's writer to its sink; `DataFlow` implements it |
| `CallStack` | the steps a thread has left, and where an exception goes |
| `AccessLinkErrors` | `SensorAccessLinkError`'s predicates and the tables of the factories |
| `SensorCommunicator` | `start`, `run`, `terminateAndJoin`, `handleCaughtError`, in the user's thread and the communicator's |
| `GuardianUSB`, `KvaserCan` | the two sensor strategies, over external libusb and canlib |
| `SensorLink` | the communicator composed with either strategy |
| `ServerCommunicator` | the calls of the server's strategy and `handleError` |
| `AccessLink` | `SensorAccessLink` from construction to destruction, over `ServerCommunicator`, with every thread |
| `Conversions` | bytes to integers and back, with their widths |
| `SpiritMessage` | tracks, pixels, messages and time points |
| `Translation` | the sensor, `DataTranslator` with either strategy, and what the server's communicator gets |
| `FrameAssembly` | the promise of a translation strategy; `Translation` implements it |
| `MCDataProcessingScheduler`, `MCDataFlow`, `MCSensorLink`, `MCAccessLink`, `MCTranslation` | small values for TLC |
| `PointerListProofs`, `DataProcessingSchedulerProofs`, `DataFlowProofs`, `NotificationProofs`, `AccessLinkProofs`, `TranslationProofs`, `SensorStackProofs`, `SensorLinkProofs` | the theorems |

**Granularity.** A method that runs under `inputBufferStatusMutex` is one step:
`LinkWith`, `ActivateFor`, `DeactivateFor`. Everything the code does without a lock is
one step per access to a shared word: `cannotExitSafely` is `ReadIsEmpty` then
`ReadTerminateOrder`; `write` is `BeginWrite` and `FinishPad` (a datum is wider than a
word, so a pad has a head and a tail), `LoadNextLocation`, `StoreWriterLocation`, then for
each consumer `VisitConsumer` (the test) and `Activate` (the call); `consumeNextDataFor` is
`TakeReference`, `TestAdvance`, `AdvanceConsumer`, `TestDeactivate`, `Deactivate`, and the
caller's copy through the returned reference is `CopyHead` and `CopyTail`. `writerLocation`
and the locations are plain pointers in the code, so a build could do worse than
interleave these accesses; the model assumes sequential consistency.

In `SensorCommunicator` a thread's program is data: `pending[t]` is the sequence of steps
thread t has left, a call puts the body of the callee in front, and the marks `"catch"` and
`"return"` bound try blocks and error handlers. `Raise` is the whole of a `catch` clause: it
drops the steps up to the try block's end and puts those of `handleCaughtError` there.
`Depth` counts the open handlers, which is the recursion of
`sensor-communication/SensorCommunicator.hpp:157`. A bulk transfer of `GuardianUSB` is two steps, the test
of the handle (`ThrowDeviceNotFoundErrorIfNeeded`) and its use, since the main thread may
close between them; `closeConnection` is `CloseUSB` and `ForgetHandle`, with
`closingMutex` for its `LockGuard`. Each library call may succeed or throw any
error that its factory can make, and a call with a handle that is closed may do anything:
then it is `Undefined`, which ends the process in the model. Nobody looks at what `libusb_init`
returns: `InitContext` may leave the context as it was. The loop that empties the device
(`setupCleanConnection`) goes round for as long as transfers bring something:
`SetupCleanConnection` and `ReceiveTrash` follow each other until one brings nothing or throws.

In `KvaserCan`, `canOpenChannel` opens the channel under any handle, or fails for want
of a device and leaves nothing open; its handle is not looked at, and the settings that follow throw
`canERR_INVHANDLE`. The channel that is read and closed is the member's, 0 for ever.
`DestroyStrategy` is the destructor's close, in no try block.

In `AccessLink` each scheduler has a ready buffer or none (`backlog`), and its loop is the code's in coarse
steps: `ReadIsEmpty` and `ReadOrder` are the two reads of `cannotExitSafely`, with any
steps of others between them; `TakeData` or `TakeError` is a look at the list that finds something, and the
consumption is a step of its own. A write (`Write`) activates its scheduler, or comes between the test
and the deactivation with which a consumption ends, and is lost to it: `DataFlow` has the ring
steps behind that, and an activation that comes late is there a repetition, here one more write.
`awaitingErrors` holds the kinds of errors in the three error buffers, ready or not: a kind whose activation was lost
may wait there for the next. `TerminateAndJoin` is the list of its calls, with
`pc[t]` where terminator t is in it; `exitSafely`'s test of `joinable` and the join are two
steps. `ended` says what ended the process: `"noexcept"` an exception out of
`handleError`, `"joinedTwice"`, `"usedAfterDestruction"` a detached thread that outlives
the link, `"destroyedStrategy"` a call to a strategy that is gone. An error is only what
`consume(Error)` tells apart, `"fatal"` or `"minor"`.

In `Translation` a message of the sensor is its id and eight bytes, which the strategies
read as the code does, with their offsets and conversions. Floating point numbers are
pairs of a numerator and the denominator they are divided by.

**What stands for what.** Buffers, schedulers and writers are model values. The n-th datum
written to a buffer is the number n in both words of a pad. `threadAt` and `writeAt`,
`consumeAt` are where the threads are in the code. `overrun`, `missed`, `advances`,
`received` and `repeats` are history variables: nothing in a guard reads them.
`overrun[b]` becomes true when a write to b begins while a consumer has
`RING_BUFFER_SIZE - 1` data still to consume; `missed` holds a consumer and its buffer from a
deactivation made with data in the buffer until the next activation call.

`failures`, `terminations`, `severe`, `queried`, `fresh`, `staleExit`, `usedAfterClose`, `initFailed`,
`closeThrew` and `opener` are the history of `SensorLink`, `raced`, `launched`, `fatalErrors` and
`fatalConsumed` that of `AccessLink`, `sensorFrame`, `lastFrame`, `messages`, `faults` and `rejected` that of
`Translation`; guards read only those that are counted against a bound, and those
that are the sensor's own state.

**Environment.** The producers decide when they write. Once a sink has been handed a datum,
it returns. `SensorAccessLink` starts the writers after all links are made, and joins them
before it terminates a scheduler; `JoinWriters` waits for the writes under way. Writers in `Closers` are
not waited for: they are threads that close a connection, the server's between the joins of one
termination, and both in a second one (`application/SensorAccessLink.hpp:97` and `:102`), and whose errors
may come when the error scheduler has been joined. The
termination orders may come in any sequence, which includes the one of the code; what the
sequence of the code is good for is the subject of `AccessLink`. The user calls `start`
once, then `terminateAndJoin` by hand or not, then the destructor. The sensor of `Translation`
sends a track before its velocity, each at most once in a frame, and numbers pixels
as the message does.

**Operators marked "Faulty"** stand before some definitions. They are those definitions
with a mistake somebody could make in the code; no specification uses them. `PROJECT.json`
pairs each property with one that violates it.

## 3. The runs

All runs set `CHECK_DEADLOCK FALSE`: after the schedulers are joined, or with every message
that the bound allows translated, the system stops.

| run | instance | what it shows |
|---|---|---|
| `scheduler` | a list size of 3, 4 buffers that are interchangeable, all reachable states | see below |
| `one_buffer` | a ring of 3 pads, 5 writes, fairness | safety and liveness of one producer and one consumer; `LinkQueue` is implemented |
| `two_consumers` | one buffer of 2 pads, 3 writes by a thread that closes, two interchangeable schedulers | the notification loop, linking, what a late close does; `DataProcessingScheduler` is implemented |
| `sensor_link` | either strategy, 2 failures, 2 terminations, 2 data announced and 1 fetched at once, a stack of 4 handlers, fairness | the recursion of errors, termination against transfers, the destructor over CAN |
| `access_link` | all schedulers, a sensor that delivers messages, one fatal error, 2 errors of the server | who terminates what, in which order, and what is left |
| `translation` | 2 pixels of 2 tracks, 3 tracks, 2 speeds, 5 messages, 1 fault; raw data with and without a negative sample | frames arrive whole; `FrameAssembly` is implemented; what raw data keep |
| `ready_order` | as `scheduler` | section 4 |
| `raw_data_endianness` | raw data with and without a negative sample | section 4 |
| `illegal_consumption`, `exit_race`, `lost_activation`, `shared_error_source` | one scheduler and buffer, a ring of 3, 2 writes | the code departs from what the repository says, section 4 |

*The bounds.* A list of three with a fourth buffer fills up and refuses; three slots give
markers that wrap around, skip and stick, which is all they can do. A ring of 3 pads takes
its consumer through empty, one datum, full and lapped, and five writes go once around the
ring and most of a second time, so every pad is used for a second datum while its first may still be being
copied. In a ring of two every write but the first needs the consumer to have moved. The writer of
`two_consumers` is one of the `Closers`, so it writes whenever others do and after the termination too;
that a scheduler of several inputs is used as specified is `DataFlowUsesSchedulers`.
`MaxWrites` is the only bound on behaviours of `DataFlow`; a scheduler's loop turns for ever and needs none.

For `sensor_link`: two failures are one inside the handler of another, which is where each
nesting of close and open is; two terminations are one by hand and the destructor's.
A device that is absent is one failure of an open; the
failures that follow, of a CAN channel that is not open, count against no bound, so the recursion that
does not end is there, and `STACK_LIMIT` of 4, which is more than two failures can
nest, cuts it. The theorems hold for any number of failures, terminations and handles, and any size of
the stack. Handles 0 and 1 are the one the member holds and any other. For `access_link`: two
errors of the server are the one that is handled and one in the handler. A fatal error is
one detached thread, which races with the user's. A sensor that delivers messages only leaves
the schedulers of raw data with nothing to consume, though they are started, ordered and joined:
they treat their data as those of messages do. The theorems have neither bound. For `translation`:
three tracks overflow a pixel of two; five messages are a frame of three and its end, with one to
spare, or two frames whose ids and tracks may repeat; one fault loses or repeats any of
them. The real sizes are 16 pixels of 16 tracks. A message is translated before the sensor sends the
next, and a frame is sent to the server before the next one ends: what happens when
a consumer is slower is what `DataFlow` shows, and is here the fault.

*Properties.* `LinkPartition`, `ThreadNeverThrows`, `ConsumedBufferIsReady` say why the
scheduler may look at its lists without holding its mutex across the two calls: only its own
thread ever takes a buffer out of the ready list. `ReadyOrderIsKept` is what is left of the FIFO
that the list's comment promises: slots are reused and a removal moves no marker, so which
buffer is next follows from where the two markers are; a buffer that is ready is passed by none that is activated
after it, unless an activation fills the list (`ready_order`, section 4).
`InOrder` is the central promise of the ring. `DataLeavesBufferReady` says exactly how a
datum can be left behind, `RepeatsBoundedByWrites` how often a stale pad can be handed on,
`ConsumerStaysBehindWriter` that no pad is passed before it is published.
`MapsAgreeWithLists` is why `activateFor` and `deactivateFor` never throw.
`JoinedSchedulerIsQuiet` is why a sink may be destroyed after the join: nothing more reaches it, also when
a later close writes an error into a buffer of the joined scheduler and makes that buffer ready.
`SeenEmptyIsDrained` is the safe half of `DrainsBeforeFinishing`: once the writers are joined, a
thread that finds its list empty has handed on all they wrote, so that only a look at
`isEmpty()` from before the join can make it finish with data left.
`LinksAreQueues` is the refinement of `LinkQueue` and says what rings, locations, notifications and both lists
are for: seen from a sink, a link whose buffer has one writer is a queue of at most
`RING_BUFFER_SIZE` data. The mapping takes what is published and not yet copied for `queue`; the store of
`writerLocation` is `Publish`, a write that finds a consumer with a full ring is `Spoil`, the copy after
a move is `Deliver` and a copy without one `Repeat`. All other steps stutter. A spoiled queue still keeps its
order of lengths: each `Deliver` takes one datum out of it, though not the right one.
`TerminationIsObeyed`, `ReadyDataAreConsumed` and `DrainsBeforeFinishing` are liveness.

`RecursionNeedsFailures` bounds how deep error handlers nest, and names the one
exception: a CAN channel that is not open. There `closeConnection` throws
`canERR_INVHANDLE`, whose handler closes first, which throws again, until the stack is
exhausted. A device that is absent when the connection is opened is enough: `canOpenChannel` fails, the setting
after it throws, and its handler closes what is not open. The second `closeConnection` of a link that was terminated by hand, in the destructor, is
enough, and so is a channel whose handle is not the 0 that the member keeps, because
`openConnection` puts it into a local variable
(`sensor-communication/KvaserCanCommunicationStrategy.cpp:42`).
`ContextIsExitedOnce` and `HandleIsOpenWhenUsed` say which use of libusb is safe: all that errors
lead to, until an error after which nothing is opened again or a termination, which waits for
no transfer; and no context is exited twice but for those, and for a `libusb_init` that failed unnoticed.
`OpenAfterJoinOnlyByRecovery` explains how a link over either connection can be
connected after `terminateAndJoin`: the communicator's thread met the connection closed and took that for a failure,
or main's own close threw, and `handleCaughtError` closed and opened again in main's thread, which over CAN
a termination's close may do.
`DestructionNeedsReopening` is what that means for the CAN strategy's destructor, which closes once more and
is `noexcept`: after a termination the channel is normally closed, the close throws, and the process ends
(`DestroyStrategy`). It is only such a connection, opened again behind the termination, that lets the destructor return.
The comment beside it admits as much: "The destructor should be noexcept, this is not"
(`sensor-communication/KvaserCanCommunicationStrategy.cpp:37`).
`RawDataAreRequestedAsAnnounced` follows two members over failed queries and new
connections. `TerminationWaitsOnlyForDevice` is liveness: a thread that waits for a device
that never answers, or that never stops sending while it is emptied, is all that can keep
`terminateAndJoin` from returning.

`OneMinorErrorIsSurvived` lists what it takes to end the process otherwise than by its own
strategies: a fatal error that detached a thread, or two errors of the server, the
second in a `noexcept` handler. `SendsFindTheConnectionOpen` and `OnlyRacesLeaveReadyData`
are why `terminateAndJoin` names its elements in that order, with the exceptions the
model found. When termination has returned every thread has ended; a scheduler of data has a ready buffer left only if
it was written to between its last look at its list and that at its order (`raced`, what `exit_race`
exhibits in detail), the error scheduler also when another termination closes the connections after it was joined; and a
close of the server that fails may open the connection again. It speaks of buffers that are ready: data whose
activation was lost (`lost_activation`) are left in a buffer that is not. `JoinWaitsForBacklogOnly` is what a join may
find: a thread told to end, whose sources produce no more. It covers the fatal error that comes while
`start` opens the connection: its thread finds no communicator to join, and the one launched
afterwards takes no turn, as the order is tested before the first. It is also why the
thread of a fatal error is detached: the error scheduler, which started it, is
joined by it.

`FramesAreWhole` follows a frame from the sensor to `sendMessage`: nothing lost, nothing
left over from the one before, speeds with their tracks. It also says that a frame leaves with
one time point: a copy of a `SensorMessage` drops those it had
(`common/data-structure/spirit/SensorMessage.hpp:42`), the translator's included.
`VelocityFindsItsTrack` says when `fetchTrack`'s null pointer is followed: only after a lost,
repeated or refused message. `FramesAreAssembled` is the refinement of `FrameAssembly`: there a frame is a
sequence of detections for each pixel; the mapping takes the slots below a pixel's
counter, from the message under construction for `assembling` and from the pad for `produced`. It holds
whatever is lost or repeated.
`OnlySignsAreLost` is what the raw data do keep where they are not what the code says of them (section 4): every
sample is in its channel's place with its high byte now the low one, and what arrives as the high byte is its low one if
it is not negative, and 0xFF if it is.

*Fairness.* `FairSpec` has weak fairness of each scheduler's loop and of each write that has
begun: the operating system runs every thread that can run, `LockGuard`s are held for
a bounded time, and sinks return. Nothing obliges a producer to write, nor the main thread
to terminate anything. `SensorLink`'s has weak fairness of each thread's steps, but not where it
waits for the device: a bulk transfer and `canReadWait` have no timeout.
`AccessLink` and `Translation` state no fairness, since all their properties are safety.

## 4. Where the code departs from what the repository says

Each is a run that TLC ends with a counterexample.

- `illegal_consumption`. The writer tests whether a consumer is elsewhere and then calls
  `activateFor`; meanwhile the consumer may have consumed that datum and deactivated. It is
  activated for nothing, consumes on the writer's location, prints "Illegal consumption,
  execution should not reach this point" and hands a stale pad to its sink.
- `lost_activation`. The consumer tests whether it has reached the writer and then calls
  `deactivateFor`; a write may publish and notify in between. The buffer is then not ready
  with a datum in it, until the next write, if there is one.
- `ready_order`. `ConstantSizedPointerList` "acts as a basic FIFO container"
  (`common/container/ConstantSizedPointerList.hpp:27`). In a list that was full, the slot of the buffer
  that has just been consumed from and deactivated is the only free one, and the consumer marker is still on it: activated
  again, that buffer is read before the ones that have waited longer. Of the link's schedulers,
  `errorScheduler` has three inputs and may fill its list.
- `exit_race`. `isEmpty()` is read, then data arrive and the order is given, then the order is
  read: the thread finishes with a ready buffer.
- `shared_error_source`. The error source of `DataTranslator` is a plain `RingBuffer` that
  two scheduler threads write to; `ThreadSafeRingBuffer` is for that, and is not used. Data
  are torn, overwritten or repeated.
- `raw_data_endianness`. `reverseEndiannessOfInt16`
  (`common/ConstantFunctionsDefinition.h:36`) shifts the high byte down as an `int16_t`: a negative
  sample extends its sign over the low byte, which is lost, though the strategy
  says that the data "should become big-endian". The test of it expects what the same function
  returns.

`InOrder` and the liveness properties set these cases aside by name (`overrun`, `missed`,
`SingleWriter`), so that they say what holds outside them.

## 5. What is proved

For every number of buffers, schedulers and writers, any links between them, any list size
from 1 to 255 and any ring size, with the `ASSUME`s of the modules only:

- `PointerListProofs`: `MarkerPlacement` (advancing a marker reaches the
  first slot of a set), `StoreAdds`, `RemoveTakesOut`: what `store` and `remove` do to the
  set of pointers held, and that the count stays right.
- `DataProcessingSchedulerProofs`: `SchedulerInvariant` and from it `SchedulerTyping`,
  `LinkedBuffersArePartitioned`, `SchedulerThreadNeverThrows`,
  `ConsumptionIsFromReadyBuffer`. The invariant adds to these what ties them together: where
  the thread is tells whether the ready list may be empty, and the buffer it consumes from is
  in the list. `ThreadNeverThrows` is inductive because
  `deactivateFor` is called by the thread itself, between `readNext` and the next test.
- `DataFlowProofs`: `DataFlowUsesSchedulers`: a step of the composition is a step of the
  scheduler alone or leaves it unchanged, so what is proved of `SchedulerSpec` holds of
  `Spec`. `MapsAndListsAgree` and `DataFlowTyping` come from the control invariant, which
  relates where a thread is in the buffer's code and in the scheduler's. `ConsumedInOrder` proves
  `InOrder`. Its invariant speaks of one link whose buffer has one writer and is not overrun:
  the consumer's location and the writer's are `advances` and `Published` pads from the
  first, modulo the ring; `Unread` lies between 0 and `RING_BUFFER_SIZE - 1`; each pad from the consumer's
  location to the writer's holds the datum its number says, whole; and between moving and
  copying, the pad of the reference still holds the datum moved over. The last holds because a
  write to that pad would need a consumer a whole ring behind, which is what
  `overrun` records. Nothing weaker than the last two is inductive.

- `DataProcessingSchedulerProofs`, again: `ReadyBuffersKeepTheirOrder` proves the action property
  `ReadyOrderIsKept`, for any size of list. What a buffer's turn is depends on both markers, so the proof needs to know
  where slots are occupied: `QueueShape` says that they are from behind the consumer marker to before the
  producer marker without a gap, and nowhere else, or everywhere but perhaps where both markers are. It is
  inductive because only the buffer at the consumer marker is ever removed, which `ConsumedBufferIsReady` and the order itself
  give. `StoreKeepsOrder`, `RemoveKeepsOrder`, `ReadKeepsOrder` are one lemma for each
  operation of the list.
- `NotificationProofs`, on the invariants of `DataFlowProofs`. `DataAreNoticed` proves
  `DataLeavesBufferReady`, for any number of writers: it is inductive by itself once the
  control invariant is there, because the step that makes a buffer differ from its consumer's
  location is the store, which leaves every consumer to be visited. `JoinedIsQuiet` follows from an
  invariant of the order of a link's end: no scheduler is joined before the writers that do not close are, nor before its
  thread has finished, and a thread that has finished takes no step; a step of a writer is then one of a closer's. `ConsumersStayBehind` relates
  both locations to the counts by their distance from the first pad,
  modulo the ring; `advances` is strictly below `Published` at the step between the consumer's test and
  its move. `RepeatsAreBounded` needs more: which write an activation under way is for, and that
  the consumption that finds nothing can be charged to a write that no other repetition
  was charged to. `RepeatsBoundedByWrites` is about a buffer with one writer: with two, the
  activations of one write are not distinguished from those of the other, and two writes may
  publish one pad.
  `EmptyMeansDrained` proves `SeenEmptyIsDrained`, for buffers that no close writes to, from three of these: a link that exists since before the
  writers started (`LinkedInv`), a list without the buffer, no writer to notify for it and nothing
  missed leave only a consumer at the writer's location (`NoticedInv`), and there `LinkInv` counts no unread
  datum.
- `NotificationProofs`, again: `LinksImplementQueues` is the refinement of `LinkQueue`, for any number of links
  on any buffers, each buffer's number of writers being what decides whether its links are in the refinement.
  It needs one more invariant, since a queue has a length also when its
  ring was lapped: `LengthInv`, a consumer has copied all the data it moved over, but the last while the copy is
  still to be made. That holds because between the move and the copy the location differs from the
  reference (`RepeatInv`). Then the room that `Publish` wants is `LinkInv`'s bound on what is unread, and one place more for the
  datum being copied; what is in front of the queue is what `InOrder` says is received next; a
  repetition is paid for by a write because `Repetitions` counts it before it is made. One lemma for each kind
  of step: `StoreIsPublish`, `LapIsSpoil`, `CopyIsDelivery`, `CopyIsRepetition`; `BetweenGrows` and `BetweenShrinks` are
  what they need of the sequence of consecutive data.
- `AccessLinkProofs`: `LinkInvHolds`, an inductive invariant of a link for any number of detached threads,
  of failures of the server, and whatever the sensor delivers; and from it `LinkIsTyped`, `MinorErrorsAreSurvived`,
  `ConnectionOutlivesSends`, `JoinsAreOrderly` (no join waits for a
  thread that goes on), `TerminationLeavesOnlyRaces`. What makes them hold is the order of
  `terminateAndJoin`, and the invariant says it of every terminator at once: whoever
  is past a join has that thread finished (`JoinInv`), a thread finishes only when
  ordered to, and a scheduler is ordered only when what feeds it has ended (`OrderInv`). A thread that
  has seen nothing ready has something only if it was written to since (`WorkInv`), and when a scheduler of data has ended
  nobody writes to it any more; for the error scheduler that holds while one thread terminates (`ErrorsInv`). That a thread is joined
  once is the case of no detached thread: then it is joinable until the user's thread has passed its join. One
  lemma for each action keeps the parts of the invariant; which error can be where is
  stated by `Kinds` and the type of `serverCalls`, five lists of calls, so no induction over a stack is
  needed.
- `TranslationProofs`, for every number of pixels and of tracks in one, any tracks and speeds, any number of
  messages and of faults: `TranslationInvHolds`, the inductive invariant, and from it all properties of the run
  `translation`. Its part `FrameInv` relates two things no variable connects: the message under construction
  shows an earlier frame of the sensor, and the sensor's frame of now is that frame with what the
  message on its way adds, a track, a speed or an end (`TrackIsOnItsWay`, `VelocityIsOnItsWay`,
  `EndIsOnItsWay`, `NothingIsOnItsWay`). It says so as long as nothing was lost, repeated or refused; then
  `VelocitiesFindTheirTracks`, because the earlier frame has the track, and `FramesArriveWhole`,
  because the pad shows the frame that ended (`PadInv`). `SlotInv` holds with faults too: behind the counter
  of a pixel no slot has the id of a track. Without it `fetchTrackById`, which searches every slot, could find
  one that is in no frame. With `NoTrackTwice`, the slot a velocity goes to is the one its track was
  put in. `TranslationAssemblesFrames` is the refinement of `FrameAssembly`, faults included, one lemma for each kind of
  message: `TrackIsDetected` (a refused track stutters), `TrackIsMeasured`, `FrameIsEnded`. That bytes are read as
  they were written, for every number of 16 bits, is `UnsignedBytes` and `SignedBytes`; `SignsAloneAreLost` proves
  `OnlySignsAreLost` from the shift of the high byte, for all samples of `int16_t` and every cycle of raw data.
  The assumptions are that ids of tracks lie below `UNDEFINED_ID`, and that speeds are
  `int16_t`s other than 0, which in the history of the sensor stands for no velocity yet.

- `SensorStackProofs` and `SensorLinkProofs`, for any number of failures and terminations, any stack size,
  any number of data announced and any numbers canlib gives: `SensorLinkInvHolds`, and from it all safety
  properties of the run `sensor_link`. Handlers nest, so what a thread has left is a sequence of any
  length, and the library's induction over sequences is not available to the prover. The way
  around it is to say nothing of a stack as a whole: a stack is `Sound` if each step `Fits`, that is, if it agrees with the
  two steps behind it (`MayFollow`: a step of the strategy stands in front of another or of a `"catch"`, an
  `openConnection` in front of a `"return"` or of the `launch`) and with every later one
  (`MayComeAfter`: what fetches has no handler behind it). A call replaces the first step with
  a body, a return drops steps, an exception drops steps and puts a handler there; all three only
  change the front, so `CallKeeps`, `ReturnKeeps` and `ExceptionKeeps` show once that they keep what is
  said of each step, and `ReturnsTo` what a thread does next. `DepthAdds` and `DepthOfEnd` say what they do to the number of
  handlers.

  `GuardianMoves`, `KvaserMoves`, `CommunicatorMoves` and `MainMoves` show that each of the code's steps is such a move,
  and say which. The rest of the invariant then relates the device to the stacks. Each part is there because another is not inductive
  without it: `TurnInv` (until a termination one thread works), which `HandleInv` needs, because a
  transfer tests the handle in one step and uses it in the next; `ContextInv` with `Reopens`
  (every close on a stack is followed by an open, unless an error said otherwise), from which
  `ContextExitedOnce` follows for any nesting of handlers; `AnnouncementInv` with `LacksRaw` (no request of raw
  data is left on the stack once a query was answered by an error); `TerminationInv` with `OnlyCloses` (what
  `terminateAndJoin` has left never opens, unless one of its closes threw); `GuardianDepthInv`, one handler more than failures, since closing a
  USB device does not fail; `KvaserDepthInv`, where the count depends on whether the
  channel is open and on what the stack does next, since a channel that is closed fails without the device's
  doing (what has just failed with nothing open is closed before anything else, so an open never adds to
  a recursion that has begun); and `LimitInv` for the handler that ends the process. `StrategyInv` keeps one strategy's device out of the
  other's steps. The assumptions are `CommunicatorBounds`, `TransferBounds` and `CanHandles`: the bounds are natural
  numbers, at least one handler and one datum fit, and 0 is a handle.

  `RecursionIsPaidFor` is therefore no artefact of two failures: the recursion without end is confined to the
  CAN strategy, and there to a channel 0 that is not open, as with a device that is absent or a handle that is not 0, or to a termination.

  `DestructionNeedsOpenChannel` is a corollary of `TerminationInv`: whoever finds the channel open when main
  is in no call finds it opened by the communicator, or after a close that threw.

Before it was proved, each inductive invariant was checked by TLC as an invariant of its run.

Only model-checked, and why:

- Liveness: `TerminationIsObeyed`, `ReadyDataAreConsumed`, `DrainsBeforeFinishing`,
  `TerminationWaitsOnlyForDevice`. They rest on fairness, hence on `ENABLED`, which
  the prover does not treat.
- The properties of the runs that end with a counterexample (section 4), for instance `RawDataBecomeBigEndian`,
  are what the code does not do; there is nothing to prove.

## 6. Plan

Done: the containers, the scheduler, the ring, their composition, the path
every datum and every error takes; errors, both communicators with their strategies, the
life of a link, and the translation; then the proofs of all safety properties and of
the action properties and refinements that the passing runs check. What remains:

1. Liveness by proof, should the provers come to treat `ENABLED`: the invariants it would rest on are there.
2. Liveness of a whole link's termination, of which `AccessLink` has the safe part (`JoinWaitsForBacklogOnly`) and
   `DataFlow` and `SensorLink` the liveness of each thread that is joined. With the data of a sensor the graph of
   `AccessLink` is too large for TLC to check liveness on.
3. Abstract specifications of a connection and of a link's life, which `SensorLink` and `AccessLink` would
   implement as `DataFlow` does `LinkQueue`.

## 7. Not modelled, and why

- `ThreadSafeRingBuffer` is instantiated by no code of the gateway, and
  `ConstantSizedPointerQueue` by its tests only. The lists' `consumeNext` is not called either.
- A pixel id the message does not have: `pixels[pixelId]` is not checked, and what a write behind
  the array does is no behaviour of this code.
- Moves of time points: the move constructors of `ServiceTimestamps` and `TimeTracking` move
  their members from themselves, and `TimeTracking::swap` names a member that does not exist;
  nothing instantiates or calls them. Time points hold wall clock values, of which only the
  place they are taken at and their number are modelled.
- Messages, origins and error codes of an error once its category and severity are known, and the
  wording of what is printed.
- Where in memory messages are written in the bulk transfers, and how their bytes are read into
  structures: `GuardianUSB` follows whether and how much is fetched. `Command` is produced by
  nothing.
- What a strategy's destruction does to steps that still use it: `SensorLink` stops there, and the USB strategy's
  destructor does nothing. The CAN one's is `DestroyStrategy`.
- `convertFourBytesToUnsignedBigEndian`, which tests alone use.
- The strategies destroyed before the threads that call them
  (`application/AWL16AccessLink.h:60`, `application/GuardianAccessLink.h:60`) are in `AccessLink` as a way a process ends; no property
  excludes it, because without a termination by hand it always can happen.

libusb, canlib and the server's transport are outside the repository: they are modelled
from how the strategies use them, and marked external. A ring buffer is linked only while no thread writes, as
`SensorAccessLink` does it; a link added to `consumerLocationsMap` during a write is
not modelled.
