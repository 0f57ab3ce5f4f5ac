-------------------------- MODULE SensorLinkProofs --------------------------
(***************************************************************************)
(* What holds of the communicator and its strategies for any number of      *)
(* failures and terminations, any size of the stack, and any numbers that  *)
(* canlib gives its handles.  The inductive invariant says how the device   *)
(* and the histories agree with the steps that the threads have left.      *)
(***************************************************************************)
EXTENDS SensorStackProofs

(* The inductive invariant, part by part. *)

UsbTypes ==
  /\ usbDeviceHandle \in {"null", "open", "closed"}
  /\ usbContext \in {"null", "live", "exited"}
  /\ closingMutex \in {{}} \cup {{t} : t \in Thread}
  /\ dataCanBeFetched \in BOOLEAN
  /\ numberOfRawDataCyclesToFetch \in 0..MaxAnnounced
  /\ requested \in 0..MAX_NUMBER_OF_BULK_FETCHABLE
  /\ queried \in BOOLEAN /\ fresh \in BOOLEAN
  /\ staleExit \in BOOLEAN /\ usedAfterClose \in BOOLEAN /\ initFailed \in BOOLEAN

KvaserTypes ==
  /\ openHandles \subseteq CanHandle /\ closeThrew \in BOOLEAN
  /\ destruction \in {"no", "done", "threw"}

TypeInv ==
  /\ pending \in [Thread -> Seq(Step)]
  /\ joinable \in BOOLEAN /\ started \in BOOLEAN /\ terminateOrderReceived \in BOOLEAN
  /\ aborted \in BOOLEAN /\ severe \in BOOLEAN
  /\ failures \in 0..MaxFailures /\ terminations \in 0..MaxTerminations
  /\ UsbTypes /\ KvaserTypes
  /\ strategy \in {"guardian", "kvaser"}
  /\ opener \in Thread \cup {"none"}

StackInv == \A t \in Thread : Sound(t, pending[t])

(* Until the first termination one thread works, the other has nothing. *)
TurnInv ==
  /\ ~started => (\A t \in Thread : pending[t] = <<>>) /\ terminations = 0
  /\ terminations = 0 => \E t \in Thread : pending[t] = <<>>

(* One strategy's device is never touched by the other, canlib has opened   *)
(* one channel at most, and the destructor has closed it.                  *)
StrategyInv ==
  /\ strategy = "guardian" => openHandles = {} /\ ~closeThrew
  /\ openHandles = {} \/ \E handle \in CanHandle : openHandles = {handle}
  /\ destruction = "done" => openHandles = {}
  /\ strategy = "kvaser" =>
       /\ usbDeviceHandle = "null" /\ usbContext = "null"
       /\ ~queried /\ ~staleExit /\ ~usedAfterClose

(* The handler that exceeds the limit ends the process. *)
LimitInv ==
  \A t \in Thread : Depth(pending[t]) <= STACK_LIMIT + (IF aborted THEN 1 ELSE 0)

GuardianDepthInv ==
  strategy = "guardian" => \A t \in Thread : Depth(pending[t]) <= failures + 1

(* Over CAN, a channel that is found open was opened by the last handler    *)
(* but one; one that is found closed is closed again without an end.       *)
NestsOverCan(s, handles, n) ==
  /\ communicationChannel \in handles =>
       /\ handles = {communicationChannel}
       /\ Depth(s) <= n + 1
       /\ s # <<>> /\ Head(s) \in Opening => Depth(s) <= n
  /\ handles = {} =>
       /\ s # <<>> /\ Head(s) \in Opening => Depth(s) <= n + 1
       /\ s # <<>> /\ Head(s) = "produceError" => s[2] = "closeConnection"

KvaserDepthInv ==
  strategy = "kvaser" /\ terminations = 0 /\ destruction # "done" =>
    \A t \in Thread : NestsOverCan(pending[t], openHandles, failures)

Using == Transfers \cup {"claimInterface", "receiveTrash"}

(* A closed handle is forgotten next, and whoever uses one holds an open one. *)
HandleInv ==
  terminations = 0 =>
    /\ ~usedAfterClose
    /\ ~aborted =>
         /\ usbDeviceHandle = "closed" => \E t \in Thread : At(t, {"forgetHandle"})
         /\ \A t \in Thread : At(t, Using) => usbDeviceHandle = "open"

(* The context has been exited, and is made again. *)
Reconnecting == {"forgetHandle", "openDevice"} \cup Opening

ContextInv ==
  terminations = 0 /\ ~severe /\ ~initFailed =>
    /\ ~staleExit
    /\ \A t \in Thread : Reopens(pending[t])
    /\ usbContext = "exited" /\ ~aborted =>
         \E t \in Thread : At(t, Reconnecting)

(* Nothing is left to ask for what was announced, but behind a new query. *)
Querying == {"handleIncomingMessages", "strategy.fetchMessages"}

AnnouncementInv ==
  queried /\ ~fresh /\ ~aborted =>
    \/ At("communicator", Querying)
    \/ LacksRaw(pending["communicator"])

Closes == {"closeConnection", "strategy.closeConnection"}

(* What is left of a termination closes, and opens nothing, unless a close  *)
(* threw: its handler may open.                                            *)
TerminationInv ==
  terminations > 0 /\ ~closeThrew =>
    /\ OnlyCloses(pending["main"])
    /\ Connected /\ opener # "communicator" => At("main", Closes)

SensorLinkInv ==
  /\ TypeInv /\ StackInv /\ TurnInv /\ StrategyInv /\ LimitInv /\ GuardianDepthInv
  /\ KvaserDepthInv /\ HandleInv /\ ContextInv /\ AnnouncementInv /\ TerminationInv

-----------------------------------------------------------------------------
(* The steps of a thread, as what they do to its stack.                    *)

Returned(s, r) == s # <<>> /\ r = Resume(Tail(s))

Called(s, r) == s # <<>> /\ \E b : IsBodyOf(b, Head(s)) /\ r = b \o Tail(s)

Threw(s, r, e) ==
  s # <<>> /\ Head(s) \in StrategySteps /\ r = HandleCaughtError(e) \o AfterCatch(s)

(* Only thread t moves. *)
Only(t) == /\ pending' = [pending EXCEPT ![t] = pending'[t]]
           /\ \A u \in Thread : u # t => pending'[u] = pending[u]

Quietly == UNCHANGED <<aborted, severe, failures>>

Advances(t) == Returned(pending[t], pending'[t]) /\ Only(t) /\ Quietly

Calls(t) == Called(pending[t], pending'[t]) /\ Only(t) /\ Quietly

(* An exception: the device failed once more, or found its handle wanting. *)
Throws(t) ==
  \E e : /\ Threw(pending[t], pending'[t], e) /\ Only(t)
         /\ aborted' = (Depth(pending'[t]) > STACK_LIMIT)
         /\ severe' = (severe \/ IsFatalForSensorAccess(e))
         /\ \/ failures < MaxFailures /\ failures' = failures + 1
            \/ failures' = failures /\ (Head(pending[t]) = "testHandle" \/ strategy = "kvaser")

(* The process ends in the middle of a step. *)
Aborts == aborted' /\ UNCHANGED <<pending, severe, failures>>

OrdersKept == UNCHANGED <<started, terminations, joinable, terminateOrderReceived>>

Moves(t) == Advances(t) \/ Calls(t) \/ Throws(t) \/ Aborts

LEMMA ContinueReturns ==
  ASSUME pending \in [Thread -> Seq(Step)], NEW t \in Thread, pending[t] # <<>>,
         Continue(t), UNCHANGED failures
  PROVE  Advances(t)
<1>1. pending'[t] = Resume(Tail(pending[t])) /\ \A u \in Thread : u # t => pending'[u] = pending[u]
  BY DEF Continue
<1>2. pending' = [pending EXCEPT ![t] = pending'[t]]
  BY <1>1 DEF Continue
<1>3. QED
  BY <1>1, <1>2 DEF Continue, Advances, Returned, Only, Quietly

LEMMA CallCalls ==
  ASSUME pending \in [Thread -> Seq(Step)], NEW t \in Thread, pending[t] # <<>>,
         Sound(t, pending[t]), NEW b, IsBodyOf(b, Head(pending[t])), Call(t, b), UNCHANGED failures
  PROVE  Calls(t) /\ pending'[t] = b \o Tail(pending[t])
<1>1. /\ pending'[t] = Resume(b \o Tail(pending[t]))
      /\ \A u \in Thread : u # t => pending'[u] = pending[u]
  BY DEF Call
<1>2. pending' = [pending EXCEPT ![t] = pending'[t]]
  BY <1>1 DEF Call
<1>3. pending'[t] = b \o Tail(pending[t])
  BY <1>1, CallKeeps
<1>4. QED
  BY <1>1, <1>2, <1>3 DEF Call, Calls, Called, Only, Quietly

LEMMA NoCallReturns ==
  ASSUME pending \in [Thread -> Seq(Step)], NEW t \in Thread, pending[t] # <<>>,
         Call(t, <<>>), UNCHANGED failures
  PROVE  Advances(t)
<1>1. Tail(pending[t]) \in Seq(Step)
  BY TailEnds
<1>2. <<>> \o Tail(pending[t]) = Tail(pending[t])
  BY <1>1, ConcatEmptySeq
<1>3. Continue(t)
  BY <1>2 DEF Call, Continue
<1>4. QED
  BY <1>3, ContinueReturns

LEMMA RaiseThrows ==
  ASSUME pending \in [Thread -> Seq(Step)], NEW t \in Thread, pending[t] # <<>>,
         Head(pending[t]) \in StrategySteps, NEW e, Raise(t, e),
         \/ failures < MaxFailures /\ failures' = failures + 1
         \/ failures' = failures /\ (Head(pending[t]) = "testHandle" \/ strategy = "kvaser")
  PROVE  Throws(t) /\ pending'[t] = HandleCaughtError(e) \o AfterCatch(pending[t])
<1>1. /\ pending'[t] = HandleCaughtError(e) \o AfterCatch(pending[t])
      /\ \A u \in Thread : u # t => pending'[u] = pending[u]
  BY DEF Raise
<1>2. pending' = [pending EXCEPT ![t] = pending'[t]]
  BY <1>1 DEF Raise
<1>3. Threw(pending[t], pending'[t], e) /\ Only(t)
  BY <1>1, <1>2 DEF Threw, Only
<1>4. QED
  BY <1>1, <1>3 DEF Raise, Throws

LEMMA FailThrows ==
  ASSUME pending \in [Thread -> Seq(Step)], NEW t \in Thread, pending[t] # <<>>,
         Head(pending[t]) \in StrategySteps, NEW errors, Fail(t, errors)
  PROVE  Throws(t)
<1>1. PICK e \in errors : Raise(t, e)
  BY DEF Fail
<1>2. failures < MaxFailures /\ failures' = failures + 1
  BY DEF Fail
<1>3. QED
  BY <1>1, <1>2, RaiseThrows

(* Every step of a thread moves its stack in one of these ways, but for the *)
(* launch of the communicator's thread.                                    *)
LEMMA GuardianMoves ==
  ASSUME TypeInv, StackInv, NEW t \in Thread, GuardianStep(t)
  PROVE  Moves(t) /\ pending[t] # <<>> /\ OrdersKept
<1>1. /\ pending \in [Thread -> Seq(Step)] /\ Sound(t, pending[t])
      /\ OrdersKept
  BY DEF TypeInv, StackInv, GuardianStep, OrdersKept
<1>2. CASE OpenUSB(t)
  <2>1. pending[t] # <<>> /\ Head(pending[t]) = "strategy.openConnection" /\ UNCHANGED failures
    BY <1>2 DEF OpenUSB, At
  <2>2. Calls(t)
    BY <1>1, <1>2, <2>1, CallCalls DEF OpenUSB, IsBodyOf
  <2>3. QED
    BY <1>1, <2>1, <2>2 DEF Moves
<1>3. CASE OpenDevice(t)
  <2>1. pending[t] # <<>> /\ Head(pending[t]) \in StrategySteps
    BY <1>3 DEF OpenDevice, At, StrategySteps
  <2>2. Succeed(t) => Advances(t)
    BY <1>1, <2>1, ContinueReturns DEF Succeed
  <2>3. Fail(t, {LibUSBDeviceNotFound}) => Throws(t)
    BY <1>1, <2>1, FailThrows
  <2>4. aborted' = TRUE /\ UNCHANGED <<pending, severe, failures>> => Aborts
    BY DEF Aborts
  <2>5. QED
    BY <1>1, <1>3, <2>1, <2>2, <2>3, <2>4 DEF OpenDevice, Moves
<1>4. CASE ClaimInterface(t)
  <2>1. pending[t] # <<>> /\ Head(pending[t]) \in StrategySteps
    BY <1>4 DEF ClaimInterface, At, StrategySteps
  <2>2. Succeed(t) => Advances(t)
    BY <1>1, <2>1, ContinueReturns DEF Succeed
  <2>3. Fail(t, ClaimErrors) => Throws(t)
    BY <1>1, <2>1, FailThrows
  <2>4. Undefined => Aborts
    BY DEF Undefined, Aborts
  <2>5. QED
    BY <1>1, <1>4, <2>1, <2>2, <2>3, <2>4 DEF ClaimInterface, Moves
<1>5. CASE SetupCleanConnection(t)
  <2>1. /\ pending[t] # <<>> /\ UNCHANGED failures
        /\ Head(pending[t]) = "setupCleanConnection"
    BY <1>5 DEF SetupCleanConnection, At
  <2>2. Call(t, <<"receiveTrash">>) => Calls(t)
    BY <1>1, <2>1, CallCalls DEF IsBodyOf
  <2>3. Call(t, <<>>) => Advances(t)
    BY <1>1, <2>1, NoCallReturns
  <2>4. Call(t, <<"receiveTrash">>) \/ Call(t, <<>>)
    BY <1>5 DEF SetupCleanConnection
  <2>5. QED
    BY <1>1, <2>1, <2>2, <2>3, <2>4 DEF Moves
<1>15. CASE ReceiveTrash(t)
  <2>1. pending[t] # <<>> /\ Head(pending[t]) = "receiveTrash"
    BY <1>15 DEF ReceiveTrash, At
  <2>2. Call(t, <<"setupCleanConnection">>) /\ UNCHANGED failures => Calls(t)
    BY <1>1, <2>1, CallCalls DEF IsBodyOf
  <2>3. Succeed(t) => Advances(t)
    BY <1>1, <2>1, ContinueReturns DEF Succeed
  <2>4. Undefined => Aborts
    BY DEF Undefined, Aborts
  <2>5. QED
    BY <1>1, <1>15, <2>1, <2>2, <2>3, <2>4 DEF ReceiveTrash, Moves
<1>6. CASE FetchMessagesUSB(t)
  <2>1. pending[t] # <<>> /\ Head(pending[t]) = "strategy.fetchMessages" /\ UNCHANGED failures
    BY <1>6 DEF FetchMessagesUSB, At
  <2>2. Calls(t)
    BY <1>1, <1>6, <2>1, CallCalls DEF FetchMessagesUSB, IsBodyOf
  <2>3. QED
    BY <1>1, <2>1, <2>2 DEF Moves
<1>7. CASE ReceiveQuantity(t)
  <2>1. /\ pending[t] # <<>> /\ Head(pending[t]) \in StrategySteps
        /\ Head(pending[t]) = "receiveQuantity"
    BY <1>7 DEF ReceiveQuantity, At, StrategySteps, DeviceWait
  <2>2. Call(t, FetchMessagesOnSensor) /\ UNCHANGED failures => Calls(t)
    BY <1>1, <2>1, CallCalls DEF IsBodyOf
  <2>3. Call(t, <<>>) /\ UNCHANGED failures => Advances(t)
    BY <1>1, <2>1, NoCallReturns
  <2>4. Fail(t, TransferErrors) => Throws(t)
    BY <1>1, <2>1, FailThrows
  <2>5. Undefined => Aborts
    BY DEF Undefined, Aborts
  <2>6. \/ (Call(t, FetchMessagesOnSensor) \/ Call(t, <<>>)) /\ UNCHANGED failures
        \/ Fail(t, TransferErrors) \/ Undefined
    BY <1>7 DEF ReceiveQuantity
  <2>7. QED
    BY <1>1, <2>1, <2>2, <2>3, <2>4, <2>5, <2>6 DEF Moves
<1>8. CASE FetchRawDataCyclesUSB(t)
  <2>1. /\ pending[t] # <<>> /\ UNCHANGED failures
        /\ Head(pending[t]) = "strategy.fetchRawDataCycles"
    BY <1>8 DEF FetchRawDataCyclesUSB, At
  <2> DEFINE body == <<"testHandle", "requestRawData", "testHandle", "receiveRawData">>
  <2>2. Call(t, body) => Calls(t)
    BY <1>1, <2>1, CallCalls DEF IsBodyOf
  <2>3. Call(t, <<>>) => Advances(t)
    BY <1>1, <2>1, NoCallReturns
  <2>4. Call(t, body) \/ Call(t, <<>>)
    BY <1>8 DEF FetchRawDataCyclesUSB
  <2>5. QED
    BY <1>1, <2>1, <2>2, <2>3, <2>4 DEF Moves
<1>9. CASE RequestRawData(t)
  <2>1. pending[t] # <<>> /\ Head(pending[t]) \in StrategySteps
    BY <1>9 DEF RequestRawData, At, StrategySteps, DeviceWait
  <2>2. Succeed(t) => Advances(t)
    BY <1>1, <2>1, ContinueReturns DEF Succeed
  <2>3. Fail(t, TransferErrors) => Throws(t)
    BY <1>1, <2>1, FailThrows
  <2>4. Undefined => Aborts
    BY DEF Undefined, Aborts
  <2>5. QED
    BY <1>1, <1>9, <2>1, <2>2, <2>3, <2>4 DEF RequestRawData, Moves
<1>10. CASE BulkTransfer(t)
  <2>1. pending[t] # <<>> /\ Head(pending[t]) \in StrategySteps
    BY <1>10 DEF BulkTransfer, At, StrategySteps, DeviceWait
  <2>2. Succeed(t) => Advances(t)
    BY <1>1, <2>1, ContinueReturns DEF Succeed
  <2>3. Fail(t, TransferErrors) => Throws(t)
    BY <1>1, <2>1, FailThrows
  <2>4. Undefined => Aborts
    BY DEF Undefined, Aborts
  <2>5. QED
    BY <1>1, <1>10, <2>1, <2>2, <2>3, <2>4 DEF BulkTransfer, Moves
<1>11. CASE ThrowDeviceNotFoundErrorIfNeeded(t)
  <2>1. /\ pending[t] # <<>> /\ Head(pending[t]) \in StrategySteps
        /\ Head(pending[t]) = "testHandle" /\ UNCHANGED failures
    BY <1>11 DEF ThrowDeviceNotFoundErrorIfNeeded, At, StrategySteps
  <2>2. Raise(t, LibUSBDeviceNotFound) => Throws(t)
    BY <1>1, <2>1, RaiseThrows
  <2>3. Continue(t) => Advances(t)
    BY <1>1, <2>1, ContinueReturns
  <2>4. QED
    BY <1>1, <1>11, <2>1, <2>2, <2>3 DEF ThrowDeviceNotFoundErrorIfNeeded, Moves
<1>12. CASE CloseUSB(t)
  <2>1. /\ pending[t] # <<>> /\ Head(pending[t]) = "strategy.closeConnection"
        /\ UNCHANGED failures
    BY <1>12 DEF CloseUSB, At
  <2>2. Call(t, <<"forgetHandle">>) => Calls(t)
    BY <1>1, <2>1, CallCalls DEF IsBodyOf
  <2>3. aborted' = TRUE /\ UNCHANGED <<pending, severe>> => Aborts
    BY <2>1 DEF Aborts
  <2>4. QED
    BY <1>1, <1>12, <2>1, <2>2, <2>3 DEF CloseUSB, Moves
<1>13. CASE ForgetHandle(t)
  <2>1. pending[t] # <<>> /\ UNCHANGED failures
    BY <1>13 DEF ForgetHandle, At
  <2>2. Advances(t)
    BY <1>1, <1>13, <2>1, ContinueReturns DEF ForgetHandle
  <2>3. QED
    BY <1>1, <2>1, <2>2 DEF Moves
<1>14. QED
  BY <1>2, <1>3, <1>4, <1>5, <1>6, <1>7, <1>8, <1>9, <1>10, <1>11, <1>12, <1>13, <1>15
  DEF GuardianStep

LEMMA KvaserMoves ==
  ASSUME TypeInv, StackInv, strategy = "kvaser", NEW t \in Thread, KvaserStep(t)
  PROVE  Moves(t) /\ pending[t] # <<>> /\ OrdersKept
<1>1. /\ pending \in [Thread -> Seq(Step)] /\ Sound(t, pending[t])
      /\ OrdersKept
  BY DEF TypeInv, StackInv, KvaserStep, OrdersKept
<1>2. pending[t] # <<>> /\ Head(pending[t]) \in StrategySteps
  BY DEF KvaserStep, OpenCan, FetchMessagesCan, FetchRawDataCyclesCan, CloseCan, At, StrategySteps
<1>3. Succeed(t) => Advances(t)
  BY <1>1, <1>2, ContinueReturns DEF Succeed
<1>4. Fail(t, CanlibErrors) \/ Fail(t, {InvalidHandle}) => Throws(t)
  BY <1>1, <1>2, FailThrows
<1>5. Raise(t, InvalidHandle) /\ UNCHANGED failures => Throws(t)
  BY <1>1, <1>2, RaiseThrows
<1>6. \/ Succeed(t) \/ Fail(t, CanlibErrors) \/ Fail(t, {InvalidHandle})
      \/ Raise(t, InvalidHandle) /\ UNCHANGED failures
  BY DEF KvaserStep, OpenCan, FetchMessagesCan, FetchRawDataCyclesCan, CloseCan
<1>7. QED
  BY <1>1, <1>2, <1>3, <1>4, <1>5, <1>6 DEF Moves

(* A step of the communicator's own code touches no device; what calls the  *)
(* strategy does nothing but that.                                         *)
QuietMove(t) ==
  /\ Advances(t) \/ Calls(t)
  /\ pending[t] # <<>> /\ Head(pending[t]) \notin StrategySteps
  /\ Head(pending[t]) \in {"openConnection", "closeConnection", "handleIncomingMessages"}
       => Calls(t)
  /\ Calls(t) \/ Head(pending[t]) \in {"produceError", "run", "order", "exitSafely"}

LEMMA CommunicatorMoves ==
  ASSUME TypeInv, StackInv, NEW t \in Thread, CommunicatorStep(t)
  PROVE  QuietMove(t) /\ OrdersKept
<1>1. /\ pending \in [Thread -> Seq(Step)] /\ Sound(t, pending[t])
      /\ OrdersKept /\ UNCHANGED failures
  BY DEF TypeInv, StackInv, CommunicatorStep, OrdersKept
<1>2. pending[t] # <<>> /\ Head(pending[t]) \notin StrategySteps
  BY DEF CommunicatorStep, OpenConnection, CloseConnection, ProduceError,
         HandleIncomingMessages, HandleIncomingRawData, Run, At, StrategySteps, DeviceWait
<1>3. Continue(t) => Advances(t)
  BY <1>1, <1>2, ContinueReturns
<1>4. \A b : IsBodyOf(b, Head(pending[t])) /\ Call(t, b) => Calls(t)
  BY <1>1, <1>2, CallCalls
<1>5. \/ /\ Continue(t)
         /\ Head(pending[t]) \in {"produceError", "run"}
      \/ \E b : IsBodyOf(b, Head(pending[t])) /\ Call(t, b)
  <2>1. CASE OpenConnection(t)
    BY <2>1 DEF OpenConnection, At, IsBodyOf
  <2>2. CASE CloseConnection(t)
    BY <2>2 DEF CloseConnection, At, IsBodyOf
  <2>3. CASE ProduceError(t)
    BY <2>3 DEF ProduceError, At
  <2>4. CASE HandleIncomingMessages(t)
    BY <2>4 DEF HandleIncomingMessages, At, IsBodyOf
  <2>5. CASE HandleIncomingRawData(t)
    BY <2>5 DEF HandleIncomingRawData, At, IsBodyOf
  <2>6. CASE Run(t)
    BY <2>6 DEF Run, At, IsBodyOf
  <2>7. QED
    BY <2>1, <2>2, <2>3, <2>4, <2>5, <2>6 DEF CommunicatorStep
<1>6. QED
  BY <1>1, <1>2, <1>3, <1>4, <1>5 DEF QuietMove

LEMMA MainMoves ==
  ASSUME TypeInv, StackInv, OrderTermination \/ ExitSafely
  PROVE  /\ QuietMove("main") /\ UNCHANGED <<started, terminations>>
         /\ Head(pending["main"]) \in {"order", "exitSafely"} /\ Advances("main")
<1>1. "main" \in Thread /\ pending \in [Thread -> Seq(Step)]
  BY DEF TypeInv, Thread
<1>2. /\ pending["main"] # <<>> /\ Head(pending["main"]) \in {"order", "exitSafely"}
      /\ Continue("main") /\ UNCHANGED failures /\ UNCHANGED <<started, terminations>>
  BY DEF OrderTermination, ExitSafely, At
<1>3. Advances("main")
  BY <1>1, <1>2, ContinueReturns
<1>4. QED
  BY <1>2, <1>3 DEF QuietMove, StrategySteps, DeviceWait

-----------------------------------------------------------------------------
(* What a move of a thread keeps.                                          *)

LEMMA EmptyStack ==
  ASSUME NEW t
  PROVE  Sound(t, <<>>) /\ Reopens(<<>>) /\ LacksRaw(<<>>) /\ OnlyCloses(<<>>)
<1>1. <<>> \in Seq(Step) /\ DOMAIN <<>> = {}
  OBVIOUS
<1>2. QED
  BY <1>1 DEF Sound, Reopens, LacksRaw, OnlyCloses

(* The stacks that start, terminateAndJoin and the launch give a thread. *)
LEMMA FreshStacks ==
  /\ Sound("main", <<"openConnection", "launch">>)
  /\ Sound("main", <<"closeConnection", "order", "exitSafely">>)
  /\ Sound("communicator", <<"run">>)
  /\ Depth(<<"openConnection", "launch">>) = 0
  /\ Depth(<<"closeConnection", "order", "exitSafely">>) = 0
  /\ Depth(<<"run">>) = 0
  /\ Reopens(<<"openConnection", "launch">>) /\ Reopens(<<"run">>) /\ LacksRaw(<<"run">>)
  /\ OnlyCloses(<<"closeConnection", "order", "exitSafely">>)
<1> DEFINE start == <<"openConnection", "launch">>
           term == <<"closeConnection", "order", "exitSafely">>
           run == <<"run">>
<1>1. /\ start \in Seq(Step) /\ Len(start) = 2 /\ start # <<>> /\ DOMAIN start = 1..2
      /\ start[1] = "openConnection" /\ start[2] = "launch"
  BY DEF Step, Work, Connecting
<1>2. /\ term \in Seq(Step) /\ Len(term) = 3 /\ term # <<>> /\ DOMAIN term = 1..3
      /\ term[1] = "closeConnection" /\ term[2] = "order" /\ term[3] = "exitSafely"
  BY DEF Step, Work, Connecting
<1>3. /\ run \in Seq(Step) /\ Len(run) = 1 /\ run # <<>> /\ DOMAIN run = 1..1
      /\ run[1] = "run"
  BY DEF Step, Work, Fetching
<1>4. start \o <<>> = start /\ term \o <<>> = term /\ run \o <<>> = run
  BY <1>1, <1>2, <1>3, ConcatEmptySeq
<1>5. Sound("main", <<>>) /\ Sound("communicator", <<>>) /\ DOMAIN <<>> = {}
  BY EmptyStack
<1> HIDE DEF start, term, run
<1>6. \A i \in 1..3 : i = 1 \/ i = 2 \/ i = 3
  OBVIOUS
<1>7. \A i \in 1..2 : i = 1 \/ i = 2
  OBVIOUS
<1> USE DEF MayFollow, MayComeAfter, Work, Connecting, Fetching, StrategySteps, Transfers,
            DeviceWait, RawSteps, Marks
<1>8. Sound("main", start)
  <2>1. BodyFits("main", start, <<>>)
    BY <1>1, <1>5, <1>7 DEF BodyFits
  <2>2. QED
    BY <1>1, <1>4, <1>5, <2>1, BodyIsSound
<1>9. Sound("main", term)
  <2>1. BodyFits("main", term, <<>>)
    BY <1>2, <1>5, <1>6 DEF BodyFits
  <2>2. QED
    BY <1>2, <1>4, <1>5, <2>1, BodyIsSound
<1>10. Sound("communicator", run)
  <2>1. BodyFits("communicator", run, <<>>)
    BY <1>3, <1>5 DEF BodyFits
  <2>2. QED
    BY <1>3, <1>4, <1>5, <2>1, BodyIsSound
<1>11. Depth(start) = 0 /\ Depth(term) = 0 /\ Depth(run) = 0
  <2>1. \A i \in DOMAIN start : start[i] # "return"
    BY <1>1, <1>7
  <2>2. \A i \in DOMAIN term : term[i] # "return"
    BY <1>2, <1>6
  <2>3. \A i \in DOMAIN run : run[i] # "return"
    BY <1>3
  <2>4. QED
    BY <1>1, <1>2, <1>3, <2>1, <2>2, <2>3, DepthIsZero
<1>12. Reopens(start) /\ Reopens(run) /\ LacksRaw(run)
  BY <1>1, <1>3, <1>7 DEF Reopens, ReopensAt, LacksRaw
<1>13. OnlyCloses(term)
  BY <1>2, <1>6 DEF OnlyCloses, Closing
<1>14. QED
  BY <1>8, <1>9, <1>10, <1>11, <1>12, <1>13 DEF start, term, run

(* The launch ends what the main thread does at the start. *)
LEMMA LaunchMoves ==
  ASSUME TypeInv, StackInv, Launch
  PROVE  /\ pending["main"] # <<>> /\ Head(pending["main"]) = "launch"
         /\ pending' \in [Thread -> Seq(Step)]
         /\ pending'["main"] = <<>> /\ pending'["communicator"] = <<"run">>
         /\ StackInv'
<1>1. /\ "main" \in Thread /\ "communicator" \in Thread /\ pending \in [Thread -> Seq(Step)]
      /\ Sound("main", pending["main"]) /\ Thread = {"main", "communicator"}
  BY DEF TypeInv, StackInv, Thread
<1>2. pending["main"] # <<>> /\ Head(pending["main"]) = "launch"
  BY DEF Launch, At
<1>3. Resume(Tail(pending["main"])) = <<>>
  BY <1>1, <1>2, ReturnsTo
<1>4. /\ pending' = [pending EXCEPT !["main"] = <<>>, !["communicator"] = <<"run">>]
      /\ pending'["main"] = <<>> /\ pending'["communicator"] = <<"run">>
  BY <1>1, <1>3 DEF Launch
<1>5. Sound("main", <<>>) /\ Sound("communicator", <<"run">>)
  BY EmptyStack, FreshStacks
<1>6. pending' \in [Thread -> Seq(Step)]
  <2>1. <<>> \in Seq(Step) /\ <<"run">> \in Seq(Step)
    BY <1>5 DEF Sound
  <2>2. QED
    BY <1>1, <1>4, <2>1
<1>7. StackInv'
  BY <1>1, <1>4, <1>5 DEF StackInv
<1>8. QED
  BY <1>2, <1>4, <1>6, <1>7

LEMMA MoveKeepsStacks ==
  ASSUME TypeInv, StackInv, NEW t \in Thread, Moves(t)
  PROVE  pending' \in [Thread -> Seq(Step)] /\ StackInv'
<1>1. pending \in [Thread -> Seq(Step)] /\ \A u \in Thread : Sound(u, pending[u])
  BY DEF TypeInv, StackInv
<1>2. CASE Aborts
  BY <1>1, <1>2 DEF Aborts, StackInv
<1>3. ASSUME Sound(t, pending'[t]), Only(t)
      PROVE  pending' \in [Thread -> Seq(Step)] /\ StackInv'
  <2>1. pending'[t] \in Seq(Step)
    BY <1>3 DEF Sound
  <2>2. pending' \in [Thread -> Seq(Step)]
    BY <1>1, <1>3, <2>1 DEF Only
  <2>3. \A u \in Thread : Sound(u, pending'[u])
    BY <1>1, <1>3 DEF Only
  <2>4. QED
    BY <2>2, <2>3 DEF StackInv
<1>4. CASE Advances(t)
  <2>1. Sound(t, pending'[t]) /\ Only(t)
    BY <1>1, <1>4, ReturnKeeps DEF Advances, Returned
  <2>2. QED
    BY <1>3, <2>1
<1>5. CASE Calls(t)
  <2>1. Sound(t, pending'[t]) /\ Only(t)
    BY <1>1, <1>5, CallIsSound DEF Calls, Called
  <2>2. QED
    BY <1>3, <2>1
<1>6. CASE Throws(t)
  <2>1. Sound(t, pending'[t]) /\ Only(t)
    BY <1>1, <1>6, ExceptionKeeps DEF Throws, Threw
  <2>2. QED
    BY <1>3, <2>1
<1>7. QED
  BY <1>2, <1>4, <1>5, <1>6 DEF Moves

(* How deep a stack is after a move. *)
LEMMA MoveDepth ==
  ASSUME TypeInv, StackInv, NEW t \in Thread, Moves(t)
  PROVE  /\ \A u \in Thread : Depth(pending[u]) \in Nat /\ Depth(pending'[u]) \in Nat
         /\ \A u \in Thread : u # t => Depth(pending'[u]) = Depth(pending[u])
         /\ Advances(t) \/ Calls(t) \/ Aborts => Depth(pending'[t]) <= Depth(pending[t])
         /\ Throws(t) => Depth(pending'[t]) <= Depth(pending[t]) + 1
<1>1. /\ pending \in [Thread -> Seq(Step)] /\ pending' \in [Thread -> Seq(Step)]
      /\ \A u \in Thread : Sound(u, pending[u])
  BY MoveKeepsStacks DEF TypeInv, StackInv
<1>2. \A u \in Thread : Depth(pending[u]) \in Nat /\ Depth(pending'[u]) \in Nat
  BY <1>1, DepthType
<1>3. ASSUME NEW u \in Thread, u # t PROVE Depth(pending'[u]) = Depth(pending[u])
  BY <1>3 DEF Moves, Advances, Calls, Throws, Aborts, Only
<1>4. Advances(t) => Depth(pending'[t]) <= Depth(pending[t])
  BY <1>1, ReturnKeeps DEF Advances, Returned
<1>5. Calls(t) => Depth(pending'[t]) <= Depth(pending[t])
  BY <1>1, <1>2, CallKeeps DEF Calls, Called
<1>6. Throws(t) => Depth(pending'[t]) <= Depth(pending[t]) + 1
  BY <1>1, ExceptionKeeps DEF Throws, Threw
<1>7. Aborts => Depth(pending'[t]) <= Depth(pending[t])
  BY <1>2 DEF Aborts
<1>8. QED
  BY <1>2, <1>3, <1>4, <1>5, <1>6, <1>7

LEMMA MoveKeepsTurns ==
  ASSUME TypeInv, StackInv, TurnInv, NEW t \in Thread, pending[t] # <<>>, Moves(t),
         UNCHANGED <<started, terminations>>
  PROVE  TurnInv'
<1>1. started
  BY DEF TurnInv
<1>2. ASSUME NEW u \in Thread, pending[u] = <<>> PROVE pending'[u] = <<>>
  BY <1>2 DEF Moves, Advances, Calls, Throws, Aborts, Only
<1>3. QED
  BY <1>1, <1>2 DEF TurnInv

LEMMA MoveKeepsLimit ==
  ASSUME TypeInv, StackInv, LimitInv, ~aborted, NEW t \in Thread, Moves(t)
  PROVE  LimitInv' /\ aborted' \in BOOLEAN
<1>1. /\ STACK_LIMIT \in Nat /\ aborted \in BOOLEAN
      /\ \A u \in Thread : Depth(pending[u]) \in Nat /\ Depth(pending'[u]) \in Nat
  BY CommunicatorBounds, MoveDepth DEF TypeInv
<1>2. \A u \in Thread : Depth(pending[u]) <= STACK_LIMIT
  BY <1>1 DEF LimitInv
<1>3. \A u \in Thread : u # t => Depth(pending'[u]) <= STACK_LIMIT
  BY <1>2, MoveDepth
<1>4. CASE Advances(t) \/ Calls(t) \/ Aborts
  <2>1. Depth(pending'[t]) <= STACK_LIMIT
    BY <1>1, <1>2, <1>4, MoveDepth
  <2>2. \A u \in Thread : Depth(pending'[u]) <= STACK_LIMIT
    BY <1>3, <2>1
  <2>3. aborted' \in BOOLEAN
    BY <1>1, <1>4 DEF Advances, Calls, Aborts, Quietly
  <2>4. QED
    BY <1>1, <2>2, <2>3 DEF LimitInv
<1>5. CASE Throws(t)
  <2>1. Depth(pending'[t]) <= STACK_LIMIT + 1
    BY <1>1, <1>2, <1>5, MoveDepth
  <2>2. aborted' = (Depth(pending'[t]) > STACK_LIMIT)
    BY <1>5 DEF Throws
  <2>3. aborted' \in BOOLEAN
    BY <2>2
  <2>4. \A u \in Thread : Depth(pending'[u]) <= STACK_LIMIT + (IF aborted' THEN 1 ELSE 0)
    <3>1. ASSUME NEW u \in Thread
          PROVE  Depth(pending'[u]) <= STACK_LIMIT \/ (aborted' /\ u = t)
      <4>1. Depth(pending'[t]) > STACK_LIMIT => aborted'
        BY <2>2
      <4>2. Depth(pending'[t]) <= STACK_LIMIT \/ Depth(pending'[t]) > STACK_LIMIT
        BY <1>1
      <4>3. QED
        BY <1>3, <4>1, <4>2
    <3>2. QED
      BY <1>1, <2>1, <3>1
  <2>5. QED
    BY <2>3, <2>4 DEF LimitInv
<1>6. QED
  BY <1>4, <1>5 DEF Moves

LEMMA MoveKeepsGuardianDepth ==
  ASSUME TypeInv, StackInv, GuardianDepthInv, NEW t \in Thread, Moves(t), UNCHANGED strategy
  PROVE  GuardianDepthInv' /\ failures' \in 0..MaxFailures
<1>1. /\ failures \in Nat /\ failures <= MaxFailures /\ MaxFailures \in Nat
      /\ \A u \in Thread : Depth(pending[u]) \in Nat /\ Depth(pending'[u]) \in Nat
  BY CommunicatorBounds, MoveDepth DEF TypeInv
<1>2. failures' \in 0..MaxFailures /\ failures <= failures'
  <2>1. CASE Throws(t)
    <3>1. \/ failures' = failures
          \/ failures < MaxFailures /\ failures' = failures + 1
      BY <2>1 DEF Throws
    <3>2. QED
      BY <1>1, <3>1
  <2>2. CASE Advances(t) \/ Calls(t) \/ Aborts
    <3>1. failures' = failures
      BY <2>2 DEF Advances, Calls, Aborts, Quietly
    <3>2. QED
      BY <1>1, <3>1
  <2>3. QED
    BY <2>1, <2>2 DEF Moves
<1>3. ASSUME strategy = "guardian", NEW u \in Thread PROVE Depth(pending'[u]) <= failures' + 1
  <2>1. Depth(pending[u]) <= failures + 1
    BY <1>3 DEF GuardianDepthInv
  <2>2. CASE u # t \/ Advances(t) \/ Calls(t) \/ Aborts
    <3>1. Depth(pending'[u]) <= Depth(pending[u])
      BY <1>1, <2>2, MoveDepth
    <3>2. QED
      BY <1>1, <1>2, <2>1, <3>1
  <2>3. CASE u = t /\ Throws(t)
    <3>1. Depth(pending'[t]) <= Depth(pending[t]) + 1
      BY <2>3, MoveDepth
    <3>2. CASE failures' = failures + 1
      BY <1>1, <2>1, <2>3, <3>1, <3>2
    <3>3. CASE failures' = failures /\ Head(pending[t]) = "testHandle"
      <4>1. Depth(pending[t]) = 0
        <5>1. Sound(t, pending[t]) /\ pending[t] # <<>> /\ Head(pending[t]) \in Fetching
          BY <2>3, <3>3 DEF StackInv, Throws, Threw, Fetching
        <5>2. QED
          BY <5>1, FetchingIsNotDeep
      <4>2. QED
        BY <1>1, <2>3, <3>1, <3>3, <4>1
    <3>4. QED
      BY <1>3, <2>3, <3>2, <3>3 DEF Throws
  <2>4. QED
    BY <2>2, <2>3 DEF Moves
<1>4. QED
  BY <1>2, <1>3 DEF GuardianDepthInv

-----------------------------------------------------------------------------
(* The handle: whoever moves works alone until the first termination.      *)

LEMMA WorksAlone ==
  ASSUME TurnInv, terminations = 0, NEW t \in Thread, pending[t] # <<>>,
         NEW u \in Thread, u # t
  PROVE  pending[u] = <<>>
BY DEF TurnInv, Thread

(* A move comes to a transfer, or to the claim of the interface, only from  *)
(* the step before it.                                                     *)
LEMMA MovesTo ==
  ASSUME TypeInv, StackInv, NEW t \in Thread, Moves(t), ~aborted'
  PROVE  /\ At(t, Transfers)' => Advances(t) /\ Head(pending[t]) = "testHandle"
         /\ At(t, {"claimInterface"})' => Advances(t) /\ Head(pending[t]) = "openDevice"
         /\ At(t, {"receiveTrash"})' => Calls(t) /\ Head(pending[t]) = "setupCleanConnection"
         /\ At(t, {"produceError"})' => Throws(t)
         /\ Calls(t) => \E b : /\ IsBodyOf(b, Head(pending[t]))
                               /\ pending'[t] # <<>> /\ Head(pending'[t]) = b[1]
         /\ Throws(t) => pending'[t] # <<>> /\ Head(pending'[t]) = "produceError"
<1> DEFINE s == pending[t]
           r == pending'[t]
<1>1. Sound(t, s) /\ (Advances(t) \/ Calls(t) \/ Throws(t))
  BY DEF StackInv, Moves, Aborts
<1>2. ASSUME Calls(t)
      PROVE  \E b : IsBodyOf(b, Head(s)) /\ r # <<>> /\ Head(r) = b[1]
  BY <1>1, <1>2, CallKeeps DEF Calls, Called
<1>3. ASSUME Calls(t)
      PROVE  /\ r # <<>> /\ Head(r) \notin Transfers \cup {"claimInterface", "produceError"}
             /\ Head(r) = "receiveTrash" => Head(s) = "setupCleanConnection"
  <2>1. PICK b : IsBodyOf(b, Head(s)) /\ r # <<>> /\ Head(r) = b[1]
    BY <1>2, <1>3
  <2>2. /\ b[1] \in
             {"strategy.openConnection", "strategy.closeConnection", "testHandle",
              "strategy.fetchMessages", "strategy.fetchRawDataCycles", "openDevice",
              "handleIncomingMessages", "forgetHandle", "receiveTrash",
              "setupCleanConnection"}
        /\ b[1] = "receiveTrash" => Head(s) = "setupCleanConnection"
    BY <2>1 DEF IsBodyOf, FetchMessagesOnSensor
  <2>3. QED
    BY <2>1, <2>2 DEF Transfers, DeviceWait
<1>4. ASSUME Throws(t) PROVE r # <<>> /\ Head(r) = "produceError"
  <2>1. PICK e : Threw(s, r, e)
    BY <1>4 DEF Throws
  <2>2. Handles(r, e)
    BY <1>1, <2>1, ExceptionKeeps DEF Threw
  <2>3. QED
    BY <2>2 DEF Handles
<1>5. ASSUME Advances(t)
      PROVE  /\ r # <<>> /\ Head(r) \in Transfers => Head(s) = "testHandle"
             /\ r # <<>> /\ Head(r) = "claimInterface" => Head(s) = "openDevice"
             /\ r # <<>> => Head(r) \notin {"produceError", "receiveTrash"}
  BY <1>1, <1>5, ReturnsTo DEF Advances, Returned
<1>6. "produceError" \notin Transfers /\ "receiveTrash" \notin Transfers
  BY DEF Transfers, DeviceWait
<1>7. QED
  BY <1>1, <1>2, <1>3, <1>4, <1>5, <1>6 DEF At

LEMMA MoveKeepsHandle ==
  ASSUME TypeInv, StackInv, TurnInv, HandleInv, NEW t \in Thread, Moves(t), pending[t] # <<>>,
         UNCHANGED terminations,
         terminations = 0 =>
           /\ ~usedAfterClose'
           /\ usbDeviceHandle' = "closed" /\ ~aborted' => At(t, {"forgetHandle"})'
           /\ \/ Advances(t) /\ Head(pending[t]) \in {"testHandle", "openDevice"}
              \/ Calls(t) /\ Head(pending[t]) = "setupCleanConnection"
              => usbDeviceHandle' = "open"
  PROVE  HandleInv'
<1>1. ASSUME terminations = 0, ~aborted',
             NEW u \in Thread, At(u, Using)'
      PROVE  usbDeviceHandle' = "open"
  <2>1. u = t
    <3>1. u # t => pending'[u] = <<>>
      BY <1>1, WorksAlone DEF Moves, Advances, Calls, Throws, Aborts, Only
    <3>2. QED
      BY <1>1, <3>1 DEF At
  <2>2. At(t, Transfers)' \/ At(t, {"claimInterface"})' \/ At(t, {"receiveTrash"})'
    BY <1>1, <2>1 DEF At, Using
  <2>3. QED
    BY <1>1, <2>2, MovesTo
<1>2. QED
  BY <1>1 DEF HandleInv

LEMMA HandleFacts ==
  ASSUME TurnInv, HandleInv, terminations = 0, ~aborted, NEW t \in Thread, pending[t] # <<>>
  PROVE  /\ usbDeviceHandle = "closed" => Head(pending[t]) = "forgetHandle"
         /\ Head(pending[t]) \in Using => usbDeviceHandle = "open"
         /\ ~usedAfterClose
<1>1. ASSUME usbDeviceHandle = "closed" PROVE Head(pending[t]) = "forgetHandle"
  <2>1. PICK u \in Thread : At(u, {"forgetHandle"})
    BY <1>1 DEF HandleInv
  <2>2. u = t
    BY <2>1, WorksAlone DEF At
  <2>3. QED
    BY <2>1, <2>2 DEF At
<1>2. Head(pending[t]) \in Using => usbDeviceHandle = "open"
  BY DEF HandleInv, At
<1>3. QED
  BY <1>1, <1>2 DEF HandleInv

LEMMA GuardianKeepsHandle ==
  ASSUME TypeInv, StackInv, TurnInv, HandleInv, ~aborted, NEW t \in Thread, GuardianStep(t)
  PROVE  HandleInv'
<1>1. Moves(t) /\ pending[t] # <<>> /\ UNCHANGED terminations
  BY GuardianMoves DEF OrdersKept
<1> DEFINE s == pending[t]
<1>2. SUFFICES ASSUME terminations = 0
               PROVE  /\ ~usedAfterClose'
                      /\ usbDeviceHandle' = "closed" /\ ~aborted' => At(t, {"forgetHandle"})'
                      /\ \/ Advances(t) /\ Head(s) \in {"testHandle", "openDevice"}
                         \/ Calls(t) /\ Head(s) = "setupCleanConnection"
                         => usbDeviceHandle' = "open"
  BY <1>1, MoveKeepsHandle
<1>3. /\ usbDeviceHandle = "closed" => Head(s) = "forgetHandle"
      /\ Head(s) \in Using => usbDeviceHandle = "open"
      /\ ~usedAfterClose /\ usbDeviceHandle \in {"null", "open", "closed"}
  BY <1>1, <1>2, HandleFacts DEF TypeInv, UsbTypes
<1>4. CASE OpenDevice(t)
  <2>1. Head(s) = "openDevice" /\ ~usedAfterClose' /\ usbDeviceHandle # "closed"
    BY <1>3, <1>4 DEF OpenDevice, At
  <2>2. \/ usbDeviceHandle' = "open"
        \/ usbDeviceHandle' = "null" /\ Fail(t, {LibUSBDeviceNotFound})
        \/ aborted' = TRUE
    BY <1>4 DEF OpenDevice
  <2>3. ASSUME Advances(t), Fail(t, {LibUSBDeviceNotFound}) PROVE FALSE
    <3>1. failures' # failures
      BY <2>3 DEF Fail, TypeInv
    <3>2. QED
      BY <2>3, <3>1 DEF Advances, Quietly
  <2>4. ASSUME Advances(t), aborted' = TRUE PROVE FALSE
    BY <2>4 DEF Advances, Quietly
  <2>5. QED
    BY <2>1, <2>2, <2>3, <2>4
<1>5. CASE CloseUSB(t)
  <2>1. Head(s) = "strategy.closeConnection" /\ ~usedAfterClose'
    BY <1>3, <1>5 DEF CloseUSB, At
  <2>2. ASSUME ~aborted' PROVE At(t, {"forgetHandle"})'
    <3>1. Call(t, <<"forgetHandle">>) /\ UNCHANGED failures
      BY <1>5, <2>2 DEF CloseUSB
    <3>2. Calls(t) /\ pending'[t] = <<"forgetHandle">> \o Tail(s)
      BY <1>1, <2>1, <3>1, CallCalls DEF IsBodyOf, TypeInv, StackInv
    <3>3. pending'[t] # <<>> /\ Head(pending'[t]) = <<"forgetHandle">>[1]
      BY <1>1, <2>1, <3>2, CallKeeps DEF IsBodyOf, StackInv
    <3>4. QED
      BY <3>3 DEF At
  <2>3. QED
    BY <2>1, <2>2
<1>6. CASE ForgetHandle(t)
  BY <1>3, <1>6 DEF ForgetHandle, At
<1>7. CASE ThrowDeviceNotFoundErrorIfNeeded(t)
  <2>1. /\ Head(s) = "testHandle" /\ ~usedAfterClose' /\ usbDeviceHandle' = usbDeviceHandle
        /\ usbDeviceHandle # "closed"
    BY <1>3, <1>7 DEF ThrowDeviceNotFoundErrorIfNeeded, At, usbVars
  <2>2. ASSUME Advances(t), usbDeviceHandle = "null" PROVE FALSE
    <3>1. Raise(t, LibUSBDeviceNotFound)
      BY <1>7, <2>2 DEF ThrowDeviceNotFoundErrorIfNeeded
    <3>2. pending'[t] = HandleCaughtError(LibUSBDeviceNotFound) \o AfterCatch(s)
      BY <1>1, <3>1 DEF Raise, TypeInv
    <3>3. Head(pending'[t]) = "produceError" /\ pending'[t] # <<>>
      <4>1. Sound(t, s) /\ s # <<>> /\ Head(s) \in StrategySteps
        BY <1>1, <2>1 DEF StackInv, StrategySteps
      <4>2. Handles(pending'[t], LibUSBDeviceNotFound)
        BY <3>2, <4>1, ExceptionKeeps
      <4>3. QED
        BY <4>2 DEF Handles
    <3>4. QED
      BY <1>1, <2>2, <3>3, ReturnsTo DEF Advances, Returned, StackInv
  <2>3. QED
    BY <1>3, <2>1, <2>2
<1>8. CASE \/ ClaimInterface(t) \/ BulkTransfer(t) \/ ReceiveQuantity(t) \/ RequestRawData(t)
           \/ ReceiveTrash(t)
  <2>1. /\ Head(s) \in Using /\ HandleIsUsed
        /\ UNCHANGED usbDeviceHandle
    BY <1>8 DEF ClaimInterface, BulkTransfer, ReceiveQuantity, RequestRawData, ReceiveTrash, At,
       Using, Transfers, DeviceWait
  <2>2. usbDeviceHandle = "open" /\ ~usedAfterClose'
    BY <1>3, <2>1 DEF HandleIsUsed
  <2>3. QED
    BY <2>1, <2>2
<1>9. CASE SetupCleanConnection(t)
  <2>1. /\ Head(s) = "setupCleanConnection" /\ UNCHANGED <<usbDeviceHandle, usedAfterClose>>
        /\ usbDeviceHandle # "closed" /\ s # <<>> /\ UNCHANGED failures
    BY <1>3, <1>9 DEF SetupCleanConnection, At, usbVars
  <2>2. ASSUME Calls(t), usbDeviceHandle = "null" PROVE FALSE
    <3>1. Call(t, <<>>)
      BY <1>9, <2>2 DEF SetupCleanConnection
    <3>2. Advances(t) /\ Sound(t, s)
      BY <2>1, <3>1, NoCallReturns DEF TypeInv, StackInv
    <3>3. PICK b : /\ IsBodyOf(b, Head(s)) /\ pending'[t] # <<>> /\ Head(pending'[t]) = b[1]
      BY <2>2, <3>2, CallKeeps DEF Calls, Called
    <3>4. b[1] = "receiveTrash"
      BY <2>1, <3>3 DEF IsBodyOf
    <3>5. QED
      BY <3>2, <3>3, <3>4, ReturnsTo DEF Advances, Returned
  <2>3. QED
    BY <1>3, <2>1, <2>2
<1>10. CASE OpenUSB(t) \/ FetchMessagesUSB(t) \/ FetchRawDataCyclesUSB(t)
  <2>1. /\ Head(s) \in {"strategy.openConnection", "strategy.fetchMessages",
                        "strategy.fetchRawDataCycles"}
        /\ UNCHANGED <<usbDeviceHandle, usedAfterClose>>
    BY <1>10 DEF OpenUSB, FetchMessagesUSB, FetchRawDataCyclesUSB, At, usbVars
  <2>2. QED
    BY <1>3, <2>1
<1>11. QED
  BY <1>4, <1>5, <1>6, <1>7, <1>8, <1>9, <1>10 DEF GuardianStep

(* A thread that touches no device leaves the handle as it was. *)
LEMMA QuietKeepsHandle ==
  ASSUME TypeInv, StackInv, TurnInv, HandleInv, ~aborted, NEW t \in Thread, QuietMove(t),
         UNCHANGED <<terminations, usbVars>>
  PROVE  HandleInv'
<1>1. Moves(t) /\ pending[t] # <<>>
  BY DEF QuietMove, Moves
<1>2. ASSUME terminations = 0
      PROVE  /\ ~usedAfterClose' /\ usbDeviceHandle' # "closed"
             /\ Head(pending[t]) \notin {"testHandle", "openDevice", "setupCleanConnection"}
  BY <1>1, <1>2, HandleFacts DEF usbVars, QuietMove, StrategySteps
<1>3. QED
  BY <1>1, <1>2, MoveKeepsHandle

-----------------------------------------------------------------------------
(* The context: it is exited for the time of a close and of the open that  *)
(* follows it.                                                             *)

LEMMA MoveKeepsContext ==
  ASSUME TypeInv, StackInv, ContextInv, NEW t \in Thread, Moves(t),
         UNCHANGED terminations, initFailed => initFailed',
         terminations = 0 /\ ~severe /\ ~initFailed' =>
           ~staleExit' /\ (usbContext' = "exited" /\ ~aborted' => At(t, Reconnecting)')
  PROVE  ContextInv'
<1> SUFFICES ASSUME terminations = 0, ~severe', ~initFailed'
             PROVE  /\ ~staleExit'
                    /\ \A u \in Thread : Reopens(pending'[u])
                    /\ usbContext' = "exited" /\ ~aborted' =>
                         \E u \in Thread : At(u, Reconnecting)'
  BY DEF ContextInv, Reconnecting, At
<1>1. ~severe /\ ~initFailed
  <2>1. severe' = severe \/ \E e : severe' = (severe \/ IsFatalForSensorAccess(e))
    BY DEF Moves, Advances, Calls, Throws, Aborts, Quietly
  <2>2. ~severe
    BY <2>1
  <2>3. QED
    BY <2>2
<1>2. \A u \in Thread : Reopens(pending[u]) /\ Sound(u, pending[u])
  BY <1>1 DEF ContextInv, StackInv
<1>3. ASSUME NEW u \in Thread PROVE Reopens(pending'[u])
  <2>1. CASE Aborts \/ u # t
    BY <1>2, <2>1 DEF Moves, Advances, Calls, Throws, Aborts, Only
  <2>2. CASE u = t /\ Advances(t)
    BY <1>2, <2>2, ReturnKeeps DEF Advances, Returned
  <2>3. CASE u = t /\ Calls(t)
    BY <1>2, <2>3, CallKeeps DEF Calls, Called
  <2>4. CASE u = t /\ Throws(t)
    <3>1. PICK e : /\ Threw(pending[t], pending'[t], e)
                   /\ severe' = (severe \/ IsFatalForSensorAccess(e))
      BY <2>4 DEF Throws
    <3>2. ~IsFatalForSensorAccess(e)
      BY <3>1
    <3>3. QED
      BY <1>2, <2>4, <3>1, <3>2, ExceptionKeeps DEF Threw
  <2>5. QED
    BY <2>1, <2>2, <2>3, <2>4 DEF Moves
<1>4. QED
  BY <1>1, <1>3

LEMMA ContextFacts ==
  ASSUME TurnInv, ContextInv, terminations = 0, ~severe, ~initFailed, ~aborted,
         NEW t \in Thread, pending[t] # <<>>
  PROVE  /\ ~staleExit /\ Reopens(pending[t])
         /\ usbContext = "exited" => Head(pending[t]) \in Reconnecting
<1>1. ASSUME usbContext = "exited" PROVE Head(pending[t]) \in Reconnecting
  <2>1. PICK u \in Thread : At(u, Reconnecting)
    BY <1>1 DEF ContextInv, Reconnecting
  <2>2. u = t
    BY <2>1, WorksAlone DEF At
  <2>3. QED
    BY <2>1, <2>2 DEF At
<1>2. QED
  BY <1>1 DEF ContextInv

LEMMA GuardianKeepsContext ==
  ASSUME TypeInv, StackInv, TurnInv, ContextInv, ~aborted, NEW t \in Thread, GuardianStep(t)
  PROVE  ContextInv'
<1> DEFINE s == pending[t]
<1>1. /\ Moves(t) /\ s # <<>> /\ UNCHANGED terminations
      /\ pending \in [Thread -> Seq(Step)] /\ Sound(t, s)
  BY GuardianMoves DEF OrdersKept, TypeInv, StackInv
<1>10. initFailed => initFailed'
  BY DEF GuardianStep, OpenUSB, OpenDevice, InitContext, ClaimInterface, SetupCleanConnection,
     ReceiveTrash, FetchMessagesUSB, ReceiveQuantity, FetchRawDataCyclesUSB, RequestRawData,
     BulkTransfer, ThrowDeviceNotFoundErrorIfNeeded, CloseUSB, ForgetHandle, usbVars
<1>2. SUFFICES ASSUME terminations = 0, ~severe, ~initFailed, ~initFailed'
               PROVE  ~staleExit' /\ (usbContext' = "exited" /\ ~aborted' => At(t, Reconnecting)')
  BY <1>1, <1>10, MoveKeepsContext
<1>3. /\ ~staleExit /\ Reopens(s)
      /\ usbContext = "exited" => Head(s) \in Reconnecting
  BY <1>1, <1>2, ContextFacts
<1>4. CASE OpenUSB(t)
  <2>1. /\ Head(s) = "strategy.openConnection" /\ UNCHANGED <<failures, staleExit>>
        /\ Call(t, <<"openDevice", "claimInterface", "setupCleanConnection">>)
    BY <1>4 DEF OpenUSB, At, usbVars
  <2> DEFINE body == <<"openDevice", "claimInterface", "setupCleanConnection">>
  <2>2. IsBodyOf(body, Head(s)) /\ body[1] = "openDevice"
    BY <2>1 DEF IsBodyOf
  <2>3. Call(t, body)
    BY <2>1
  <2> HIDE DEF body
  <2>4. pending'[t] = body \o Tail(s)
    BY <1>1, <2>1, <2>2, <2>3, CallCalls
  <2>5. pending'[t] # <<>> /\ Head(pending'[t]) = "openDevice"
    BY <1>1, <2>2, <2>4, CallKeeps
  <2>6. QED
    BY <1>3, <2>1, <2>5 DEF At, Reconnecting
<1>5. CASE OpenDevice(t)
  BY <1>2, <1>3, <1>5 DEF OpenDevice, InitContext
<1>6. CASE CloseUSB(t)
  <2>1. Head(s) = "strategy.closeConnection" /\ UNCHANGED failures
    BY <1>6 DEF CloseUSB, At
  <2>2. usbContext # "exited"
    BY <1>3, <2>1 DEF Reconnecting, Opening
  <2>3. ~staleExit'
    BY <1>3, <1>6, <2>2 DEF CloseUSB
  <2>4. ASSUME ~aborted' PROVE At(t, Reconnecting)'
    <3> DEFINE body == <<"forgetHandle">>
    <3>1. IsBodyOf(body, Head(s)) /\ body[1] = "forgetHandle"
      BY <2>1 DEF IsBodyOf
    <3>2. Call(t, body)
      BY <1>6, <2>4 DEF CloseUSB
    <3> HIDE DEF body
    <3>3. pending'[t] = body \o Tail(s)
      BY <1>1, <2>1, <3>1, <3>2, CallCalls
    <3>4. pending'[t] # <<>> /\ Head(pending'[t]) = "forgetHandle"
      BY <1>1, <3>1, <3>3, CallKeeps
    <3>5. QED
      BY <3>4 DEF At, Reconnecting
  <2>5. QED
    BY <2>3, <2>4
<1>7. CASE ForgetHandle(t)
  <2>1. Head(s) = "forgetHandle" /\ UNCHANGED <<failures, staleExit>> /\ Continue(t)
    BY <1>7 DEF ForgetHandle, At
  <2>2. Advances(t)
    BY <1>1, <2>1, ContinueReturns
  <2>3. pending'[t] # <<>> /\ Head(pending'[t]) = "openConnection"
    BY <1>1, <1>3, <2>1, <2>2, ReturnsTo DEF Advances, Returned
  <2>4. QED
    BY <1>3, <2>1, <2>3 DEF At, Reconnecting, Opening
<1>8. CASE \/ ClaimInterface(t) \/ BulkTransfer(t) \/ ReceiveQuantity(t) \/ RequestRawData(t)
           \/ SetupCleanConnection(t) \/ FetchMessagesUSB(t) \/ FetchRawDataCyclesUSB(t)
           \/ ThrowDeviceNotFoundErrorIfNeeded(t) \/ ReceiveTrash(t)
  <2>1. Head(s) \notin Reconnecting
    BY <1>8 DEF ClaimInterface, BulkTransfer, ReceiveQuantity, RequestRawData, ReceiveTrash,
       SetupCleanConnection, FetchMessagesUSB, FetchRawDataCyclesUSB,
       ThrowDeviceNotFoundErrorIfNeeded, At, Reconnecting, Opening
  <2>2. UNCHANGED <<usbContext, staleExit>>
    BY <1>8 DEF ReceiveTrash, ClaimInterface, BulkTransfer, ReceiveQuantity, RequestRawData,
       SetupCleanConnection, FetchMessagesUSB, FetchRawDataCyclesUSB,
       ThrowDeviceNotFoundErrorIfNeeded, usbVars
  <2>3. QED
    BY <1>3, <2>1, <2>2
<1>9. QED
  BY <1>4, <1>5, <1>6, <1>7, <1>8 DEF GuardianStep

(* A thread that touches no device leaves the context as it was. *)
LEMMA QuietKeepsContext ==
  ASSUME TypeInv, StackInv, TurnInv, ContextInv, ~aborted, NEW t \in Thread, QuietMove(t),
         UNCHANGED <<terminations, usbVars>>
  PROVE  ContextInv'
<1> DEFINE s == pending[t]
<1>1. Moves(t) /\ s # <<>> /\ UNCHANGED <<usbContext, staleExit, initFailed>> /\ Sound(t, s)
  BY DEF QuietMove, Moves, usbVars, StackInv
<1>2. SUFFICES ASSUME terminations = 0, ~severe, ~initFailed, usbContext = "exited", ~aborted'
               PROVE  At(t, Reconnecting)'
  <2>1. terminations = 0 /\ ~severe /\ ~initFailed => ~staleExit
    BY DEF ContextInv
  <2>2. QED
    BY <1>1, <1>2, <2>1, MoveKeepsContext
<1>3. Head(s) = "openConnection"
  <2>1. Head(s) \in Reconnecting
    BY <1>1, <1>2, ContextFacts
  <2>2. QED
    BY <2>1 DEF QuietMove, Reconnecting, Opening, StrategySteps
<1>4. Calls(t)
  BY <1>3 DEF QuietMove
<1>5. PICK b : /\ IsBodyOf(b, "openConnection")
               /\ pending'[t] # <<>> /\ Head(pending'[t]) = b[1]
  BY <1>1, <1>2, <1>3, <1>4, MovesTo
<1>6. b[1] = "strategy.openConnection"
  BY <1>5 DEF IsBodyOf
<1>7. QED
  BY <1>5, <1>6 DEF At, Reconnecting, Opening

-----------------------------------------------------------------------------
(* The announcement: one that was used up is not used again, before the    *)
(* next query, but after one that failed.                                  *)

LEMMA MoveKeepsAnnouncement ==
  ASSUME TypeInv, StackInv, AnnouncementInv, ~aborted, NEW t \in Thread, Moves(t),
         UNCHANGED <<queried, fresh>>,
         Head(pending[t]) # "strategy.fetchMessages",
         Head(pending[t]) = "handleIncomingMessages" => Calls(t)
  PROVE  AnnouncementInv'
<1> DEFINE s == pending[t]
           r == pending'[t]
<1> SUFFICES ASSUME queried, ~fresh, ~aborted'
             PROVE  At("communicator", Querying)' \/ LacksRaw(pending'["communicator"])
  BY DEF AnnouncementInv, Querying, At
<1>1. At("communicator", Querying) \/ LacksRaw(pending["communicator"])
  BY DEF AnnouncementInv, Querying
<1>2. Sound(t, s) /\ s # <<>> /\ (Advances(t) \/ Calls(t) \/ Throws(t)) /\ Only(t)
  BY DEF StackInv, Moves, Aborts, Advances, Returned, Calls, Called, Throws, Threw
<1>3. CASE t # "communicator"
  <2>1. pending'["communicator"] = pending["communicator"]
    BY <1>2, <1>3 DEF Only, Thread
  <2>2. QED
    BY <1>1, <2>1 DEF At
<1>4. CASE t = "communicator" /\ Calls(t)
  <2>1. PICK b : IsBodyOf(b, Head(s)) /\ r = b \o Tail(s)
    BY <1>4 DEF Calls, Called
  <2>2. r # <<>> /\ Head(r) = b[1] /\ (LacksRaw(s) /\ Head(s) # "run" => LacksRaw(r))
    BY <1>2, <2>1, CallKeeps
  <2>3. CASE Head(s) \in {"run", "handleIncomingMessages"}
    <3>1. b[1] \in Querying
      BY <2>1, <2>3 DEF IsBodyOf, Querying
    <3>2. QED
      BY <1>4, <2>2, <3>1 DEF At
  <2>4. CASE Head(s) \notin {"run", "handleIncomingMessages"}
    <3>1. LacksRaw(s)
      BY <1>1, <1>4, <2>4 DEF At, Querying
    <3>2. QED
      BY <1>4, <2>2, <2>4, <3>1
  <2>5. QED
    BY <2>3, <2>4
<1>5. CASE t = "communicator" /\ ~Calls(t)
  <2>1. LacksRaw(s)
    BY <1>1, <1>5 DEF At, Querying
  <2>2. ASSUME Advances(t) PROVE LacksRaw(r)
    BY <1>2, <2>1, <2>2, ReturnKeeps DEF Advances, Returned
  <2>3. ASSUME Throws(t) PROVE LacksRaw(r)
    BY <1>2, <2>1, <2>3, ExceptionKeeps DEF Throws, Threw
  <2>4. QED
    BY <1>2, <1>5, <2>2, <2>3
<1>6. QED
  BY <1>3, <1>4, <1>5

LEMMA GuardianKeepsAnnouncement ==
  ASSUME TypeInv, StackInv, AnnouncementInv, ~aborted, NEW t \in Thread, GuardianStep(t)
  PROVE  AnnouncementInv'
<1> DEFINE s == pending[t]
           r == pending'[t]
<1>1. Moves(t) /\ s # <<>> /\ Sound(t, s)
  BY GuardianMoves DEF StackInv
<1>2. CASE FetchMessagesUSB(t)
  BY <1>2 DEF FetchMessagesUSB, AnnouncementInv
<1>3. CASE RequestRawData(t)
  <2>1. s # <<>> /\ Head(s) = "requestRawData" /\ Head(s) \in StrategySteps \cap RawSteps
    BY <1>3 DEF RequestRawData, At, StrategySteps, DeviceWait, RawSteps
  <2>2. t = "communicator"
    <3>1. Head(s) \in Work(t)
      BY <1>1, <2>1, SoundTail DEF StackInv
    <3>2. QED
      BY <2>1, <3>1 DEF Work, Connecting, Marks, Thread
  <2>3. ASSUME ~aborted' PROVE LacksRaw(r)
    <3>1. Succeed(t) \/ Fail(t, TransferErrors)
      BY <1>3, <2>3 DEF RequestRawData, Undefined
    <3>2. Sound(t, s)
      BY DEF StackInv
    <3>3. CASE Succeed(t)
      <4>1. Advances(t)
        BY <2>1, <3>3, ContinueReturns DEF Succeed, TypeInv
      <4>2. QED
        BY <2>1, <3>2, <4>1, ReturnKeeps DEF Advances, Returned
    <3>4. CASE Fail(t, TransferErrors)
      <4>1. Throws(t)
        BY <2>1, <3>4, FailThrows DEF TypeInv
      <4>2. QED
        BY <2>1, <3>2, <4>1, ExceptionKeeps DEF Throws, Threw
    <3>5. QED
      BY <3>1, <3>3, <3>4
  <2>4. QED
    BY <2>2, <2>3 DEF AnnouncementInv
<1>4. CASE ReceiveQuantity(t)
  <2>1. fresh' = TRUE \/ UNCHANGED <<queried, fresh>>
    BY <1>4 DEF ReceiveQuantity
  <2>2. Head(s) = "receiveQuantity"
    BY <1>4 DEF ReceiveQuantity, At
  <2>3. CASE fresh' = TRUE
    BY <2>3 DEF AnnouncementInv
  <2>4. CASE UNCHANGED <<queried, fresh>>
    BY <1>1, <2>2, <2>4, MoveKeepsAnnouncement
  <2>5. QED
    BY <2>1, <2>3, <2>4
<1>5. CASE \/ OpenUSB(t) \/ OpenDevice(t) \/ ClaimInterface(t) \/ SetupCleanConnection(t)
           \/ FetchRawDataCyclesUSB(t) \/ BulkTransfer(t)
           \/ ThrowDeviceNotFoundErrorIfNeeded(t) \/ CloseUSB(t) \/ ForgetHandle(t)
           \/ ReceiveTrash(t)
  <2>1. Head(s) \notin Querying
    BY <1>5 DEF ReceiveTrash, OpenUSB, OpenDevice, ClaimInterface, SetupCleanConnection,
       FetchRawDataCyclesUSB, BulkTransfer, ThrowDeviceNotFoundErrorIfNeeded, CloseUSB,
       ForgetHandle, At, Querying
  <2>2. UNCHANGED <<queried, fresh>>
    BY <1>5 DEF ReceiveTrash, OpenUSB, OpenDevice, ClaimInterface, SetupCleanConnection,
       FetchRawDataCyclesUSB, BulkTransfer, ThrowDeviceNotFoundErrorIfNeeded, CloseUSB,
       ForgetHandle, usbVars, announcementVars
  <2>3. QED
    BY <1>1, <2>1, <2>2, MoveKeepsAnnouncement DEF Querying
<1>6. QED
  BY <1>2, <1>3, <1>4, <1>5 DEF GuardianStep

LEMMA QuietKeepsAnnouncement ==
  ASSUME TypeInv, StackInv, AnnouncementInv, ~aborted, NEW t \in Thread, QuietMove(t),
         UNCHANGED usbVars
  PROVE  AnnouncementInv'
<1>1. /\ Moves(t) /\ UNCHANGED <<queried, fresh>>
      /\ Head(pending[t]) # "strategy.fetchMessages"
      /\ Head(pending[t]) = "handleIncomingMessages" => Calls(t)
  BY DEF QuietMove, Moves, usbVars, announcementVars, StrategySteps
<1>2. QED
  BY <1>1, MoveKeepsAnnouncement

-----------------------------------------------------------------------------
(* The termination: the main thread closes, and opens nothing.             *)

LEMMA MoveKeepsTermination ==
  ASSUME TypeInv, StackInv, TerminationInv, ~aborted, NEW t \in Thread, Moves(t),
         pending[t] # <<>>, UNCHANGED terminations, closeThrew => closeThrew',
         terminations > 0 /\ ~closeThrew' =>
           /\ t = "main" /\ Head(pending[t]) \in Closing => Advances(t) \/ Calls(t) \/ Aborts
           /\ Connected' =>
                \/ /\ Connected /\ opener' = opener
                   /\ t = "main" => Head(pending[t]) # "strategy.closeConnection"
                   /\ t = "main" /\ Head(pending[t]) = "closeConnection" => Calls(t)
                \/ t = "communicator" /\ opener' = "communicator"
                \/ t = "main" /\ Head(pending[t]) \notin Closing
  PROVE  TerminationInv'
<1> DEFINE s == pending["main"]
           r == pending'["main"]
<1> SUFFICES ASSUME terminations > 0, ~closeThrew'
             PROVE  /\ OnlyCloses(r)
                    /\ Connected' /\ opener' # "communicator" => At("main", Closes)'
  BY DEF TerminationInv, Closes, At
<1>1. /\ OnlyCloses(s) /\ Sound("main", s) /\ t \in {"main", "communicator"}
      /\ Connected /\ opener # "communicator" => At("main", Closes)
  BY DEF TerminationInv, StackInv, Thread, Closes
<1>2. t = "main" => Head(s) \in Closing
  <2>1. s # <<>> => 1 \in DOMAIN s /\ Head(s) = s[1]
    BY <1>1, TailEnds DEF Sound
  <2>2. QED
    BY <1>1, <2>1 DEF OnlyCloses
<1>3. t = "communicator" => r = s
  BY DEF Moves, Advances, Calls, Throws, Aborts, Only, Thread
<1>4. OnlyCloses(r)
  <2>1. CASE Aborts \/ t = "communicator"
    BY <1>1, <1>3, <2>1 DEF Aborts
  <2>2. CASE t = "main" /\ Advances(t)
    BY <1>1, <2>2, ReturnKeeps DEF Advances, Returned
  <2>3. CASE t = "main" /\ Calls(t)
    BY <1>1, <2>3, CallKeeps DEF Calls, Called
  <2>4. QED
    BY <1>1, <1>2, <2>1, <2>2, <2>3
<1>5. ASSUME Connected', opener' # "communicator" PROVE At("main", Closes)'
  <2>1. /\ Connected /\ opener' = opener
        /\ t = "main" => Head(s) # "strategy.closeConnection"
        /\ t = "main" /\ Head(s) = "closeConnection" => Calls(t)
    BY <1>2, <1>5
  <2>2. s # <<>> /\ Head(s) \in Closes
    BY <1>1, <1>5, <2>1 DEF At
  <2>3. CASE t = "communicator"
    BY <1>3, <2>2, <2>3 DEF At
  <2>4. CASE t = "main"
    <3>1. Head(s) = "closeConnection" /\ Calls(t)
      BY <2>1, <2>2, <2>4 DEF Closes
    <3>2. PICK b : IsBodyOf(b, Head(s)) /\ r = b \o Tail(s)
      BY <2>4, <3>1 DEF Calls, Called
    <3>3. r # <<>> /\ Head(r) = b[1]
      BY <1>1, <2>2, <3>2, CallKeeps
    <3>4. b[1] = "strategy.closeConnection"
      BY <3>1, <3>2 DEF IsBodyOf
    <3>5. QED
      BY <3>3, <3>4 DEF At, Closes
  <2>5. QED
    BY <1>1, <2>3, <2>4
<1>6. QED
  BY <1>4, <1>5

LEMMA GuardianKeepsTermination ==
  ASSUME TypeInv, StackInv, StrategyInv, TerminationInv, ~aborted, NEW t \in Thread,
         strategy = "guardian", GuardianStep(t), UNCHANGED kvaserVars,
         opener' = IF Connected' /\ ~Connected THEN t ELSE opener
  PROVE  TerminationInv'
<1> DEFINE s == pending[t]
<1>1. /\ Moves(t) /\ s # <<>> /\ UNCHANGED <<terminations, closeThrew>>
      /\ pending \in [Thread -> Seq(Step)] /\ Sound(t, s)
  BY GuardianMoves DEF OrdersKept, TypeInv, StackInv, kvaserVars
<1>2. /\ Connected <=> usbDeviceHandle = "open"
      /\ Connected' <=> usbDeviceHandle' = "open"
      /\ t \in {"main", "communicator"}
  BY DEF StrategyInv, Connected, Thread, kvaserVars
<1>3. CASE OpenDevice(t)
  <2>1. Head(s) = "openDevice" /\ Head(s) \notin Closing
    BY <1>3 DEF OpenDevice, At, Closing
  <2>2. QED
    BY <1>1, <1>2, <2>1, MoveKeepsTermination
<1>4. CASE CloseUSB(t)
  <2>1. /\ Head(s) = "strategy.closeConnection" /\ UNCHANGED failures
        /\ usbDeviceHandle' # "open"
    BY <1>4 DEF CloseUSB, At
  <2>2. Call(t, <<"forgetHandle">>) => Calls(t)
    BY <1>1, <2>1, CallCalls DEF IsBodyOf
  <2>3. Calls(t) \/ Aborts
    BY <1>4, <2>1, <2>2 DEF CloseUSB, Aborts
  <2>4. ~Connected'
    BY <1>2, <2>1
  <2>5. QED
    BY <1>1, <2>3, <2>4, MoveKeepsTermination
<1>5. CASE ForgetHandle(t)
  <2>1. /\ Head(s) = "forgetHandle" /\ UNCHANGED failures
        /\ usbDeviceHandle' # "open" /\ Continue(t)
    BY <1>5 DEF ForgetHandle, At
  <2>2. Advances(t)
    BY <1>1, <2>1, ContinueReturns
  <2>3. ~Connected'
    BY <1>2, <2>1
  <2>4. QED
    BY <1>1, <2>2, <2>3, MoveKeepsTermination
<1>6. CASE \/ OpenUSB(t) \/ ClaimInterface(t) \/ BulkTransfer(t) \/ ReceiveQuantity(t)
           \/ RequestRawData(t) \/ SetupCleanConnection(t) \/ FetchMessagesUSB(t)
           \/ FetchRawDataCyclesUSB(t) \/ ThrowDeviceNotFoundErrorIfNeeded(t)
           \/ ReceiveTrash(t)
  <2>1. Head(s) \notin Closing
    BY <1>6 DEF ReceiveTrash, OpenUSB, ClaimInterface, BulkTransfer, ReceiveQuantity, RequestRawData,
       SetupCleanConnection, FetchMessagesUSB, FetchRawDataCyclesUSB,
       ThrowDeviceNotFoundErrorIfNeeded, At, Closing
  <2>2. UNCHANGED usbDeviceHandle
    BY <1>6 DEF ReceiveTrash, OpenUSB, ClaimInterface, BulkTransfer, ReceiveQuantity, RequestRawData,
       SetupCleanConnection, FetchMessagesUSB, FetchRawDataCyclesUSB,
       ThrowDeviceNotFoundErrorIfNeeded, usbVars
  <2>3. Head(s) \notin {"closeConnection", "strategy.closeConnection"}
    BY <2>1 DEF Closing
  <2>4. opener' = opener /\ (Connected' => Connected)
    BY <1>2, <2>2
  <2>5. QED
    BY <1>1, <2>1, <2>3, <2>4, MoveKeepsTermination
<1>7. QED
  BY <1>3, <1>4, <1>5, <1>6 DEF GuardianStep

LEMMA KvaserKeepsTermination ==
  ASSUME TypeInv, StackInv, StrategyInv, TerminationInv, ~aborted, NEW t \in Thread,
         strategy = "kvaser", KvaserStep(t), UNCHANGED usbVars,
         opener' = IF Connected' /\ ~Connected THEN t ELSE opener
  PROVE  TerminationInv'
<1> DEFINE s == pending[t]
<1>1. /\ Moves(t) /\ s # <<>> /\ UNCHANGED terminations /\ closeThrew \in BOOLEAN
      /\ pending \in [Thread -> Seq(Step)] /\ Sound(t, s)
  BY KvaserMoves DEF OrdersKept, TypeInv, KvaserTypes, StackInv
<1>2. /\ Connected <=> openHandles # {}
      /\ Connected' <=> openHandles' # {}
      /\ t \in {"main", "communicator"}
  BY DEF StrategyInv, Connected, Thread, usbVars
<1>3. CASE OpenCan(t)
  <2>1. Head(s) \notin Closing /\ UNCHANGED closeThrew
    BY <1>3 DEF OpenCan, At, Closing
  <2>2. \/ openHandles = {} /\ (openHandles' = {} \/ opener' = t)
        \/ openHandles # {} /\ UNCHANGED openHandles /\ opener' = opener
    BY <1>2, <1>3 DEF OpenCan
  <2>3. QED
    BY <1>1, <1>2, <2>1, <2>2, MoveKeepsTermination
<1>4. CASE FetchMessagesCan(t) \/ FetchRawDataCyclesCan(t)
  <2>1. Head(s) \notin Closing /\ UNCHANGED <<closeThrew, openHandles>>
    BY <1>4 DEF FetchMessagesCan, FetchRawDataCyclesCan, At, Closing, kvaserVars
  <2>2. opener' = opener
    BY <1>2, <2>1
  <2>3. QED
    BY <1>1, <1>2, <2>1, <2>2, MoveKeepsTermination
<1>5. CASE CloseCan(t)
  <2>1. CASE /\ communicationChannel \in openHandles /\ Succeed(t) /\ UNCHANGED closeThrew
             /\ openHandles' = openHandles \ {communicationChannel}
    <3>1. openHandles' = {}
      BY <2>1 DEF StrategyInv
    <3>2. Advances(t)
      BY <1>1, <2>1, ContinueReturns DEF Succeed
    <3>3. QED
      BY <1>1, <1>2, <2>1, <3>1, <3>2, MoveKeepsTermination
  <2>2. CASE UNCHANGED openHandles /\ CloseThrows(t)
    <3>1. /\ closeThrew => closeThrew'
          /\ t = "main" /\ terminations > 0 => closeThrew'
      BY <2>2 DEF CloseThrows
    <3>2. opener' = opener
      BY <1>2, <2>2
    <3>3. QED
      BY <1>1, <1>2, <2>2, <3>1, <3>2, MoveKeepsTermination
  <2>3. QED
    BY <1>5, <2>1, <2>2 DEF CloseCan
<1>6. QED
  BY <1>3, <1>4, <1>5 DEF KvaserStep

LEMMA QuietKeepsTermination ==
  ASSUME TypeInv, StackInv, TerminationInv, ~aborted, NEW t \in Thread, QuietMove(t),
         UNCHANGED <<terminations, usbVars, kvaserVars, opener>>
  PROVE  TerminationInv'
<1>1. /\ Moves(t) /\ pending[t] # <<>> /\ UNCHANGED closeThrew /\ Connected' = Connected
      /\ Advances(t) \/ Calls(t)
      /\ Head(pending[t]) # "strategy.closeConnection"
      /\ Head(pending[t]) = "closeConnection" => Calls(t)
  BY DEF QuietMove, Moves, usbVars, kvaserVars, Connected, StrategySteps
<1>2. QED
  BY <1>1, MoveKeepsTermination

-----------------------------------------------------------------------------
(* Over CAN: how deep the handlers nest while the channel is open.         *)

LEMMA MoveKeepsKvaserDepth ==
  ASSUME TypeInv, StackInv, TurnInv, NEW t \in Thread, Moves(t), pending[t] # <<>>,
         UNCHANGED <<terminations, destruction>>, strategy = "kvaser", UNCHANGED strategy,
         terminations = 0 /\ destruction # "done" => NestsOverCan(pending'[t], openHandles', failures'),
         failures' \in Nat
  PROVE  KvaserDepthInv'
<1> SUFFICES ASSUME terminations = 0, destruction # "done", NEW u \in Thread, u # t
             PROVE  NestsOverCan(pending'[u], openHandles', failures')
  BY DEF KvaserDepthInv
<1>1. pending'[u] = <<>>
  BY WorksAlone DEF Moves, Advances, Calls, Throws, Aborts, Only
<1>2. Depth(pending'[u]) = 0
  BY <1>1, DepthOfNothing
<1>3. communicationChannel \in openHandles' => openHandles' = {communicationChannel}
  BY DEF NestsOverCan
<1>4. QED
  BY <1>1, <1>2, <1>3 DEF NestsOverCan

(* The stack after an exception: the handler's, and one deeper at most. *)
LEMMA ThrowsNests ==
  ASSUME TypeInv, StackInv, NEW t \in Thread, NEW e, Threw(pending[t], pending'[t], e),
         NEW n \in Nat, NEW handles,
         communicationChannel \in handles =>
           handles = {communicationChannel} /\ Depth(pending[t]) <= n,
         handles = {} => IsCloseConnectionRequired(e)
  PROVE  NestsOverCan(pending'[t], handles, n)
<1>1. /\ Handles(pending'[t], e)
      /\ Depth(pending'[t]) \in Nat /\ Depth(pending[t]) \in Nat
      /\ Depth(pending'[t]) <= Depth(pending[t]) + 1
  BY ExceptionKeeps DEF Threw, StackInv
<1>2. /\ pending'[t] # <<>> /\ Head(pending'[t]) = "produceError"
      /\ Head(pending'[t]) \notin Opening
      /\ handles = {} => pending'[t][2] = "closeConnection"
  BY <1>1 DEF Handles, Opening
<1>3. communicationChannel \in handles =>
        handles = {communicationChannel} /\ Depth(pending'[t]) <= n + 1
  BY <1>1
<1>4. QED
  BY <1>2, <1>3 DEF NestsOverCan

(* The stack after a return that opens nothing. *)
LEMMA ReturnNests ==
  ASSUME TypeInv, StackInv, NEW t \in Thread, Returned(pending[t], pending'[t]),
         NEW n \in Nat, NEW handles,
         communicationChannel \in handles =>
           handles = {communicationChannel} /\ Depth(pending[t]) <= n + 1,
         pending'[t] # <<>> /\ Head(pending'[t]) \in Opening =>
           /\ communicationChannel \in handles => Depth(pending'[t]) <= n
           /\ handles = {} => Depth(pending'[t]) <= n + 1
  PROVE  NestsOverCan(pending'[t], handles, n)
<1>1. /\ Depth(pending'[t]) \in Nat /\ Depth(pending[t]) \in Nat
      /\ Depth(pending'[t]) <= Depth(pending[t])
      /\ pending'[t] # <<>> => Head(pending'[t]) # "produceError"
  BY ReturnKeeps, ReturnsTo DEF Returned, StackInv
<1>2. communicationChannel \in handles =>
        handles = {communicationChannel} /\ Depth(pending'[t]) <= n + 1
  BY <1>1
<1>3. QED
  BY <1>1, <1>2 DEF NestsOverCan

LEMMA KvaserKeepsDepth ==
  ASSUME TypeInv, StackInv, TurnInv, KvaserDepthInv, ~aborted, NEW t \in Thread,
         strategy = "kvaser", KvaserStep(t), UNCHANGED strategy
  PROVE  KvaserDepthInv'
<1> DEFINE s == pending[t]
           r == pending'[t]
<1>1. /\ Moves(t) /\ s # <<>> /\ UNCHANGED terminations
      /\ pending \in [Thread -> Seq(Step)] /\ Sound(t, s)
      /\ Head(s) \in StrategySteps /\ UNCHANGED destruction
  BY KvaserMoves DEF OrdersKept, TypeInv, StackInv, KvaserStep, OpenCan, FetchMessagesCan,
     FetchRawDataCyclesCan, CloseCan, At, StrategySteps, kvaserVars
<1>2. failures \in Nat /\ failures' \in Nat /\ Depth(s) \in Nat
  <2>1. failures \in Nat /\ Depth(s) \in Nat
    BY CommunicatorBounds, <1>1, MoveDepth DEF TypeInv
  <2>2. failures' = failures \/ failures' = failures + 1
    BY <1>1 DEF Moves, Advances, Calls, Throws, Aborts, Quietly
  <2>3. QED
    BY <2>1, <2>2
<1>3. SUFFICES ASSUME terminations = 0, destruction # "done" PROVE NestsOverCan(r, openHandles', failures')
  BY <1>1, <1>2, MoveKeepsKvaserDepth
<1>4. NestsOverCan(s, openHandles, failures)
  BY <1>3 DEF KvaserDepthInv
<1>5. ASSUME Succeed(t) PROVE Returned(s, r) /\ UNCHANGED failures
  BY <1>1, <1>5, ContinueReturns DEF Succeed, Advances
<1>6. ASSUME NEW e, Raise(t, e) PROVE Threw(s, r, e)
  BY <1>1, <1>6 DEF Raise, Threw
<1>7. ASSUME Fail(t, CanlibErrors) PROVE failures' = failures + 1 /\ \E e : Threw(s, r, e)
  BY <1>6, <1>7 DEF Fail
<1>8. CASE OpenCan(t)
  <2>1. Head(s) = "strategy.openConnection" /\ Head(s) \in Opening
    BY <1>8 DEF OpenCan, At, Opening
  <2>2. CASE /\ openHandles = {} /\ (Succeed(t) \/ Fail(t, CanlibErrors))
             /\ \E handle \in CanHandle : openHandles' = {handle}
    <3>1. Depth(s) <= failures + 1
      BY <1>1, <1>4, <2>1, <2>2 DEF NestsOverCan
    <3>2. PICK handle : openHandles' = {handle}
      BY <2>2
    <3>3. CASE Succeed(t)
      <4>1. Returned(s, r) /\ UNCHANGED failures
        BY <1>5, <3>3
      <4>2. r # <<>> /\ Head(r) \in Opening => Depth(r) <= failures
        <5>1. Depth(r) < Depth(s) \/ (r # <<>> /\ Head(r) = "launch")
          BY <1>1, <2>1, <4>1, ReturnsTo DEF Returned
        <5>2. Depth(r) \in Nat
          BY <1>1, MoveDepth
        <5>3. QED
          BY <1>2, <3>1, <5>1, <5>2 DEF Opening
      <4>3. QED
        BY <1>2, <3>1, <3>2, <4>1, <4>2, ReturnNests
    <3>4. CASE Fail(t, CanlibErrors)
      <4>1. PICK e : Threw(s, r, e)
        BY <1>7, <3>4
      <4>2. Depth(s) <= failures'
        BY <1>7, <3>1, <3>4
      <4>3. QED
        BY <1>2, <3>2, <4>1, <4>2, ThrowsNests
    <3>5. QED
      BY <2>2, <3>3, <3>4
  <2>3. CASE openHandles # {} /\ Raise(t, InvalidHandle) /\ UNCHANGED <<openHandles, failures>>
    <3>1. communicationChannel \in openHandles =>
            openHandles = {communicationChannel} /\ Depth(s) <= failures
      BY <1>1, <1>4, <2>1 DEF NestsOverCan
    <3>2. QED
      BY <1>2, <1>3, <1>6, <2>3, <3>1, ThrowsNests
  <2>4. CASE openHandles = {} /\ Fail(t, {InvalidHandle}) /\ UNCHANGED openHandles
    <3>1. Threw(s, r, InvalidHandle)
      BY <1>6, <2>4 DEF Fail
    <3>2. QED
      BY <1>2, <2>4, <3>1, ThrowsNests, InvalidHandleCloses
  <2>5. QED
    BY <1>8, <2>2, <2>3, <2>4 DEF OpenCan
<1>9. CASE FetchMessagesCan(t) \/ FetchRawDataCyclesCan(t)
  <2>1. Depth(s) = 0 /\ UNCHANGED openHandles
    <3>1. Head(s) \in Fetching /\ UNCHANGED openHandles
      BY <1>9 DEF FetchMessagesCan, FetchRawDataCyclesCan, At, Fetching,
         kvaserVars
    <3>2. QED
      BY <1>1, <3>1, FetchingIsNotDeep
  <2>2. communicationChannel \in openHandles => openHandles = {communicationChannel}
    BY <1>4 DEF NestsOverCan
  <2>3. CASE Succeed(t)
    <3>1. Returned(s, r) /\ UNCHANGED failures
      BY <1>5, <2>3
    <3>2. Depth(r) = 0
      <4>1. Depth(r) \in Nat /\ Depth(r) <= Depth(s)
        BY <1>1, <3>1, ReturnKeeps DEF Returned
      <4>2. QED
        BY <2>1, <4>1
    <3>3. QED
      BY <1>2, <2>1, <2>2, <3>1, <3>2, ReturnNests
  <2>4. CASE communicationChannel \in openHandles /\ Fail(t, CanlibErrors)
    <3>1. PICK e : Threw(s, r, e)
      BY <1>7, <2>4
    <3>2. QED
      BY <1>2, <1>3, <2>1, <2>2, <2>4, <3>1, ThrowsNests
  <2>5. CASE Raise(t, InvalidHandle) /\ UNCHANGED failures
    BY <1>2, <1>3, <1>6, <2>1, <2>2, <2>5, ThrowsNests, InvalidHandleCloses
  <2>6. QED
    BY <1>9, <2>3, <2>4, <2>5 DEF FetchMessagesCan, FetchRawDataCyclesCan
<1>10. CASE CloseCan(t)
  <2>1. CASE openHandles' = openHandles \ {communicationChannel} /\ Succeed(t)
             /\ communicationChannel \in openHandles
    <3>1. openHandles' = {} /\ Depth(s) <= failures + 1
      BY <1>4, <2>1 DEF NestsOverCan
    <3>2. Returned(s, r) /\ UNCHANGED failures
      BY <1>5, <2>1
    <3>3. Depth(r) <= failures + 1
      <4>1. Depth(r) \in Nat /\ Depth(r) <= Depth(s)
        BY <1>1, <3>2, ReturnKeeps DEF Returned
      <4>2. QED
        BY <1>2, <3>1, <4>1
    <3>4. QED
      BY <1>2, <3>1, <3>2, <3>3, ReturnNests
  <2>2. CASE communicationChannel \in openHandles /\ UNCHANGED openHandles /\ Fail(t, CanlibErrors)
    <3>1. openHandles = {communicationChannel} /\ Depth(s) <= failures + 1
      BY <1>4, <2>2 DEF NestsOverCan
    <3>2. PICK e : Threw(s, r, e)
      BY <1>7, <2>2
    <3>3. Depth(s) <= failures'
      BY <1>7, <2>2, <3>1
    <3>4. QED
      BY <1>2, <1>3, <2>2, <3>1, <3>2, <3>3, ThrowsNests
  <2>3. CASE /\ communicationChannel \notin openHandles
             /\ Raise(t, InvalidHandle) /\ UNCHANGED <<openHandles, failures>>
    BY <1>2, <1>3, <1>6, <2>3, ThrowsNests, InvalidHandleCloses
  <2>4. QED
    BY <1>10, <2>1, <2>2, <2>3 DEF CloseCan
<1>11. QED
  BY <1>8, <1>9, <1>10 DEF KvaserStep

LEMMA QuietKeepsKvaserDepth ==
  ASSUME TypeInv, StackInv, TurnInv, KvaserDepthInv, NEW t \in Thread,
         strategy = "kvaser", QuietMove(t), UNCHANGED <<terminations, strategy, kvaserVars>>
  PROVE  KvaserDepthInv'
<1> DEFINE s == pending[t]
           r == pending'[t]
<1>1. /\ Moves(t) /\ s # <<>> /\ Sound(t, s) /\ UNCHANGED failures /\ failures \in Nat
      /\ UNCHANGED <<openHandles, destruction>>
  BY CommunicatorBounds DEF QuietMove, Moves, StackInv, Advances, Calls, Quietly, TypeInv,
     kvaserVars
<1>2. SUFFICES ASSUME terminations = 0, destruction # "done"
               PROVE  NestsOverCan(r, openHandles, failures)
  BY <1>1, MoveKeepsKvaserDepth
<1>3. NestsOverCan(s, openHandles, failures) /\ Depth(s) \in Nat /\ Depth(r) \in Nat
  BY <1>1, <1>2, MoveDepth DEF KvaserDepthInv
<1>4. CASE Calls(t)
  <2>1. PICK b : IsBodyOf(b, Head(s)) /\ r = b \o Tail(s)
    BY <1>4 DEF Calls, Called
  <2>2. r # <<>> /\ Head(r) = b[1] /\ Depth(r) = Depth(s)
    BY <1>1, <2>1, CallKeeps
  <2>3. b[1] # "produceError" /\ (b[1] \in Opening => Head(s) \in Opening)
    BY <2>1 DEF IsBodyOf, FetchMessagesOnSensor, Opening
  <2>4. QED
    BY <1>1, <1>3, <2>2, <2>3 DEF NestsOverCan
<1>5. CASE ~Calls(t)
  <2>1. Advances(t) /\ Returned(s, r) /\ Head(s) \in {"produceError", "run", "order", "exitSafely"}
    BY <1>5 DEF QuietMove, Advances
  <2>2. ASSUME r # <<>>, Head(r) \in Opening
        PROVE  /\ communicationChannel \in openHandles => Depth(r) <= failures
               /\ openHandles = {} => Depth(r) <= failures + 1
    <3>1. Head(s) = "produceError" /\ Depth(r) < Depth(s) /\ s[2] # "closeConnection"
      BY <1>1, <2>1, <2>2, ReturnsTo DEF Returned, Opening
    <3>2. communicationChannel \in openHandles => Depth(s) <= failures + 1
      BY <1>3 DEF NestsOverCan
    <3>3. openHandles # {}
      BY <1>1, <1>3, <3>1 DEF NestsOverCan
    <3>4. QED
      BY <1>1, <1>3, <3>1, <3>2, <3>3
  <2>3. communicationChannel \in openHandles =>
          openHandles = {communicationChannel} /\ Depth(s) <= failures + 1
    BY <1>3 DEF NestsOverCan
  <2>4. QED
    BY <1>1, <2>1, <2>2, <2>3, ReturnNests
<1>6. QED
  BY <1>4, <1>5

-----------------------------------------------------------------------------
(* The types, and what belongs to the other strategy.                      *)

LEMMA GuardianKeepsTypes ==
  ASSUME UsbTypes, NEW t \in Thread, GuardianStep(t)
  PROVE  UsbTypes'
<1>1. numberOfRawDataCyclesToFetch \in 0..MaxAnnounced /\ MaxAnnounced \in Nat
  BY TransferBounds DEF UsbTypes
<1>2. CASE \/ OpenUSB(t) \/ FetchRawDataCyclesUSB(t) \/ ThrowDeviceNotFoundErrorIfNeeded(t)
           \/ SetupCleanConnection(t)
  BY <1>2 DEF SetupCleanConnection, OpenUSB, FetchRawDataCyclesUSB, ThrowDeviceNotFoundErrorIfNeeded, usbVars,
     announcementVars, UsbTypes
<1>3. CASE OpenDevice(t)
  BY <1>3 DEF OpenDevice, InitContext, announcementVars, UsbTypes
<1>4. CASE ClaimInterface(t) \/ ReceiveTrash(t) \/ BulkTransfer(t)
  BY <1>4 DEF ClaimInterface, ReceiveTrash, BulkTransfer, HandleIsUsed,
     announcementVars, UsbTypes
<1>5. CASE FetchMessagesUSB(t)
  BY <1>5 DEF FetchMessagesUSB, UsbTypes
<1>6. CASE ReceiveQuantity(t)
  BY <1>6 DEF ReceiveQuantity, HandleIsUsed, UsbTypes
<1>7. CASE RequestRawData(t)
  <2>1. requested' \in 0..MAX_NUMBER_OF_BULK_FETCHABLE
    <3>1. requested' = Fetchable(numberOfRawDataCyclesToFetch)
      BY <1>7 DEF RequestRawData
    <3>2. QED
      BY <1>1, <3>1, TransferBounds DEF Fetchable
  <2>2. fresh' = FALSE /\ HandleIsUsed
    BY <1>7 DEF RequestRawData
  <2>3. UNCHANGED <<usbDeviceHandle, usbContext, closingMutex, dataCanBeFetched,
                    numberOfRawDataCyclesToFetch, queried, staleExit, initFailed>>
    BY <1>7 DEF RequestRawData
  <2>4. QED
    BY <2>1, <2>2, <2>3 DEF UsbTypes, HandleIsUsed
<1>8. CASE CloseUSB(t)
  <2>1. closingMutex' = {t} /\ UNCHANGED <<announcementVars, usedAfterClose, initFailed>>
    BY <1>8 DEF CloseUSB, LockClosing
  <2>2. /\ usbDeviceHandle' \in {"null", "closed"} /\ usbContext' \in {"null", "exited"}
        /\ staleExit' \in BOOLEAN
    BY <1>8 DEF CloseUSB
  <2>3. QED
    BY <2>1, <2>2 DEF UsbTypes, announcementVars
<1>9. CASE ForgetHandle(t)
  <2>1. /\ closingMutex' = closingMutex \ {t} /\ usbDeviceHandle' = "null"
        /\ UNCHANGED <<usbContext, announcementVars, staleExit, usedAfterClose, initFailed>>
    BY <1>9 DEF ForgetHandle
  <2>2. closingMutex' \in {{}} \cup {{u} : u \in Thread}
    <3>1. closingMutex = {} \/ \E u \in Thread : closingMutex = {u}
      BY DEF UsbTypes
    <3>2. closingMutex' = {} \/ closingMutex' = closingMutex
      BY <2>1, <3>1
    <3>3. QED
      BY <3>1, <3>2
  <2>3. QED
    BY <2>1, <2>2 DEF UsbTypes, announcementVars
<1>10. QED
  BY <1>2, <1>3, <1>4, <1>5, <1>6, <1>7, <1>8, <1>9 DEF GuardianStep

LEMMA MoveKeepsTypes ==
  ASSUME TypeInv, StackInv, LimitInv, GuardianDepthInv, ~aborted, NEW t \in Thread, Moves(t),
         UNCHANGED <<started, strategy, terminations>>,
         joinable' \in BOOLEAN, terminateOrderReceived' \in BOOLEAN,
         UsbTypes', KvaserTypes', opener' \in Thread \cup {"none"}
  PROVE  TypeInv'
<1>1. pending' \in [Thread -> Seq(Step)] /\ aborted' \in BOOLEAN /\ failures' \in 0..MaxFailures
  BY MoveKeepsStacks, MoveKeepsLimit, MoveKeepsGuardianDepth
<1>2. severe' \in BOOLEAN
  BY DEF Moves, Advances, Calls, Throws, Aborts, Quietly, TypeInv
<1>3. QED
  BY <1>1, <1>2 DEF TypeInv

LEMMA KvaserKeepsHandles ==
  ASSUME TypeInv, StrategyInv, NEW t \in Thread, KvaserStep(t), destruction # "done"
  PROVE  /\ KvaserTypes' /\ UNCHANGED destruction
         /\ openHandles' = {} \/ \E handle \in CanHandle : openHandles' = {handle}
<1>1. KvaserTypes' /\ UNCHANGED destruction
  BY DEF TypeInv, KvaserTypes, KvaserStep, OpenCan, FetchMessagesCan, FetchRawDataCyclesCan,
     CloseCan, CloseThrows, kvaserVars
<1>2. \/ UNCHANGED openHandles \/ \E handle \in CanHandle : openHandles' = {handle}
      \/ communicationChannel \in openHandles /\ openHandles' = openHandles \ {communicationChannel}
  BY DEF KvaserStep, OpenCan, FetchMessagesCan, FetchRawDataCyclesCan, CloseCan, kvaserVars
<1>3. QED
  BY <1>1, <1>2 DEF StrategyInv

-----------------------------------------------------------------------------
(* The steps of the threads keep the invariant.                            *)

(* What a step of a thread says besides what its handler does. *)
ThreadMoves(t) ==
  /\ ~aborted /\ destruction # "done" /\ UNCHANGED strategy
  /\ opener' = IF Connected' /\ ~Connected THEN t ELSE opener

LEMMA GuardianKeepsInv ==
  ASSUME SensorLinkInv, NEW t \in Thread, ThreadMoves(t), strategy = "guardian",
         GuardianStep(t), UNCHANGED kvaserVars
  PROVE  SensorLinkInv'
<1>1. /\ TypeInv /\ StackInv /\ TurnInv /\ StrategyInv /\ LimitInv /\ GuardianDepthInv
      /\ HandleInv /\ ContextInv /\ AnnouncementInv /\ TerminationInv
      /\ ~aborted /\ UNCHANGED strategy
  BY DEF SensorLinkInv, ThreadMoves
<1>2. /\ Moves(t) /\ pending[t] # <<>>
      /\ UNCHANGED <<started, terminations, joinable, terminateOrderReceived>>
  BY <1>1, GuardianMoves DEF OrdersKept
<1>3. TypeInv'
  <2>1. UsbTypes'
    BY <1>1, GuardianKeepsTypes DEF TypeInv
  <2>2. opener' \in Thread \cup {"none"}
    BY <1>1 DEF ThreadMoves, TypeInv
  <2>3. KvaserTypes'
    BY <1>1 DEF TypeInv, KvaserTypes, kvaserVars
  <2>4. QED
    BY <1>1, <1>2, <2>1, <2>2, <2>3, MoveKeepsTypes DEF TypeInv
<1>4. StackInv' /\ TurnInv' /\ LimitInv' /\ GuardianDepthInv'
  BY <1>1, <1>2, MoveKeepsStacks, MoveKeepsTurns, MoveKeepsLimit, MoveKeepsGuardianDepth
<1>5. StrategyInv' /\ KvaserDepthInv'
  BY <1>1 DEF StrategyInv, KvaserDepthInv, kvaserVars
<1>6. HandleInv' /\ ContextInv' /\ AnnouncementInv'
  BY <1>1, GuardianKeepsHandle, GuardianKeepsContext, GuardianKeepsAnnouncement
<1>7. TerminationInv'
  BY <1>1, GuardianKeepsTermination DEF ThreadMoves
<1>8. QED
  BY <1>3, <1>4, <1>5, <1>6, <1>7 DEF SensorLinkInv

LEMMA KvaserKeepsInv ==
  ASSUME SensorLinkInv, NEW t \in Thread, ThreadMoves(t), strategy = "kvaser",
         KvaserStep(t), UNCHANGED usbVars
  PROVE  SensorLinkInv'
<1>1. /\ TypeInv /\ StackInv /\ TurnInv /\ StrategyInv /\ LimitInv /\ GuardianDepthInv
      /\ KvaserDepthInv /\ HandleInv /\ ContextInv /\ TerminationInv
      /\ ~aborted /\ destruction # "done" /\ UNCHANGED strategy
  BY DEF SensorLinkInv, ThreadMoves
<1>2. /\ Moves(t) /\ pending[t] # <<>>
      /\ UNCHANGED <<started, terminations, joinable, terminateOrderReceived>>
  BY <1>1, KvaserMoves DEF OrdersKept
<1>3. /\ UNCHANGED <<usbDeviceHandle, usbContext, queried, staleExit, usedAfterClose,
                     initFailed>>
      /\ UsbTypes => UsbTypes'
      /\ usbDeviceHandle = "null" /\ usbContext = "null" /\ ~queried /\ ~staleExit
      /\ ~usedAfterClose
  BY <1>1 DEF usbVars, announcementVars, UsbTypes, StrategyInv
<1>4. TypeInv'
  <2>1. opener' \in Thread \cup {"none"}
    BY <1>1 DEF ThreadMoves, TypeInv
  <2>2. KvaserTypes'
    BY <1>1, KvaserKeepsHandles
  <2>3. QED
    BY <1>1, <1>2, <1>3, <2>1, <2>2, MoveKeepsTypes DEF TypeInv
<1>5. StackInv' /\ TurnInv' /\ LimitInv' /\ GuardianDepthInv'
  BY <1>1, <1>2, MoveKeepsStacks, MoveKeepsTurns, MoveKeepsLimit, MoveKeepsGuardianDepth
<1>6. StrategyInv' /\ KvaserDepthInv'
  <2>1. /\ UNCHANGED destruction
        /\ openHandles' = {} \/ \E handle \in CanHandle : openHandles' = {handle}
    BY <1>1, KvaserKeepsHandles
  <2>2. StrategyInv'
    BY <1>1, <1>3, <2>1 DEF StrategyInv
  <2>3. QED
    BY <1>1, <2>2, KvaserKeepsDepth
<1>7. HandleInv'
  <2>1. Head(pending[t]) \notin {"testHandle", "openDevice", "setupCleanConnection"}
    BY DEF KvaserStep, OpenCan, FetchMessagesCan, FetchRawDataCyclesCan, CloseCan, At
  <2>2. QED
    BY <1>1, <1>2, <1>3, <2>1, MoveKeepsHandle
<1>8. ContextInv'
  BY <1>1, <1>2, <1>3, MoveKeepsContext
<1>9. AnnouncementInv' /\ TerminationInv'
  BY <1>1, <1>3, KvaserKeepsTermination DEF AnnouncementInv, ThreadMoves
<1>10. QED
  BY <1>4, <1>5, <1>6, <1>7, <1>8, <1>9 DEF SensorLinkInv

LEMMA QuietKeepsInv ==
  ASSUME SensorLinkInv, NEW t \in Thread, ThreadMoves(t), QuietMove(t),
         UNCHANGED <<started, terminations, usbVars, kvaserVars>>,
         joinable' \in BOOLEAN, terminateOrderReceived' \in BOOLEAN
  PROVE  SensorLinkInv'
<1>1. /\ TypeInv /\ StackInv /\ TurnInv /\ StrategyInv /\ LimitInv /\ GuardianDepthInv
      /\ KvaserDepthInv /\ HandleInv /\ ContextInv /\ AnnouncementInv /\ TerminationInv
      /\ ~aborted /\ UNCHANGED strategy
  BY DEF SensorLinkInv, ThreadMoves
<1>2. Moves(t) /\ pending[t] # <<>>
  BY DEF QuietMove, Moves
<1>3. /\ UNCHANGED <<usbDeviceHandle, usbContext, queried, staleExit, usedAfterClose,
                     initFailed, openHandles, closeThrew, destruction>>
      /\ UsbTypes => UsbTypes'
      /\ KvaserTypes => KvaserTypes'
  BY DEF usbVars, announcementVars, UsbTypes, kvaserVars, KvaserTypes
<1>4. opener' = opener
  BY <1>3 DEF ThreadMoves, Connected
<1>5. TypeInv'
  BY <1>1, <1>2, <1>3, <1>4, MoveKeepsTypes DEF TypeInv
<1>6. StackInv' /\ TurnInv' /\ LimitInv' /\ GuardianDepthInv'
  BY <1>1, <1>2, MoveKeepsStacks, MoveKeepsTurns, MoveKeepsLimit, MoveKeepsGuardianDepth
<1>7. StrategyInv'
  BY <1>1, <1>3 DEF StrategyInv
<1>8. KvaserDepthInv'
  <2>1. CASE strategy = "kvaser"
    BY <1>1, <2>1, QuietKeepsKvaserDepth
  <2>2. CASE strategy # "kvaser"
    BY <1>1, <2>2 DEF KvaserDepthInv
  <2>3. QED
    BY <2>1, <2>2
<1>9. HandleInv' /\ ContextInv' /\ AnnouncementInv' /\ TerminationInv'
  BY <1>1, <1>4, QuietKeepsHandle, QuietKeepsContext, QuietKeepsAnnouncement,
     QuietKeepsTermination
<1>10. QED
  BY <1>5, <1>6, <1>7, <1>8, <1>9 DEF SensorLinkInv

-----------------------------------------------------------------------------
(* The start, the launch and the termination give the threads new work.    *)

IsFresh(s) == s = <<>> \/ s = <<"openConnection", "launch">> \/ s = <<"run">>

LEMMA FreshFacts ==
  ASSUME NEW s, IsFresh(s)
  PROVE  /\ Depth(s) = 0 /\ Reopens(s)
         /\ s # <<>> => Head(s) \in {"openConnection", "run"}
<1>1. CASE s = <<>>
  BY <1>1, EmptyStack, DepthOfNothing
<1>2. CASE s = <<"openConnection", "launch">>
  BY <1>2, FreshStacks
<1>3. CASE s = <<"run">>
  BY <1>3, FreshStacks
<1>4. QED
  BY <1>1, <1>2, <1>3 DEF IsFresh

LEMMA FreshKeeps ==
  ASSUME TypeInv, KvaserDepthInv, HandleInv, ContextInv, ~aborted,
         UNCHANGED <<terminations, aborted, severe, failures, usbDeviceHandle, usbContext,
                     staleExit, usedAfterClose, initFailed, openHandles, destruction,
                     strategy>>,
         \A u \in Thread : IsFresh(pending'[u]),
         terminations = 0 =>
           \A u \in Thread : pending[u] # <<>> => Head(pending[u]) = "launch"
  PROVE  LimitInv' /\ GuardianDepthInv' /\ KvaserDepthInv' /\ HandleInv' /\ ContextInv'
<1>1. /\ \A u \in Thread : Depth(pending'[u]) = 0 /\ Reopens(pending'[u])
      /\ \A u \in Thread : pending'[u] # <<>> => Head(pending'[u]) \in {"openConnection", "run"}
  BY FreshFacts
<1>2. STACK_LIMIT \in Nat /\ failures \in Nat /\ "main" \in Thread
  BY CommunicatorBounds DEF TypeInv, Thread
<1>3. LimitInv' /\ GuardianDepthInv'
  BY <1>1, <1>2 DEF LimitInv, GuardianDepthInv
<1>4. KvaserDepthInv'
  <2>1. ASSUME strategy = "kvaser", terminations = 0, destruction # "done", NEW u \in Thread
        PROVE  NestsOverCan(pending'[u], openHandles, failures)
    <3>1. communicationChannel \in openHandles => openHandles = {communicationChannel}
      BY <1>2, <2>1 DEF KvaserDepthInv, NestsOverCan
    <3>2. QED
      BY <1>1, <1>2, <3>1 DEF NestsOverCan
  <2>2. QED
    BY <2>1 DEF KvaserDepthInv
<1>5. ASSUME terminations = 0, NEW u \in Thread
      PROVE  ~At(u, Reconnecting)
  BY <1>5 DEF At, Reconnecting, Opening
<1>6. HandleInv'
  <2>1. ASSUME NEW u \in Thread PROVE ~At(u, Using)'
    BY <1>1 DEF At, Using, Transfers, DeviceWait
  <2>2. terminations = 0 => ~usedAfterClose /\ usbDeviceHandle # "closed"
    BY <1>5 DEF HandleInv, At, Reconnecting
  <2>3. QED
    BY <2>1, <2>2 DEF HandleInv
<1>7. ContextInv'
  <2>1. terminations = 0 /\ ~severe /\ ~initFailed => ~staleExit /\ usbContext # "exited"
    BY <1>5 DEF ContextInv, At, Reconnecting
  <2>2. QED
    BY <1>1, <2>1 DEF ContextInv
<1>8. QED
  BY <1>3, <1>4, <1>6, <1>7

LEMMA StartKeepsInv ==
  ASSUME SensorLinkInv, ~aborted, Start,
         UNCHANGED <<usbVars, kvaserVars, strategy, opener>>
  PROVE  SensorLinkInv'
<1> DEFINE start == <<"openConnection", "launch">>
<1>1. /\ TypeInv /\ StackInv /\ TurnInv /\ StrategyInv /\ KvaserDepthInv
      /\ HandleInv /\ ContextInv /\ AnnouncementInv
      /\ pending \in [Thread -> Seq(Step)]
      /\ Thread = {"main", "communicator"}
  BY DEF SensorLinkInv, TypeInv, Thread
<1>2. /\ ~started /\ started' = TRUE
      /\ pending' = [pending EXCEPT !["main"] = start]
      /\ UNCHANGED <<terminateOrderReceived, joinable, aborted, failures, terminations, severe>>
  BY DEF Start
<1>3. (\A u \in Thread : pending[u] = <<>>) /\ terminations = 0
  BY <1>1, <1>2 DEF TurnInv
<1>4. Sound("main", start) /\ start \in Seq(Step)
  BY FreshStacks DEF Sound
<1> HIDE DEF start
<1>5. pending'["main"] = start /\ pending'["communicator"] = <<>>
  BY <1>1, <1>2, <1>3
<1>6. \A u \in Thread : IsFresh(pending'[u])
  BY <1>1, <1>5 DEF IsFresh, start
<1>7. /\ UNCHANGED <<usbDeviceHandle, usbContext, queried, fresh, staleExit, usedAfterClose,
                     initFailed, openHandles, closeThrew, destruction>>
      /\ UsbTypes => UsbTypes'
      /\ KvaserTypes => KvaserTypes'
  BY DEF usbVars, announcementVars, UsbTypes, kvaserVars, KvaserTypes
<1>8. TypeInv'
  BY <1>1, <1>2, <1>4, <1>7 DEF TypeInv
<1>9. StackInv'
  BY <1>1, <1>4, <1>5, EmptyStack DEF StackInv
<1>10. TurnInv'
  BY <1>1, <1>2, <1>5 DEF TurnInv
<1>11. StrategyInv'
  BY <1>1, <1>7 DEF StrategyInv
<1>12. LimitInv' /\ GuardianDepthInv' /\ KvaserDepthInv' /\ HandleInv' /\ ContextInv'
  BY <1>1, <1>2, <1>3, <1>6, <1>7, FreshKeeps
<1>13. AnnouncementInv' /\ TerminationInv'
  BY <1>2, <1>3, <1>5, EmptyStack DEF AnnouncementInv, TerminationInv
<1>14. QED
  BY <1>8, <1>9, <1>10, <1>11, <1>12, <1>13 DEF SensorLinkInv

LEMMA LaunchKeepsInv ==
  ASSUME SensorLinkInv, ThreadMoves("main"), Launch, UNCHANGED <<usbVars, kvaserVars>>
  PROVE  SensorLinkInv'
<1>1. /\ TypeInv /\ StackInv /\ TurnInv /\ StrategyInv /\ KvaserDepthInv
      /\ HandleInv /\ ContextInv /\ AnnouncementInv /\ TerminationInv
      /\ Thread = {"main", "communicator"} /\ ~aborted /\ UNCHANGED strategy
  BY DEF SensorLinkInv, Thread, ThreadMoves
<1>2. /\ joinable' = TRUE
      /\ UNCHANGED <<terminateOrderReceived, started, aborted, failures, terminations, severe>>
  BY DEF Launch
<1>3. /\ pending["main"] # <<>> /\ Head(pending["main"]) = "launch"
      /\ pending' \in [Thread -> Seq(Step)] /\ StackInv'
      /\ pending'["main"] = <<>> /\ pending'["communicator"] = <<"run">>
  BY <1>1, LaunchMoves
<1>4. \A u \in Thread : IsFresh(pending'[u])
  BY <1>1, <1>3 DEF IsFresh
<1>5. /\ UNCHANGED <<usbDeviceHandle, usbContext, queried, fresh, staleExit, usedAfterClose,
                     initFailed, openHandles, closeThrew, destruction>>
      /\ UsbTypes => UsbTypes'
      /\ KvaserTypes => KvaserTypes'
  BY DEF usbVars, announcementVars, UsbTypes, kvaserVars, KvaserTypes
<1>6. opener' = opener
  BY <1>5 DEF ThreadMoves, Connected
<1>7. TypeInv'
  BY <1>1, <1>2, <1>3, <1>5, <1>6 DEF TypeInv
<1>8. TurnInv'
  BY <1>1, <1>2, <1>3 DEF TurnInv
<1>9. StrategyInv'
  BY <1>1, <1>5 DEF StrategyInv
<1>10. terminations = 0 => \A u \in Thread : pending[u] # <<>> => Head(pending[u]) = "launch"
  BY <1>1, <1>3, WorksAlone
<1>11. LimitInv' /\ GuardianDepthInv' /\ KvaserDepthInv' /\ HandleInv' /\ ContextInv'
  BY <1>1, <1>2, <1>4, <1>5, <1>10, FreshKeeps
<1>12. AnnouncementInv'
  BY <1>3, FreshStacks DEF AnnouncementInv
<1>13. TerminationInv'
  <2>1. Sound("main", pending["main"])
    BY <1>1 DEF StackInv
  <2>2. 1 \in DOMAIN pending["main"] /\ pending["main"][1] = "launch"
    BY <1>3, <2>1, TailEnds DEF Sound
  <2>3. ~OnlyCloses(pending["main"])
    BY <2>2 DEF OnlyCloses, Closing
  <2>4. QED
    BY <1>1, <1>2, <1>5, <2>3 DEF TerminationInv
<1>14. QED
  BY <1>3, <1>7, <1>8, <1>9, <1>11, <1>12, <1>13 DEF SensorLinkInv

LEMMA TerminateAndJoinKeepsInv ==
  ASSUME SensorLinkInv, ~aborted, TerminateAndJoin,
         UNCHANGED <<usbVars, kvaserVars, strategy, opener>>
  PROVE  SensorLinkInv'
<1> DEFINE term == <<"closeConnection", "order", "exitSafely">>
<1>1. /\ TypeInv /\ StackInv /\ StrategyInv /\ LimitInv /\ GuardianDepthInv /\ AnnouncementInv
      /\ pending \in [Thread -> Seq(Step)]
      /\ Thread = {"main", "communicator"}
      /\ terminations \in 0..MaxTerminations /\ MaxTerminations \in Nat
      /\ STACK_LIMIT \in Nat /\ failures \in Nat
  BY CommunicatorBounds DEF SensorLinkInv, TypeInv, Thread
<1>2. /\ started /\ terminations < MaxTerminations /\ terminations' = terminations + 1
      /\ pending' = [pending EXCEPT !["main"] = term]
      /\ UNCHANGED <<terminateOrderReceived, joinable, started, aborted, failures, severe>>
  BY DEF TerminateAndJoin
<1>3. terminations' \in 0..MaxTerminations /\ terminations' > 0 /\ terminations' # 0
  BY <1>1, <1>2
<1>4. Sound("main", term) /\ term \in Seq(Step) /\ Depth(term) = 0 /\ OnlyCloses(term)
  BY FreshStacks DEF Sound
<1>5. term # <<>> /\ Head(term) = "closeConnection"
  OBVIOUS
<1> HIDE DEF term
<1>6. pending'["main"] = term /\ pending'["communicator"] = pending["communicator"]
  BY <1>1, <1>2
<1>7. /\ UNCHANGED <<usbDeviceHandle, usbContext, queried, fresh, staleExit, usedAfterClose,
                     initFailed, openHandles, closeThrew, destruction>>
      /\ UsbTypes => UsbTypes'
      /\ KvaserTypes => KvaserTypes'
  BY DEF usbVars, announcementVars, UsbTypes, kvaserVars, KvaserTypes
<1>8. TypeInv'
  BY <1>1, <1>2, <1>3, <1>4, <1>7 DEF TypeInv
<1>9. StackInv'
  BY <1>1, <1>4, <1>6 DEF StackInv
<1>10. TurnInv'
  BY <1>2, <1>3 DEF TurnInv
<1>11. StrategyInv'
  BY <1>1, <1>7 DEF StrategyInv
<1>12. LimitInv' /\ GuardianDepthInv'
  BY <1>1, <1>2, <1>4, <1>6 DEF LimitInv, GuardianDepthInv
<1>13. KvaserDepthInv' /\ HandleInv' /\ ContextInv'
  BY <1>3 DEF KvaserDepthInv, HandleInv, ContextInv
<1>14. AnnouncementInv'
  BY <1>1, <1>2, <1>6, <1>7 DEF AnnouncementInv, At
<1>15. TerminationInv'
  BY <1>4, <1>5, <1>6 DEF TerminationInv, At, Closes
<1>16. QED
  BY <1>8, <1>9, <1>10, <1>11, <1>12, <1>13, <1>14, <1>15 DEF SensorLinkInv

(* The destruction of the CAN strategy closes its channel, or ends the      *)
(* process.                                                                *)
LEMMA DestroyKeepsInv ==
  ASSUME SensorLinkInv, ~aborted, destruction # "done", strategy = "kvaser", DestroyStrategy,
         UNCHANGED <<usbVars, strategy, opener>>
  PROVE  SensorLinkInv'
<1>1. /\ TypeInv /\ StackInv /\ TurnInv /\ StrategyInv /\ LimitInv /\ KvaserDepthInv
      /\ HandleInv /\ ContextInv /\ TerminationInv
      /\ failures \in Nat /\ failures <= MaxFailures /\ MaxFailures \in Nat
      /\ STACK_LIMIT \in Nat /\ aborted \in BOOLEAN
  BY CommunicatorBounds DEF SensorLinkInv, TypeInv
<1>2. /\ UNCHANGED <<pending, severe, closeThrew, terminateOrderReceived, joinable, started,
                     terminations>>
      /\ UNCHANGED <<usbDeviceHandle, usbContext, queried, fresh, staleExit, usedAfterClose,
                     initFailed>>
      /\ UsbTypes => UsbTypes'
  BY DEF DestroyStrategy, usbVars, announcementVars, UsbTypes
<1>3. \/ /\ openHandles' = {} /\ destruction' = "done" /\ UNCHANGED <<aborted, failures>>
      \/ /\ UNCHANGED openHandles /\ destruction' = "threw" /\ aborted' = TRUE
         /\ failures' = failures \/ (failures < MaxFailures /\ failures' = failures + 1)
  <2>1. ASSUME openHandles' = openHandles \ {communicationChannel},
               communicationChannel \in openHandles
        PROVE  openHandles' = {}
    BY <1>1, <2>1 DEF StrategyInv
  <2>2. \/ /\ communicationChannel \in openHandles
           /\ openHandles' = openHandles \ {communicationChannel}
           /\ destruction' = "done" /\ UNCHANGED <<aborted, failures>>
        \/ /\ UNCHANGED openHandles /\ destruction' = "threw" /\ aborted' = TRUE
           /\ failures' = failures \/ (failures < MaxFailures /\ failures' = failures + 1)
    BY DEF DestroyStrategy
  <2>3. CASE /\ communicationChannel \in openHandles
             /\ openHandles' = openHandles \ {communicationChannel}
             /\ destruction' = "done" /\ UNCHANGED <<aborted, failures>>
    <3>1. openHandles' = {}
      BY <2>1, <2>3
    <3>2. QED
      BY <2>3, <3>1
  <2>4. QED
    BY <2>2, <2>3
<1>4. failures' \in 0..MaxFailures /\ failures <= failures' /\ aborted' \in BOOLEAN
  <2>1. failures' = failures \/ (failures < MaxFailures /\ failures' = failures + 1)
    BY <1>3
  <2>2. failures' \in 0..MaxFailures /\ failures <= failures'
    <3>1. /\ failures \in Nat /\ failures <= MaxFailures /\ MaxFailures \in Nat
      BY <1>1
    <3>2. QED
      BY <2>1, <3>1
  <2>3. aborted' = aborted \/ aborted' = TRUE
    BY <1>3
  <2>4. aborted' \in BOOLEAN
    BY <1>1, <2>3
  <2>5. QED
    BY <2>2, <2>4
<1>5. TypeInv'
  <2>1. KvaserTypes'
    BY <1>1, <1>2, <1>3 DEF TypeInv, KvaserTypes
  <2>2. QED
    BY <1>1, <1>2, <1>4, <2>1 DEF TypeInv
<1>6. StackInv' /\ TurnInv'
  BY <1>1, <1>2 DEF StackInv, TurnInv
<1>7. StrategyInv'
  BY <1>1, <1>2, <1>3 DEF StrategyInv
<1>8. LimitInv'
  <2>1. \A u \in Thread : Depth(pending[u]) <= STACK_LIMIT /\ Depth(pending[u]) \in Nat
    BY <1>1, DepthType DEF LimitInv, TypeInv
  <2>2. QED
    BY <1>1, <1>2, <1>4, <2>1 DEF LimitInv
<1>9. GuardianDepthInv'
  BY DEF GuardianDepthInv
<1>10. KvaserDepthInv'
  <2>1. ASSUME terminations = 0, UNCHANGED openHandles, NEW u \in Thread
        PROVE  NestsOverCan(pending[u], openHandles, failures')
    <3>1. NestsOverCan(pending[u], openHandles, failures) /\ Depth(pending[u]) \in Nat
      BY <1>1, <2>1, DepthType DEF KvaserDepthInv, TypeInv
    <3>2. failures' \in Nat
      BY <1>1, <1>4
    <3>3. /\ Depth(pending[u]) <= failures => Depth(pending[u]) <= failures'
          /\ Depth(pending[u]) <= failures + 1 => Depth(pending[u]) <= failures' + 1
      BY <1>1, <1>4, <3>1, <3>2
    <3>4. QED
      BY <3>1, <3>3 DEF NestsOverCan
  <2>2. QED
    BY <1>2, <1>3, <2>1 DEF KvaserDepthInv
<1>11. HandleInv' /\ ContextInv'
  BY <1>1, <1>2, <1>3 DEF HandleInv, ContextInv, StrategyInv, At
<1>12. AnnouncementInv'
  BY <1>1, <1>2 DEF AnnouncementInv, StrategyInv
<1>13. TerminationInv'
  <2>1. Connected' => Connected
    BY <1>2, <1>3 DEF Connected
  <2>2. QED
    BY <1>1, <1>2, <2>1 DEF TerminationInv, At
<1>14. QED
  BY <1>5, <1>6, <1>7, <1>8, <1>9, <1>10, <1>11, <1>12, <1>13 DEF SensorLinkInv

-----------------------------------------------------------------------------
(* The theorems.                                                           *)

LEMMA InitSatisfiesInv ==
  ASSUME Init
  PROVE  SensorLinkInv
<1> USE DEF Init, CommunicatorInit, GuardianInit, KvaserInit
<1>1. pending = [t \in Thread |-> <<>>] /\ \A t \in Thread : pending[t] = <<>>
  OBVIOUS
<1>2. /\ STACK_LIMIT \in Nat /\ 0 \in 0..MaxFailures /\ 0 \in 0..MaxTerminations
      /\ 0 \in 0..MaxAnnounced /\ 0 \in 0..MAX_NUMBER_OF_BULK_FETCHABLE
  BY CommunicatorBounds, TransferBounds
<1>3. \A t \in Thread : Depth(pending[t]) = 0 /\ ~At(t, Reconnecting)
  BY <1>1, DepthOfNothing DEF At
<1>4. TypeInv
  <2>1. pending \in [Thread -> Seq(Step)]
    BY <1>1
  <2>2. UsbTypes
    BY <1>2 DEF UsbTypes
  <2>3. KvaserTypes
    BY DEF KvaserTypes
  <2>4. QED
    BY <1>2, <2>1, <2>2, <2>3 DEF TypeInv
<1>5. StackInv
  BY <1>1, EmptyStack DEF StackInv
<1>6. TurnInv /\ StrategyInv
  BY <1>1 DEF TurnInv, StrategyInv, Thread
<1>7. LimitInv /\ GuardianDepthInv
  BY <1>2, <1>3 DEF LimitInv, GuardianDepthInv
<1>8. KvaserDepthInv
  BY <1>1 DEF KvaserDepthInv, NestsOverCan, communicationChannel
<1>9. HandleInv /\ ContextInv
  BY <1>1, EmptyStack DEF HandleInv, ContextInv, At
<1>10. AnnouncementInv /\ TerminationInv
  BY DEF AnnouncementInv, TerminationInv
<1>11. QED
  BY <1>4, <1>5, <1>6, <1>7, <1>8, <1>9, <1>10 DEF SensorLinkInv

LEMMA StutterKeepsInv ==
  ASSUME SensorLinkInv, UNCHANGED vars
  PROVE  SensorLinkInv'
<1> USE DEF vars, communicatorVars, usbVars, announcementVars, kvaserVars, SensorLinkInv
<1>1. TypeInv' /\ StackInv' /\ TurnInv' /\ StrategyInv'
  BY DEF TypeInv, UsbTypes, KvaserTypes, StackInv, TurnInv, StrategyInv
<1>2. LimitInv' /\ GuardianDepthInv' /\ KvaserDepthInv'
  BY DEF LimitInv, GuardianDepthInv, KvaserDepthInv
<1>3. HandleInv' /\ ContextInv' /\ AnnouncementInv' /\ TerminationInv'
  BY DEF HandleInv, ContextInv, AnnouncementInv, TerminationInv, Connected, At
<1>4. QED
  BY <1>1, <1>2, <1>3

LEMMA ThreadKeepsInv ==
  ASSUME SensorLinkInv, NEW t \in Thread, ThreadStep(t)
  PROVE  SensorLinkInv'
<1>1. ThreadMoves(t)
  BY DEF ThreadStep, ThreadMoves
<1>2. TypeInv /\ StackInv
  BY DEF SensorLinkInv
<1>3. CASE strategy = "guardian" /\ GuardianStep(t) /\ UNCHANGED kvaserVars
  BY <1>1, <1>3, GuardianKeepsInv
<1>4. CASE strategy = "kvaser" /\ KvaserStep(t) /\ UNCHANGED usbVars
  BY <1>1, <1>4, KvaserKeepsInv
<1>5. CASE CommunicatorStep(t) /\ UNCHANGED <<usbVars, kvaserVars>>
  <2>1. /\ QuietMove(t)
        /\ UNCHANGED <<started, terminations, joinable, terminateOrderReceived>>
    BY <1>2, <1>5, CommunicatorMoves DEF OrdersKept
  <2>2. QED
    BY <1>1, <1>2, <1>5, <2>1, QuietKeepsInv DEF TypeInv
<1>6. CASE /\ t = "main" /\ (OrderTermination \/ ExitSafely)
           /\ UNCHANGED <<usbVars, kvaserVars>>
  <2>1. QuietMove("main") /\ UNCHANGED <<started, terminations>>
    BY <1>2, <1>6, MainMoves
  <2>2. joinable' \in BOOLEAN /\ terminateOrderReceived' \in BOOLEAN
    BY <1>2, <1>6 DEF OrderTermination, ExitSafely, TypeInv
  <2>3. QED
    BY <1>1, <1>6, <2>1, <2>2, QuietKeepsInv
<1>7. CASE t = "main" /\ Launch /\ UNCHANGED <<usbVars, kvaserVars>>
  BY <1>1, <1>7, LaunchKeepsInv
<1>8. QED
  BY <1>3, <1>4, <1>5, <1>6, <1>7 DEF ThreadStep, StrategyStep, MainStep

(* The inductive invariant holds of every execution: the stacks of the two  *)
(* threads are those that the calls, returns and exceptions of the code     *)
(* build, and handle, context, announcement and termination agree with the  *)
(* steps the threads have left.                                            *)
THEOREM SensorLinkInvHolds == Spec => []SensorLinkInv
<1>1. Init => SensorLinkInv
  BY InitSatisfiesInv
<1>2. SensorLinkInv /\ [Next]_vars => SensorLinkInv'
  <2> SUFFICES ASSUME SensorLinkInv, [Next]_vars PROVE SensorLinkInv'
    OBVIOUS
  <2>1. CASE User
    BY <2>1, StartKeepsInv, TerminateAndJoinKeepsInv, DestroyKeepsInv DEF User
  <2>2. CASE \E t \in Thread : ThreadStep(t)
    BY <2>2, ThreadKeepsInv
  <2>3. CASE UNCHANGED vars
    BY <2>3, StutterKeepsInv
  <2>4. QED
    BY <2>1, <2>2, <2>3 DEF Next
<1>3. QED
  BY <1>1, <1>2, PTL DEF Spec

(* The variables keep their types, one thread closes at a time, and a       *)
(* stack holds one handler more than the limit at most: the one whose       *)
(* exception ended the process.                                            *)
THEOREM SensorLinkIsTyped == Spec => []SensorLinkTypeOK
<1>1. SensorLinkInv => SensorLinkTypeOK
  <2> SUFFICES ASSUME SensorLinkInv PROVE SensorLinkTypeOK
    OBVIOUS
  <2>1. TypeInv /\ UsbTypes /\ LimitInv
    BY DEF SensorLinkInv, TypeInv
  <2>2. ASSUME NEW t \in Thread PROVE Depth(pending[t]) <= STACK_LIMIT + 1
    <3>1. Depth(pending[t]) \in Nat /\ STACK_LIMIT \in Nat
      BY <2>1, CommunicatorBounds, DepthType DEF TypeInv
    <3>2. Depth(pending[t]) <= STACK_LIMIT + (IF aborted THEN 1 ELSE 0)
      BY <2>1 DEF LimitInv
    <3>3. QED
      BY <3>1, <3>2
  <2>3. QED
    BY <2>1, <2>2 DEF SensorLinkTypeOK, TypeInv, UsbTypes, KvaserTypes
<1>2. QED
  BY <1>1, SensorLinkInvHolds, PTL

(* libusb_exit is called twice for one context only if an error after which *)
(* the gateway does not connect again was handled, the link was told to     *)
(* terminate, or a libusb_init failed unnoticed: with any number of other   *)
(* errors, handled one inside the other, closeConnection is always followed *)
(* by openConnection.                                                      *)
THEOREM ContextExitedOnce == Spec => []ContextIsExitedOnce
<1>1. SensorLinkInv => ContextIsExitedOnce
  <2> SUFFICES ASSUME SensorLinkInv PROVE ContextIsExitedOnce
    OBVIOUS
  <2>1. ContextInv /\ terminations \in 0..MaxTerminations /\ MaxTerminations \in Nat
    BY CommunicatorBounds DEF SensorLinkInv, TypeInv
  <2>2. terminations = 0 \/ terminations > 0
    BY <2>1
  <2>3. QED
    BY <2>1, <2>2 DEF ContextIsExitedOnce, ContextInv
<1>2. QED
  BY <1>1, SensorLinkInvHolds, PTL

(* Until the first termination every transfer gets an open handle, although *)
(* the handle is tested in another step than the one that uses it.         *)
THEOREM HandleOpenWhenUsed == Spec => []HandleIsOpenWhenUsed
<1>1. SensorLinkInv => HandleIsOpenWhenUsed
  <2> SUFFICES ASSUME SensorLinkInv PROVE HandleIsOpenWhenUsed
    OBVIOUS
  <2>1. HandleInv /\ terminations \in 0..MaxTerminations /\ MaxTerminations \in Nat
    BY CommunicatorBounds DEF SensorLinkInv, TypeInv
  <2>2. terminations = 0 \/ terminations > 0
    BY <2>1
  <2>3. QED
    BY <2>1, <2>2 DEF HandleIsOpenWhenUsed, HandleInv
<1>2. QED
  BY <1>1, SensorLinkInvHolds, PTL

(* fetchRawDataCycles asks for no more cycles than it can hold, and for     *)
(* those that the last answered query announced, once.                     *)
THEOREM RawDataRequestedAsAnnounced == Spec => []RawDataAreRequestedAsAnnounced
<1>1. SensorLinkInv => RawDataAreRequestedAsAnnounced
  <2> SUFFICES ASSUME SensorLinkInv PROVE RawDataAreRequestedAsAnnounced
    OBVIOUS
  <2>1. requested <= MAX_NUMBER_OF_BULK_FETCHABLE
    BY TransferBounds DEF SensorLinkInv, TypeInv, UsbTypes
  <2>2. ASSUME At("communicator", {"requestRawData"}), queried, ~aborted PROVE fresh
    <3>1. /\ pending["communicator"] # <<>>
          /\ Head(pending["communicator"]) = "requestRawData"
          /\ pending["communicator"] \in Seq(Step)
      BY <2>2 DEF At, SensorLinkInv, TypeInv, Thread
    <3>2. /\ 1 \in DOMAIN pending["communicator"]
          /\ pending["communicator"][1] = "requestRawData"
      BY <3>1, TailEnds
    <3>3. ~LacksRaw(pending["communicator"])
      BY <3>2 DEF LacksRaw, RawSteps
    <3>4. AnnouncementInv
      BY DEF SensorLinkInv
    <3>5. QED
      BY <2>2, <3>1, <3>3, <3>4 DEF AnnouncementInv, At, Querying
  <2>3. QED
    BY <2>1, <2>2 DEF RawDataAreRequestedAsAnnounced
<1>2. QED
  BY <1>1, SensorLinkInvHolds, PTL

(* The handlers of errors nest no deeper than the device has failed, and    *)
(* one more, but over CAN where no channel is open, as without a device, or *)
(* one whose number the strategy does not use, or after a termination.     *)
THEOREM RecursionIsPaidFor == Spec => []RecursionNeedsFailures
<1>1. SensorLinkInv => RecursionNeedsFailures
  <2> SUFFICES ASSUME SensorLinkInv, NEW t \in Thread, Depth(pending[t]) > failures + 1
               PROVE  /\ strategy = "kvaser"
                      /\ terminations > 0 \/ communicationChannel \notin openHandles
    BY DEF RecursionNeedsFailures
  <2>1. /\ GuardianDepthInv /\ KvaserDepthInv /\ strategy \in {"guardian", "kvaser"}
        /\ terminations \in Nat /\ failures \in Nat /\ Depth(pending[t]) \in Nat
    BY CommunicatorBounds, DepthType DEF SensorLinkInv, TypeInv
  <2>2. ~(Depth(pending[t]) <= failures + 1)
    BY <2>1
  <2>3. strategy = "kvaser"
    BY <2>1, <2>2 DEF GuardianDepthInv
  <2>4. terminations = 0 => communicationChannel \notin openHandles
    <3>1. destruction = "done" => openHandles = {}
      BY DEF SensorLinkInv, StrategyInv
    <3>2. QED
      BY <2>1, <2>2, <2>3, <3>1 DEF KvaserDepthInv, NestsOverCan
  <2>5. terminations = 0 \/ terminations > 0
    BY <2>1
  <2>6. QED
    BY <2>3, <2>4, <2>5
<1>2. QED
  BY <1>1, SensorLinkInvHolds, PTL

(* A device, over USB or CAN, that is connected after terminateAndJoin was  *)
(* connected by the communicator's own thread, and never by the main thread *)
(* that terminated it, unless that thread's own close threw.               *)
THEOREM OpenAfterJoinIsRecovery == Spec => []OpenAfterJoinOnlyByRecovery
<1>1. SensorLinkInv => OpenAfterJoinOnlyByRecovery
  BY DEF SensorLinkInv, OpenAfterJoinOnlyByRecovery, TerminationInv, At
<1>2. QED
  BY <1>1, SensorLinkInvHolds, PTL
(* The destructor of the CAN strategy gets through, after a termination,    *)
(* only where the channel was opened again behind that termination.        *)
THEOREM DestructionNeedsOpenChannel == Spec => []DestructionNeedsReopening
<1>1. Init => DestructionNeedsReopening
  BY DEF Init, KvaserInit, DestructionNeedsReopening
<1>2. SensorLinkInv /\ DestructionNeedsReopening /\ [Next]_vars => DestructionNeedsReopening'
  <2> SUFFICES ASSUME SensorLinkInv, DestructionNeedsReopening, [Next]_vars,
                      (terminations > 0 /\ destruction = "done")'
               PROVE  (opener = "communicator" \/ closeThrew)'
    BY DEF DestructionNeedsReopening
  <2>1. CASE destruction = "done"
    <3>1. UNCHANGED vars
      BY <2>1 DEF Next, User, ThreadStep
    <3>2. QED
      BY <2>1, <3>1 DEF DestructionNeedsReopening, vars, communicatorVars, kvaserVars
  <2>2. CASE destruction # "done"
    <3>1. destruction' # destruction
      BY <2>2
    <3>2. /\ ~aborted /\ strategy = "kvaser" /\ DestroyStrategy /\ UNCHANGED opener
      BY <3>1 DEF Next, User, ThreadStep, StrategyStep, GuardianStep, KvaserStep, OpenCan,
             FetchMessagesCan, FetchRawDataCyclesCan, CloseCan, CommunicatorStep, MainStep,
             Start, TerminateAndJoin, vars, kvaserVars
    <3>3. /\ pending["main"] = <<>> /\ openHandles # {}
          /\ UNCHANGED <<terminations, closeThrew>>
      BY <2>2, <3>2 DEF DestroyStrategy
    <3>4. opener = "communicator" \/ closeThrew
      BY <3>2, <3>3 DEF SensorLinkInv, TerminationInv, At, Connected
    <3>5. QED
      BY <3>2, <3>3, <3>4
  <2>3. QED
    BY <2>1, <2>2
<1>3. QED
  BY <1>1, <1>2, SensorLinkInvHolds, PTL DEF Spec
=============================================================================
