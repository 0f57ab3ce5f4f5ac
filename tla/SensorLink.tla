---------------------------- MODULE SensorLink ----------------------------
(***************************************************************************)
(* The communicator with one of its two strategies: the Guardian's over    *)
(* USB, or the AWL's over CAN.                                             *)
(***************************************************************************)
EXTENDS GuardianUSB, KvaserCan

VARIABLES strategy,  \* the strategy the communicator was constructed with
          opener     \* history: who connected last

vars == <<communicatorVars, usbVars, kvaserVars, strategy, opener>>

Init ==
  /\ CommunicatorInit /\ GuardianInit /\ KvaserInit
  /\ strategy \in {"guardian", "kvaser"} /\ opener = "none"

Connected == usbDeviceHandle = "open" \/ openHandles # {}

StrategyStep(t) ==
  \/ strategy = "guardian" /\ GuardianStep(t) /\ UNCHANGED kvaserVars
  \/ strategy = "kvaser" /\ KvaserStep(t) /\ UNCHANGED usbVars

ThreadStep(t) ==
  /\ ~aborted /\ destruction # "done"
  /\ \/ StrategyStep(t)
     \/ CommunicatorStep(t) /\ UNCHANGED <<usbVars, kvaserVars>>
     \/ t = "main" /\ MainStep /\ UNCHANGED <<usbVars, kvaserVars>>
  /\ opener' = IF Connected' /\ ~Connected THEN t ELSE opener
  /\ UNCHANGED strategy

(* What becomes of a destroyed strategy in use is not followed; the USB     *)
(* one's destructor does nothing, and the steps go on as if it lived.      *)
User ==
  /\ ~aborted /\ destruction # "done"
  /\ \/ Start /\ UNCHANGED kvaserVars
     \/ TerminateAndJoin /\ UNCHANGED kvaserVars
     \/ strategy = "kvaser" /\ DestroyStrategy
  /\ UNCHANGED <<usbVars, strategy, opener>>

Next == User \/ \E t \in Thread : ThreadStep(t)

Spec == Init /\ [][Next]_vars

(* Where a thread waits for the device without a limit: in a transfer, and  *)
(* in the loop that empties the device for as long as that sends.          *)
DeviceWait == {"sendQuery", "receiveQuantity", "sendPoll", "receiveMessages",
               "requestRawData", "receiveRawData"}

Emptying == {"setupCleanConnection", "receiveTrash"}

AtDevice(t) ==
  \/ At(t, DeviceWait \cup Emptying)
  \/ strategy = "kvaser" /\ At(t, {"strategy.fetchMessages"})

(* A thread that can run does, unless it waits for the device. *)
FairSpec == Spec /\ \A t \in Thread : WF_vars(~AtDevice(t) /\ ThreadStep(t))

-----------------------------------------------------------------------------

(* The stack holds the handlers that are open, libusb's handle and context  *)
(* are in a state libusb knows, and one thread closes at a time.           *)
SensorLinkTypeOK ==
  /\ \A t \in Thread : Depth(pending[t]) <= STACK_LIMIT + 1
  /\ joinable \in BOOLEAN /\ started \in BOOLEAN /\ terminateOrderReceived \in BOOLEAN
  /\ failures \in 0..MaxFailures /\ terminations \in 0..MaxTerminations
  /\ usbDeviceHandle \in {"null", "open", "closed"}
  /\ usbContext \in {"null", "live", "exited"}
  /\ closingMutex \in {{}} \cup {{t} : t \in Thread}
  /\ numberOfRawDataCyclesToFetch \in 0..MaxAnnounced
  /\ openHandles \subseteq CanHandle /\ destruction \in {"no", "done", "threw"}
  /\ opener \in Thread \cup {"none"}

(* A libusb context is exited once for each time it is made: a second exit *)
(* needs an error after which the connection is not opened again, a        *)
(* termination, or an init that failed unnoticed, so that the context that *)
(* is exited is an old one.  No other sequence of errors, however nested,  *)
(* closes twice.                                                           *)
ContextIsExitedOnce == staleExit => severe \/ terminations > 0 \/ initFailed

(* No transfer gets a handle that was closed, but for the main thread's    *)
(* close during a termination, which waits for no transfer.                *)
HandleIsOpenWhenUsed == usedAfterClose => terminations > 0

(* Raw data are asked for as the last answered query announced them, never *)
(* more than fit, and once; it is only after a query that failed that an   *)
(* older announcement is used again.                                       *)
RawDataAreRequestedAsAnnounced ==
  /\ requested <= MAX_NUMBER_OF_BULK_FETCHABLE
  /\ At("communicator", {"requestRawData"}) /\ queried /\ ~aborted => fresh

(* How deep the handlers of errors nest: over USB no deeper than the device *)
(* has failed, and one more for a connection found closed.  Over CAN a     *)
(* close that finds the channel closed fails, is handled by a close, and so *)
(* on until the stack is exhausted; without a termination that takes a      *)
(* channel that is not open, as when there is no device to open, or that is *)
(* not number 0.                                                           *)
RecursionNeedsFailures ==
  \A t \in Thread : Depth(pending[t]) > failures + 1
    => strategy = "kvaser" /\ (terminations > 0 \/ communicationChannel \notin openHandles)

(* A device, over USB or CAN, that is connected when terminateAndJoin has   *)
(* returned was opened again by the communicator's thread, which met the   *)
(* connection closed under it; or else main's own close threw, and the     *)
(* handler of that opened it again.                                        *)
OpenAfterJoinOnlyByRecovery ==
  terminations > 0 /\ pending["main"] = <<>> /\ ~aborted /\ Connected
    => opener = "communicator" \/ closeThrew

(* "The destructor should be noexcept, this is not": it closes once more,   *)
(* and what leaves it ends the process.  After a termination it gets        *)
(* through only where the connection was opened again behind that one: by   *)
(* the communicator's thread, or by the recovery from a close that failed.  *)
DestructionNeedsReopening ==
  terminations > 0 /\ destruction = "done"
    => opener = "communicator" \/ closeThrew

(* A termination waits for nothing but the device: if the communicator's    *)
(* waits for it end, terminateAndJoin returns, or the process ends.         *)
TerminationWaitsOnlyForDevice ==
  []<>(~AtDevice("communicator"))
    => (terminations > 0 ~> (pending["main"] = <<>> \/ aborted))
=============================================================================
