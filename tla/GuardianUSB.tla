---------------------------- MODULE GuardianUSB ----------------------------
(***************************************************************************)
(* GuardianUSBCommunicationStrategy over an external libusb, whose calls    *)
(* succeed or fail as they like, and end the process or do anything else   *)
(* when given a handle that is closed.  A bulk transfer is two steps: the  *)
(* test of the handle, and the transfer with whatever it holds by then.    *)
(***************************************************************************)
EXTENDS SensorCommunicator

CONSTANTS MaxAnnounced,  \* bound: the data a sensor announces at once
          MAX_NUMBER_OF_BULK_FETCHABLE

ASSUME TransferBounds ==
  MaxAnnounced \in Nat /\ MAX_NUMBER_OF_BULK_FETCHABLE \in Nat \ {0}

VARIABLES
  usbDeviceHandle,   \* "null", "open", or "closed": closed and not yet null
  usbContext,        \* "null", "live", or "exited": the pointer is kept
  closingMutex,      \* the threads that hold it: one or none
  dataCanBeFetched,
  numberOfRawDataCyclesToFetch,
  requested,         \* cycles asked for in the last request
  queried, fresh,    \* history: the last query answered; its cycles not yet asked for
  staleExit,         \* history: a context was exited twice
  usedAfterClose,    \* history: a transfer or a drain got a handle that was not open
  initFailed         \* history: libusb_init failed

announcementVars == <<dataCanBeFetched, numberOfRawDataCyclesToFetch, requested,
                      queried, fresh>>
usbVars == <<usbDeviceHandle, usbContext, closingMutex, announcementVars,
             staleExit, usedAfterClose, initFailed>>

GuardianInit ==
  /\ usbDeviceHandle = "null" /\ usbContext = "null" /\ closingMutex = {}
  /\ dataCanBeFetched = FALSE
  /\ numberOfRawDataCyclesToFetch = 0 /\ requested = 0
  /\ queried = FALSE /\ fresh = FALSE
  /\ staleExit = FALSE /\ usedAfterClose = FALSE /\ initFailed = FALSE

(* libusb's codes; SUCCESS is what a transfer that fell short is thrown as. *)
TransferErrors ==
  {GuardianUSBCommunicationError(code) : code \in CodesOf(LibusbTable) \cup {"SUCCESS"}}

ClaimErrors ==
  {GuardianUSBCommunicationError(code) : code \in {"NOT_FOUND", "BUSY", "NO_DEVICE", "OTHER"}}

OpenUSB(t) ==
  /\ At(t, {"strategy.openConnection"})
  /\ Call(t, <<"openDevice", "claimInterface", "setupCleanConnection">>)
  /\ UNCHANGED <<failures, usbVars>>

(* That libusb_init failed is not looked at: the context stays what it was. *)
InitContext ==
  \/ usbContext' = "live" /\ UNCHANGED initFailed
  \/ initFailed' = TRUE /\ UNCHANGED usbContext

(* libusb does as it likes with a context that is not live. *)
OpenDevice(t) ==
  /\ At(t, {"openDevice"})
  /\ InitContext
  /\ \/ usbDeviceHandle' = "open" /\ Succeed(t)
     \/ usbDeviceHandle' = "null" /\ Fail(t, {LibUSBDeviceNotFound})
     \/ /\ usbContext' # "live" /\ aborted' = TRUE
        /\ UNCHANGED <<usbDeviceHandle, pending, severe, failures>>
  /\ UNCHANGED <<closingMutex, announcementVars, staleExit, usedAfterClose>>

(* What happens with the handle that libusb is given. *)
HandleIsUsed == usedAfterClose' = (usedAfterClose \/ usbDeviceHandle # "open")

Undefined == usbDeviceHandle # "open" /\ aborted' = TRUE /\ UNCHANGED <<pending, severe, failures>>

ClaimInterface(t) ==
  /\ At(t, {"claimInterface"})
  /\ HandleIsUsed
  /\ Succeed(t) \/ Fail(t, ClaimErrors) \/ Undefined
  /\ UNCHANGED <<usbDeviceHandle, usbContext, closingMutex, announcementVars, staleExit, initFailed>>

(* Transfers of one millisecond while the sensor fills them with trash: one *)
(* that throws, as the test of the handle may, ends the loop.              *)
SetupCleanConnection(t) ==
  /\ At(t, {"setupCleanConnection"})
  /\ Call(t, IF usbDeviceHandle = "null" THEN <<>> ELSE <<"receiveTrash">>)
  /\ UNCHANGED <<failures, usbVars>>

ReceiveTrash(t) ==
  /\ At(t, {"receiveTrash"})
  /\ HandleIsUsed
  /\ \/ Call(t, <<"setupCleanConnection">>) /\ UNCHANGED failures
     \/ Succeed(t) \/ Undefined
  /\ UNCHANGED <<usbDeviceHandle, usbContext, closingMutex, announcementVars, staleExit, initFailed>>

ThrowDeviceNotFoundErrorIfNeeded(t) ==
  /\ At(t, {"testHandle"})
  /\ IF usbDeviceHandle = "null" THEN Raise(t, LibUSBDeviceNotFound) ELSE Continue(t)
  /\ UNCHANGED <<failures, usbVars>>

(* A transfer of no interest but for whether it works. *)
BulkTransfer(t) ==
  /\ At(t, {"sendQuery", "sendPoll", "receiveMessages", "receiveRawData"})
  /\ HandleIsUsed
  /\ Succeed(t) \/ Fail(t, TransferErrors) \/ Undefined
  /\ UNCHANGED <<usbDeviceHandle, usbContext, closingMutex, announcementVars, staleExit, initFailed>>

FetchMessagesUSB(t) ==
  /\ At(t, {"strategy.fetchMessages"})
  /\ Call(t, <<"testHandle", "sendQuery", "testHandle", "receiveQuantity">>)
  /\ queried' = FALSE
  /\ UNCHANGED <<failures, usbDeviceHandle, usbContext, closingMutex, dataCanBeFetched,
                 numberOfRawDataCyclesToFetch, requested, fresh, staleExit, usedAfterClose, initFailed>>

FetchMessagesOnSensor == <<"testHandle", "sendPoll", "testHandle", "receiveMessages">>

(* The answer: how many cycles and how many messages wait in the sensor. *)
ReceiveQuantity(t) ==
  /\ At(t, {"receiveQuantity"})
  /\ HandleIsUsed
  /\ \/ /\ dataCanBeFetched' = TRUE
        /\ numberOfRawDataCyclesToFetch' \in 0..MaxAnnounced
        /\ \E numberOfMessagesToFetch \in 0..MaxAnnounced :
             Call(t, IF numberOfMessagesToFetch > 0 THEN FetchMessagesOnSensor ELSE <<>>)
        /\ queried' = TRUE /\ fresh' = TRUE
        /\ UNCHANGED failures
     \/ Fail(t, TransferErrors) /\ UNCHANGED <<dataCanBeFetched, numberOfRawDataCyclesToFetch, queried, fresh>>
     \/ Undefined /\ UNCHANGED <<dataCanBeFetched, numberOfRawDataCyclesToFetch, queried, fresh>>
  /\ UNCHANGED <<usbDeviceHandle, usbContext, closingMutex, requested, staleExit, initFailed>>

FetchRawDataCyclesUSB(t) ==
  /\ At(t, {"strategy.fetchRawDataCycles"})
  /\ Call(t, IF dataCanBeFetched /\ numberOfRawDataCyclesToFetch > 0
             THEN <<"testHandle", "requestRawData", "testHandle", "receiveRawData">> ELSE <<>>)
  /\ UNCHANGED <<failures, usbVars>>

(* Faulty: the sensor is asked for all it announced. *)
FetchableUnclamped(n) == n

Fetchable(n) == IF n > MAX_NUMBER_OF_BULK_FETCHABLE THEN MAX_NUMBER_OF_BULK_FETCHABLE ELSE n

RequestRawData(t) ==
  /\ At(t, {"requestRawData"})
  /\ HandleIsUsed
  /\ requested' = Fetchable(numberOfRawDataCyclesToFetch)
  /\ fresh' = FALSE
  /\ Succeed(t) \/ Fail(t, TransferErrors) \/ Undefined
  /\ UNCHANGED <<usbDeviceHandle, usbContext, closingMutex, dataCanBeFetched,
                 numberOfRawDataCyclesToFetch, queried, staleExit, initFailed>>

(* Faulty: nothing keeps two threads from closing at once. *)
LockWithoutWaiting(t) == closingMutex' = closingMutex \cup {t}

LockClosing(t) == closingMutex = {} /\ closingMutex' = {t}

(* libusb_close does nothing to a null handle, libusb_exit frees the context. *)
CloseUSB(t) ==
  /\ At(t, {"strategy.closeConnection"}) /\ LockClosing(t)
  /\ usbDeviceHandle' = IF usbDeviceHandle = "null" THEN "null" ELSE "closed"
  /\ usbContext' = IF usbContext = "null" THEN "null" ELSE "exited"
  /\ staleExit' = (staleExit \/ usbContext = "exited")
  /\ \/ Call(t, <<"forgetHandle">>)
     \/ /\ usbContext = "exited" \/ usbDeviceHandle = "closed"
        /\ aborted' = TRUE /\ UNCHANGED <<pending, severe>>
  /\ UNCHANGED <<failures, announcementVars, usedAfterClose, initFailed>>

(* Faulty: the handle that was closed is kept. *)
ForgetNothing(t) ==
  /\ At(t, {"forgetHandle"})
  /\ closingMutex' = closingMutex \ {t} /\ Continue(t)
  /\ UNCHANGED <<failures, usbDeviceHandle, usbContext, announcementVars, staleExit, usedAfterClose, initFailed>>

ForgetHandle(t) ==
  /\ At(t, {"forgetHandle"})
  /\ usbDeviceHandle' = "null" /\ closingMutex' = closingMutex \ {t}
  /\ Continue(t)
  /\ UNCHANGED <<failures, usbContext, announcementVars, staleExit, usedAfterClose, initFailed>>

GuardianStep(t) ==
  /\ \/ OpenUSB(t) \/ OpenDevice(t) \/ ClaimInterface(t) \/ SetupCleanConnection(t)
     \/ ReceiveTrash(t) \/ FetchMessagesUSB(t) \/ ReceiveQuantity(t) \/ FetchRawDataCyclesUSB(t)
     \/ RequestRawData(t) \/ BulkTransfer(t) \/ ThrowDeviceNotFoundErrorIfNeeded(t)
     \/ CloseUSB(t) \/ ForgetHandle(t)
  /\ UNCHANGED <<terminateOrderReceived, joinable, started, terminations>>
=============================================================================
