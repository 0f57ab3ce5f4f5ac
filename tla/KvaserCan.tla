----------------------------- MODULE KvaserCan -----------------------------
(***************************************************************************)
(* KvaserCanCommunicationStrategy over an external canlib, which numbers   *)
(* its handles as it likes and lets a channel be opened once.  The channel *)
(* openConnection opens is a local of it, and the member that all else     *)
(* uses keeps the number 0.                                                *)
(***************************************************************************)
EXTENDS SensorCommunicator

CONSTANT CanHandle  \* bound: the numbers canlib gives its handles
ASSUME CanHandles == 0 \in CanHandle /\ CanHandle \subseteq Nat

VARIABLES
  openHandles,  \* canlib's
  closeThrew,   \* history: a close by the main thread threw during a termination
  destruction   \* of the strategy: "no", "done", or it "threw"

kvaserVars == <<openHandles, closeThrew, destruction>>

communicationChannel == 0

KvaserInit == openHandles = {} /\ closeThrew = FALSE /\ destruction = "no"

CanlibErrors ==
  {KvaserCommunicationError(code) : code \in CodesOf(CanlibTable \cup CanlibDriverTable)}

InvalidHandle == KvaserCommunicationError("INVHANDLE")

(* canOpenChannel, whose answer is not looked at, and three settings: what  *)
(* they are given is no handle if it failed, for want of a device or for a *)
(* channel that is open.                                                   *)
OpenCan(t) ==
  /\ At(t, {"strategy.openConnection"})
  /\ \/ /\ openHandles = {}
        /\ \E handle \in CanHandle : openHandles' = {handle}
        /\ Succeed(t) \/ Fail(t, CanlibErrors)
     \/ openHandles = {} /\ Fail(t, {InvalidHandle}) /\ UNCHANGED openHandles
     \/ openHandles # {} /\ Raise(t, InvalidHandle) /\ UNCHANGED <<openHandles, failures>>
  /\ UNCHANGED <<closeThrew, destruction>>

(* canReadWait waits without a limit. *)
FetchMessagesCan(t) ==
  /\ At(t, {"strategy.fetchMessages"})
  /\ IF communicationChannel \in openHandles
     THEN Succeed(t) \/ Fail(t, CanlibErrors)
     ELSE Raise(t, InvalidHandle) /\ UNCHANGED failures
  /\ UNCHANGED kvaserVars

FetchRawDataCyclesCan(t) ==
  At(t, {"strategy.fetchRawDataCycles"}) /\ Succeed(t) /\ UNCHANGED kvaserVars

CloseThrows(t) == closeThrew' = (closeThrew \/ (t = "main" /\ terminations > 0))

(* canBusOff, then canClose: the first that fails is thrown. *)
CloseCan(t) ==
  /\ At(t, {"strategy.closeConnection"})
  /\ \/ /\ communicationChannel \in openHandles
        /\ openHandles' = openHandles \ {communicationChannel}
        /\ Succeed(t) /\ UNCHANGED closeThrew
     \/ /\ communicationChannel \in openHandles
        /\ Fail(t, CanlibErrors) /\ UNCHANGED openHandles /\ CloseThrows(t)
     \/ /\ communicationChannel \notin openHandles
        /\ Raise(t, InvalidHandle) /\ UNCHANGED <<openHandles, failures>> /\ CloseThrows(t)
  /\ UNCHANGED destruction

(* The destructor closes the connection, in no try block: it is noexcept,  *)
(* and what the close throws ends the process.                             *)
DestroyStrategy ==
  /\ pending["main"] = <<>> /\ destruction = "no"
  /\ \/ /\ communicationChannel \in openHandles
        /\ openHandles' = openHandles \ {communicationChannel}
        /\ destruction' = "done"
        /\ UNCHANGED <<aborted, failures>>
     \/ /\ IF communicationChannel \in openHandles
          THEN failures < MaxFailures /\ failures' = failures + 1
          ELSE UNCHANGED failures
        /\ destruction' = "threw" /\ aborted' = TRUE
        /\ UNCHANGED openHandles
  /\ UNCHANGED <<pending, severe, closeThrew, terminateOrderReceived, joinable, started,
                 terminations>>

KvaserStep(t) ==
  /\ OpenCan(t) \/ FetchMessagesCan(t) \/ FetchRawDataCyclesCan(t) \/ CloseCan(t)
  /\ UNCHANGED <<terminateOrderReceived, joinable, started, terminations>>
=============================================================================
