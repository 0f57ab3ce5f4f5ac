------------------------ MODULE SensorCommunicator ------------------------
(***************************************************************************)
(* The communicator and the two threads that run its code: the main thread *)
(* in start and terminateAndJoin, and the communicator's own in run.  What *)
(* the strategy does in a call named "strategy..." is in the modules of    *)
(* the strategies.  Fetched data that are not default data are produced at *)
(* once; only the connection and the errors are followed here.             *)
(***************************************************************************)
EXTENDS AccessLinkErrors, CallStack

CONSTANTS MaxFailures,      \* bound: how often the device or its driver fails
          MaxTerminations,  \* bound: calls of terminateAndJoin
          STACK_LIMIT       \* bound: nested error handlers that a stack holds

ASSUME CommunicatorBounds ==
  MaxFailures \in Nat /\ MaxTerminations \in Nat /\ STACK_LIMIT \in Nat \ {0}

VARIABLES
  pending,                 \* the steps each thread has left
  terminateOrderReceived,
  joinable,                \* communicatorThread.joinable()
  started,
  aborted,                 \* the process has ended: stack exhausted, or undefined
  failures, terminations,  \* history: counted against their bounds
  severe                   \* history: an EMERGENCY or ALERT was handled

communicatorVars == <<pending, terminateOrderReceived, joinable, started,
                      aborted, failures, terminations, severe>>

Thread == {"main", "communicator"}

CommunicatorInit ==
  /\ pending = [t \in Thread |-> <<>>]
  /\ terminateOrderReceived = FALSE /\ joinable = FALSE /\ started = FALSE
  /\ aborted = FALSE
  /\ failures = 0 /\ terminations = 0 /\ severe = FALSE

At(t, steps) == pending[t] # <<>> /\ Head(pending[t]) \in steps

Continue(t) ==
  pending' = [pending EXCEPT ![t] = Resume(Tail(@))] /\ UNCHANGED <<aborted, severe>>

Call(t, body) ==
  pending' = [pending EXCEPT ![t] = Resume(body \o Tail(@))] /\ UNCHANGED <<aborted, severe>>

(* Faulty: the connection is closed after every error, and not opened. *)
HandleByClosing(e) == <<"produceError", "closeConnection", "return">>

HandleCaughtError(e) ==
  <<"produceError">>
    \o (IF IsCloseConnectionRequired(e) THEN <<"closeConnection">> ELSE <<>>)
    \o (IF IsOpenConnectionRequired(e) THEN <<"openConnection">> ELSE <<>>)
    \o <<"return">>

(* The strategy throws in t: every call of it is in a try block, whose      *)
(* handler adds the origin and handles the error.                          *)
Raise(t, e) ==
  /\ pending' = [pending EXCEPT ![t] = HandleCaughtError(e) \o AfterCatch(@)]
  /\ aborted' = (Depth(pending'[t]) > STACK_LIMIT)
  /\ severe' = (severe \/ IsFatalForSensorAccess(e))

(* The device or its driver fails with one of these errors. *)
Fail(t, errors) ==
  /\ failures < MaxFailures
  /\ failures' = failures + 1
  /\ \E e \in errors : Raise(t, e)

Succeed(t) == Continue(t) /\ UNCHANGED failures

OpenConnection(t) ==
  At(t, {"openConnection"}) /\ Call(t, <<"strategy.openConnection", "catch">>)

CloseConnection(t) ==
  At(t, {"closeConnection"}) /\ Call(t, <<"strategy.closeConnection", "catch">>)

ProduceError(t) == At(t, {"produceError"}) /\ Continue(t)

HandleIncomingMessages(t) ==
  /\ At(t, {"handleIncomingMessages"})
  /\ Call(t, <<"strategy.fetchMessages", "catch">>)

HandleIncomingRawData(t) ==
  /\ At(t, {"handleIncomingRawData"})
  /\ Call(t, <<"strategy.fetchRawDataCycles", "catch">>)

(* Faulty: the order is never looked at. *)
RunForEver(t) ==
  /\ At(t, {"run"})
  /\ Call(t, <<"handleIncomingMessages", "handleIncomingRawData", "run">>)

Run(t) ==
  /\ At(t, {"run"})
  /\ IF terminateOrderReceived THEN Continue(t)
     ELSE Call(t, <<"handleIncomingMessages", "handleIncomingRawData", "run">>)

(* What the two threads do when they call the strategy or handle an error. *)
CommunicatorStep(t) ==
  /\ \/ OpenConnection(t) \/ CloseConnection(t) \/ ProduceError(t)
     \/ HandleIncomingMessages(t) \/ HandleIncomingRawData(t) \/ Run(t)
  /\ UNCHANGED <<terminateOrderReceived, joinable, started, failures, terminations>>

Start ==
  /\ ~started /\ started' = TRUE
  /\ pending' = [pending EXCEPT !["main"] = <<"openConnection", "launch">>]
  /\ UNCHANGED <<terminateOrderReceived, joinable, aborted, failures, terminations, severe>>

(* communicatorThread = JoinableThread(run): the one it replaces was joined *)
(* in the constructor.                                                     *)
Launch ==
  /\ At("main", {"launch"})
  /\ joinable' = TRUE
  /\ pending' = [pending EXCEPT !["main"] = Resume(Tail(@)), !["communicator"] = <<"run">>]
  /\ UNCHANGED <<terminateOrderReceived, started, aborted, failures, terminations, severe>>

(* Faulty: the connection is left to the thread that is about to end. *)
TerminateWithoutClosing ==
  /\ started /\ pending["main"] = <<>> /\ terminations < MaxTerminations
  /\ terminations' = terminations + 1
  /\ pending' = [pending EXCEPT !["main"] = <<"order", "exitSafely">>]
  /\ UNCHANGED <<terminateOrderReceived, joinable, started, aborted, failures, severe>>

(* Once by hand, once more by the destructor of SensorAccessLink. *)
TerminateAndJoin ==
  /\ started /\ pending["main"] = <<>> /\ terminations < MaxTerminations
  /\ terminations' = terminations + 1
  /\ pending' = [pending EXCEPT !["main"] = <<"closeConnection", "order", "exitSafely">>]
  /\ UNCHANGED <<terminateOrderReceived, joinable, started, aborted, failures, severe>>

OrderTermination ==
  /\ At("main", {"order"})
  /\ terminateOrderReceived' = TRUE
  /\ Continue("main")
  /\ UNCHANGED <<joinable, started, failures, terminations>>

ExitSafely ==
  /\ At("main", {"exitSafely"})
  /\ joinable => pending["communicator"] = <<>>
  /\ joinable' = FALSE
  /\ Continue("main")
  /\ UNCHANGED <<terminateOrderReceived, started, failures, terminations>>

(* The main thread's own steps. *)
MainStep == Launch \/ OrderTermination \/ ExitSafely
=============================================================================
