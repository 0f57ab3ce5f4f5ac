------------------------ MODULE ServerCommunicator ------------------------
(***************************************************************************)
(* The communicator's calls of the server's strategy, by whichever thread  *)
(* is in them.  The strategy is external: a call succeeds or throws any    *)
(* error.  handleError, which is noexcept, calls the strategy itself, so   *)
(* an error that is thrown in there ends the process.                      *)
(***************************************************************************)
EXTENDS Naturals, Sequences, AccessLinkErrors

CONSTANTS Callers,           \* the threads that call the communicator
          MaxServerFailures  \* bound: the errors its strategy throws

ASSUME ServerBounds == MaxServerFailures \in Nat

VARIABLES
  serverCalls,       \* the calls each thread has left to make
  handling,          \* the threads in handleError
  serverConnection,  \* "open" or "closed"
  serverFailures,    \* history: counted against its bound
  ended              \* what ended the process, "no" while it runs

serverVars == <<serverCalls, handling, serverConnection, serverFailures>>

ServerInit ==
  /\ serverCalls = [t \in Callers |-> <<>>] /\ handling = {}
  /\ serverConnection = "closed" /\ serverFailures = 0

(* consume(Error) tests for the gateway first, and does the same for both. *)
Kind(e) == IF IsFatalForGateway(e) \/ IsFatalForSensorAccess(e) THEN "fatal" ELSE "minor"

Kinds == {Kind(e) : e \in Error}

(* Faulty: what failed is sent again, over the connection opened again. *)
HandleErrorAndSend(e) == <<"close", "open", "send">>

HandleError(e) ==
  (IF IsCloseConnectionRequired(e) THEN <<"close">> ELSE <<>>)
    \o (IF IsOpenConnectionRequired(e) THEN <<"open">> ELSE <<>>)

(* What an error leaves to do, and what the error scheduler gets. *)
Consequences == {[calls |-> HandleError(e), kind |-> Kind(e)] : e \in Error}

(* Faulty: without the try block. *)
BeginUncaught(t, call) ==
  /\ serverCalls[t] = <<>>
  /\ serverCalls' = [serverCalls EXCEPT ![t] = <<call>>]
  /\ handling' = handling \cup {t} /\ UNCHANGED <<serverConnection, serverFailures>>

(* openConnection, consume(Message), consume(RawData), closeConnection. *)
BeginServerCall(t, call) ==
  /\ serverCalls[t] = <<>>
  /\ serverCalls' = [serverCalls EXCEPT ![t] = <<call>>]
  /\ UNCHANGED <<handling, serverConnection, serverFailures>>

ServerCallReturns(t) ==
  /\ serverCalls[t] # <<>>
  /\ serverCalls' = [serverCalls EXCEPT ![t] = Tail(@)]
  /\ handling' = IF Len(serverCalls[t]) = 1 THEN handling \ {t} ELSE handling
  /\ serverConnection' = CASE Head(serverCalls[t]) = "open" -> "open"
                           [] Head(serverCalls[t]) = "close" -> "closed"
                           [] OTHER -> serverConnection
  /\ UNCHANGED <<serverFailures, ended>>

(* The error is produced, and the thread is left with what handles it. *)
ServerCallThrows(t, consequence) ==
  /\ serverCalls[t] # <<>> /\ t \notin handling /\ serverFailures < MaxServerFailures
  /\ serverFailures' = serverFailures + 1
  /\ serverCalls' = [serverCalls EXCEPT ![t] = consequence.calls]
  /\ handling' = IF consequence.calls = <<>> THEN handling ELSE handling \cup {t}
  /\ UNCHANGED <<serverConnection, ended>>

HandlerThrows(t) ==
  /\ t \in handling /\ serverFailures < MaxServerFailures
  /\ serverFailures' = serverFailures + 1 /\ ended' = "noexcept"
  /\ UNCHANGED <<serverCalls, handling, serverConnection>>
=============================================================================
