----------------------------- MODULE AccessLink -----------------------------
(***************************************************************************)
(* A SensorAccessLink from its construction to its destruction: the user's *)
(* thread, the communicator's, one for each of the five schedulers (two of *)
(* the translator, two of the server's communicator, one of errors), and   *)
(* those consume(Error) detaches.  The schedulers, the sensor's            *)
(* communicator and the ring buffers have modules of their own; here a     *)
(* scheduler has something ready or nothing, and looks at that and at its  *)
(* order one after the other.  A write activates its scheduler in the step *)
(* that stores: an activation that comes later repeats an old datum, as    *)
(* DataFlow has it, which here is one more write.                          *)
(***************************************************************************)
EXTENDS ServerCommunicator, FiniteSets

CONSTANTS Detached,  \* bound: a detached thread for each fatal error there is
          Delivered  \* bound: the schedulers that the sensor's data are for

Translating == {"tm", "tr"}
Sender == {"sm", "sr"}
DataScheduler == Translating \cup Sender
Scheduler == DataScheduler \cup {"errors"}
Worker == Scheduler \cup {"communicator"}
Terminator == {"main"} \cup Detached

ASSUME LinkAssumption ==
  /\ IsFiniteSet(Detached) /\ Detached \cap ({"main"} \cup Worker) = {}
  /\ Callers = Terminator \cup Sender
  /\ Delivered \subseteq Translating

VARIABLES
  mainAt,    \* where the user's thread is
  pc,        \* the step of terminateAndJoin each terminator is at, 0 if at none
  running,   \* "unborn", "running", "finished"; "inTurn" (the communicator);
             \* "sawEmpty" (nothing ready, the order is read next), "consuming"
  joinable, ordered,
  backlog,   \* the schedulers that have a ready input buffer
  awaitingErrors,  \* the kinds in the error scheduler's buffers, ready or not
  takenError,      \* the kind it has taken out to consume, or "none"
  lifetime,  \* "alive", "strategiesDestroyed" or "destroyed"
  raced,     \* history: the schedulers written to between their two reads
  launched,  \* history: the detached threads
  fatalErrors, fatalConsumed  \* history: produced and consumed

inputVars == <<backlog, raced, awaitingErrors, fatalErrors>>
threadVars == <<mainAt, pc, joinable, ordered, lifetime>>
consumedVars == <<takenError, launched, fatalConsumed>>
linkVars == <<inputVars, threadVars, consumedVars, running>>
vars == <<serverVars, ended, linkVars>>

Step(act, of) == [act |-> act, of |-> of]

(* Faulty: the server's connection is closed in front of its schedulers. *)
TerminateServerFirst == <<
  Step("closeSensor", "communicator"),
  Step("order", "communicator"), Step("join", "communicator"),
  Step("order", "tm"), Step("join", "tm"), Step("order", "tr"), Step("join", "tr"),
  Step("closeServer", "server"),
  Step("order", "sm"), Step("join", "sm"), Step("order", "sr"), Step("join", "sr"),
  Step("order", "errors"), Step("join", "errors")>>

(* Faulty: the schedulers of the server end before those that feed them. *)
TerminateUpstream == <<
  Step("closeSensor", "communicator"),
  Step("order", "communicator"), Step("join", "communicator"),
  Step("order", "sm"), Step("join", "sm"), Step("order", "sr"), Step("join", "sr"),
  Step("order", "tm"), Step("join", "tm"), Step("order", "tr"), Step("join", "tr"),
  Step("closeServer", "server"), Step("order", "errors"), Step("join", "errors")>>

(* terminateAndJoin of each element in turn: for one with a thread, the    *)
(* order, exitSafely testing whether it is joinable, and then its join.    *)
TerminateAndJoin == <<
  Step("closeSensor", "communicator"),
  Step("order", "communicator"), Step("join", "communicator"),
  Step("order", "tm"), Step("join", "tm"), Step("order", "tr"), Step("join", "tr"),
  Step("order", "sm"), Step("join", "sm"), Step("order", "sr"), Step("join", "sr"),
  Step("closeServer", "server"), Step("order", "errors"), Step("join", "errors")>>

Returned == Len(TerminateAndJoin) + 1

Init ==
  /\ ServerInit /\ ended = "no"
  /\ mainAt = "constructed" /\ pc = [t \in Terminator |-> 0]
  /\ running = [w \in Worker |-> IF w = "communicator" THEN "unborn" ELSE "running"]
  /\ joinable = [w \in Worker |-> w # "communicator"]
  /\ ordered = [w \in Worker |-> FALSE]
  /\ backlog = {} /\ raced = {} /\ awaitingErrors = {} /\ takenError = "none"
  /\ lifetime = "alive" /\ launched = {} /\ fatalErrors = 0 /\ fatalConsumed = FALSE

(* A write into the buffer of a scheduler.  One that comes between the test *)
(* a consumption ends with and the deactivation leaves it deactivated.     *)
Write(s) ==
  /\ \/ backlog' = backlog \cup {s}
     \/ running[s] = "consuming" /\ UNCHANGED backlog
  /\ raced' = IF running[s] = "sawEmpty" THEN raced \cup {s} ELSE raced

WriteErrors(kinds) ==
  /\ awaitingErrors' = awaitingErrors \cup kinds
  /\ IF kinds = {} THEN UNCHANGED <<backlog, raced>> ELSE Write("errors")
  /\ fatalErrors' = fatalErrors + Cardinality(kinds \cap {"fatal"})
  /\ fatalErrors' <= Cardinality(Detached)

(* Errors of a component that is not followed here, of any kind. *)
ProduceErrors == \E kinds \in SUBSET Kinds : WriteErrors(kinds)

(* A call of one of the strategies that the derived link holds as members. *)
UseOwnStrategy ==
  ended' \in {ended} \cup (IF lifetime = "alive" THEN {} ELSE {"destroyedStrategy"})

-----------------------------------------------------------------------------
(* The user's thread. *)

Start ==
  /\ mainAt = "constructed" /\ mainAt' = "openServer"
  /\ BeginServerCall("main", "open")
  /\ UNCHANGED <<ended, inputVars, consumedVars, running, pc, joinable, ordered, lifetime>>

StartSensorCommunicator ==
  /\ mainAt = "openServer" /\ serverCalls["main"] = <<>> /\ mainAt' = "launch"
  /\ ProduceErrors
  /\ UNCHANGED <<serverVars, ended, consumedVars, running, pc, joinable, ordered, lifetime>>

LaunchCommunicator ==
  /\ mainAt = "launch" /\ mainAt' = "up"
  /\ running' = [running EXCEPT !["communicator"] = "running"]
  /\ joinable' = [joinable EXCEPT !["communicator"] = TRUE]
  /\ UNCHANGED <<serverVars, ended, inputVars, consumedVars, pc, ordered, lifetime>>

TerminateByHand ==
  /\ mainAt = "up" /\ pc["main"] = 0
  /\ pc' = [pc EXCEPT !["main"] = 1]
  /\ UNCHANGED <<serverVars, ended, inputVars, consumedVars, running, mainAt, joinable,
                 ordered, lifetime>>

(* The members of the derived link go first, then its base terminates. *)
Destroy ==
  /\ mainAt = "up" /\ pc["main"] \in {0, Returned}
  /\ mainAt' = "destroying" /\ lifetime' = "strategiesDestroyed"
  /\ pc' = [pc EXCEPT !["main"] = 1]
  /\ UNCHANGED <<serverVars, ended, inputVars, consumedVars, running, joinable, ordered>>

DestroyMembers ==
  /\ mainAt = "destroying" /\ pc["main"] = Returned /\ serverCalls["main"] = <<>>
  /\ mainAt' = "destroyed" /\ lifetime' = "destroyed"
  /\ UNCHANGED <<serverVars, ended, inputVars, consumedVars, running, pc, joinable, ordered>>

-----------------------------------------------------------------------------
(* A thread in terminateAndJoin. *)

Terminates(t, act) ==
  /\ pc[t] \in DOMAIN TerminateAndJoin /\ TerminateAndJoin[pc[t]].act = act
  /\ serverCalls[t] = <<>>
  /\ t \in Detached => lifetime # "destroyed"

Element(t) == TerminateAndJoin[pc[t]].of

Advance(t, steps) == pc' = [pc EXCEPT ![t] = @ + steps]

CloseSensor(t) ==
  /\ Terminates(t, "closeSensor") /\ Advance(t, 1)
  /\ UseOwnStrategy /\ ProduceErrors
  /\ UNCHANGED <<serverVars, consumedVars, running, mainAt, joinable, ordered, lifetime>>

OrderTermination(t) ==
  /\ Terminates(t, "order") /\ Advance(t, IF joinable[Element(t)] THEN 1 ELSE 2)
  /\ ordered' = [ordered EXCEPT ![Element(t)] = TRUE]
  /\ UNCHANGED <<serverVars, ended, inputVars, consumedVars, running, mainAt, joinable,
                 lifetime>>

(* A thread another has joined since the test cannot be joined: join throws *)
(* out of a destructor or out of a thread, or is undefined.                *)
Join(t) ==
  /\ Terminates(t, "join")
  /\ \/ /\ joinable[Element(t)] /\ running[Element(t)] = "finished"
        /\ joinable' = [joinable EXCEPT ![Element(t)] = FALSE]
        /\ Advance(t, 1) /\ UNCHANGED ended
     \/ /\ ~joinable[Element(t)]
        /\ ended' = "joinedTwice" /\ UNCHANGED <<pc, joinable>>
  /\ UNCHANGED <<serverVars, inputVars, consumedVars, running, mainAt, ordered, lifetime>>

CloseServer(t) ==
  /\ Terminates(t, "closeServer") /\ Advance(t, 1)
  /\ BeginServerCall(t, "close")
  /\ UNCHANGED <<ended, inputVars, consumedVars, running, mainAt, joinable, ordered,
                 lifetime>>

UseAfterDestruction(t) ==
  /\ lifetime = "destroyed" /\ t \in Detached /\ pc[t] \in DOMAIN TerminateAndJoin
  /\ ended' = "usedAfterDestruction"
  /\ UNCHANGED <<serverVars, linkVars>>

-----------------------------------------------------------------------------
(* The communicator's thread. *)

Becomes(w, state) == running' = [running EXCEPT ![w] = state]

(* Faulty: run tests the order after a turn, and takes the first untested. *)
TurnBeforeTest ==
  /\ running["communicator"] = "running" /\ Becomes("communicator", "inTurn")
  /\ UNCHANGED <<serverVars, ended, inputVars, threadVars, consumedVars>>

(* run tests the order at the beginning of a turn only. *)
BeginTurn ==
  /\ running["communicator"] = "running" /\ ~ordered["communicator"]
  /\ Becomes("communicator", "inTurn")
  /\ UNCHANGED <<serverVars, ended, inputVars, threadVars, consumedVars>>

EndTurn ==
  /\ running["communicator"] = "inTurn" /\ Becomes("communicator", "running")
  /\ UNCHANGED <<serverVars, ended, inputVars, threadVars, consumedVars>>

CommunicatorProduces ==
  /\ running["communicator"] = "inTurn" /\ UseOwnStrategy
  /\ \/ ProduceErrors
     \/ \E s \in Delivered : Write(s) /\ UNCHANGED <<awaitingErrors, fatalErrors>>
  /\ UNCHANGED <<serverVars, running, threadVars, consumedVars>>

LeaveRun ==
  /\ running["communicator"] = "running" /\ ordered["communicator"]
  /\ Becomes("communicator", "finished")
  /\ UNCHANGED <<serverVars, ended, inputVars, threadVars, consumedVars>>

-----------------------------------------------------------------------------
(* The schedulers' threads. *)

InLoop(s) == running[s] = "running" /\ (s \in Sender => serverCalls[s] = <<>>)

(* cannotExitSafely: the ready list is read first, *)
ReadIsEmpty(s) ==
  /\ InLoop(s) /\ s \notin backlog /\ Becomes(s, "sawEmpty")
  /\ UNCHANGED <<serverVars, ended, inputVars, threadVars, consumedVars>>

(* and the order only when that was empty, whatever has come since. *)
ReadOrder(s) ==
  /\ running[s] = "sawEmpty"
  /\ IF ordered[s] THEN Becomes(s, "finished") /\ UNCHANGED raced
                   ELSE Becomes(s, "running") /\ raced' = raced \ {s}
  /\ UNCHANGED <<serverVars, ended, backlog, awaitingErrors, fatalErrors, threadVars,
                 consumedVars>>

(* A ready buffer is read to its end, and deactivated where its data are   *)
(* consumed: one datum here stands for those that follow each other.       *)
TakeData(s) ==
  /\ InLoop(s) /\ s \in backlog \cap DataScheduler
  /\ Becomes(s, "consuming") /\ backlog' = backlog \ {s}
  /\ UNCHANGED <<serverVars, ended, raced, awaitingErrors, fatalErrors, threadVars,
                 consumedVars>>

(* A datum is translated into one for the server, a translation error, or  *)
(* nothing yet: messages wait for the end of their frame.                  *)
TranslateData(s) ==
  /\ s \in Translating /\ running[s] = "consuming" /\ Becomes(s, "running")
  /\ UseOwnStrategy
  /\ \/ Write(IF s = "tm" THEN "sm" ELSE "sr") /\ UNCHANGED <<awaitingErrors, fatalErrors>>
     \/ \E kinds \in {{}, {Kind(TranslationError)}} : WriteErrors(kinds)
  /\ UNCHANGED <<serverVars, threadVars, consumedVars>>

SendData(s) ==
  /\ s \in Sender /\ running[s] = "consuming" /\ Becomes(s, "running")
  /\ BeginServerCall(s, "send")
  /\ UNCHANGED <<ended, inputVars, threadVars, consumedVars>>

(* Other kinds may be left, in buffers that are ready, or in one whose     *)
(* activation was lost or whose consumer the writer has lapped.            *)
TakeError ==
  /\ InLoop("errors") /\ "errors" \in backlog /\ Becomes("errors", "consuming")
  /\ \E kind \in awaitingErrors :
       takenError' = kind /\ awaitingErrors' = awaitingErrors \ {kind}
  /\ \/ backlog' = backlog \ {"errors"}
     \/ awaitingErrors' # {} /\ UNCHANGED backlog
  /\ UNCHANGED <<serverVars, ended, raced, fatalErrors, threadVars, launched,
                 fatalConsumed>>

Launch(d) == launched' = launched \cup {d} /\ pc' = [pc EXCEPT ![d] = 1]

(* consume(Error): a fatal one makes a detached thread terminate the link. *)
ConsumeError ==
  /\ running["errors"] = "consuming" /\ Becomes("errors", "running")
  /\ takenError' = "none" /\ fatalConsumed' = (fatalConsumed \/ takenError = "fatal")
  /\ IF takenError = "fatal" THEN \E d \in Detached \ launched : Launch(d)
                             ELSE UNCHANGED <<launched, pc>>
  /\ UNCHANGED <<serverVars, ended, inputVars, mainAt, joinable, ordered, lifetime>>

-----------------------------------------------------------------------------

MainStep == StartSensorCommunicator \/ LaunchCommunicator \/ DestroyMembers

TerminatorStep(t) ==
  \/ CloseSensor(t) \/ OrderTermination(t) \/ Join(t)
  \/ CloseServer(t) \/ UseAfterDestruction(t)

DataStep(s) == TakeData(s) \/ TranslateData(s) \/ SendData(s)

ErrorStep == TakeError \/ ConsumeError

CallServer(t) ==
  /\ \/ (ServerCallReturns(t) \/ HandlerThrows(t)) /\ UNCHANGED inputVars
     \/ \E c \in Consequences : ServerCallThrows(t, c) /\ WriteErrors({c.kind})
  /\ UNCHANGED <<running, threadVars, consumedVars>>

Next ==
  /\ ended = "no"
  /\ \/ Start \/ TerminateByHand \/ Destroy \/ MainStep
     \/ BeginTurn \/ CommunicatorProduces \/ EndTurn \/ LeaveRun \/ ErrorStep
     \/ \E t \in Terminator : TerminatorStep(t)
     \/ \E t \in Callers : CallServer(t)
     \/ \E s \in DataScheduler : DataStep(s)
     \/ \E s \in Scheduler : ReadIsEmpty(s) \/ ReadOrder(s)

Spec == Init /\ [][Next]_vars

-----------------------------------------------------------------------------

(* No thread has more than the two calls of handleError left, each          *)
(* terminator is at a step of terminateAndJoin, each worker in a state.    *)
AccessLinkTypeOK ==
  /\ \A t \in Callers : Len(serverCalls[t]) <= 2 /\ handling \subseteq Callers
  /\ awaitingErrors \subseteq Kinds /\ takenError \in Kinds \cup {"none"}
  /\ backlog \cup raced \subseteq Scheduler /\ ("errors" \in backlog => awaitingErrors # {})
  /\ pc \in [Terminator -> 0..Returned]
  /\ running \in [Worker -> {"unborn", "running", "inTurn", "sawEmpty", "consuming", "finished"}]
  /\ joinable \in [Worker -> BOOLEAN] /\ ordered \in [Worker -> BOOLEAN]
  /\ launched \subseteq Detached /\ fatalErrors \in 0..Cardinality(Detached)

(* A thread is joined twice, or the link used after its destruction, only   *)
(* because a fatal error detached a thread that terminates it as well; and *)
(* one error of the server is survived: it takes a second, in the handler, *)
(* to leave a function that is noexcept.                                   *)
OneMinorErrorIsSurvived ==
  /\ ended \in {"joinedTwice", "usedAfterDestruction"} => fatalConsumed
  /\ ended = "noexcept" => serverFailures >= 2

(* Data are sent over an open connection: it is closed only after the      *)
(* schedulers that send have ended, but for what follows an error.         *)
SendsFindTheConnectionOpen ==
  \A s \in Sender :
    serverCalls[s] = <<"send">> /\ serverConnection = "closed"
      => serverFailures > 0 \/ fatalConsumed

(* The threads whose data or errors an element consumes, however indirectly. *)
Upstream == [communicator |-> {}, tm |-> {"communicator"}, tr |-> {"communicator"},
             sm |-> {"communicator"} \cup Translating,
             sr |-> {"communicator"} \cup Translating, errors |-> Worker \ {"errors"}]

(* A communicator told to end before it is launched takes no turn at all. *)
ProducesNoMore(w) ==
  \/ running[w] = "finished"
  \/ w = "communicator" /\ ordered[w] /\ running[w] # "inTurn"

(* A join of terminateAndJoin waits for the turn its thread is in, or what  *)
(* that still has to consume, and for nothing else, however many threads   *)
(* terminate and whenever the fatal error came: the thread was told to end, *)
(* and the workers it consumes from give it no more.                       *)
JoinWaitsForBacklogOnly ==
  \A t \in Terminator :
    pc[t] \in DOMAIN TerminateAndJoin /\ TerminateAndJoin[pc[t]].act = "join" =>
      ordered[Element(t)] /\ \A w \in Upstream[Element(t)] : ProducesNoMore(w)

(* When the user's terminateAndJoin has returned, no thread of the link     *)
(* runs, and the server's connection is closed unless closing it failed,   *)
(* which may open it again.  A scheduler has ended with a ready buffer only *)
(* if it was written to between its last two reads, of the list and of the *)
(* order.  The error scheduler may also be left with one when a second     *)
(* thread terminates too, or when the destructor does after a termination  *)
(* by hand: the sensor's and the server's connections are closed again.    *)
OnlyRacesLeaveReadyData ==
  pc["main"] = Returned /\ serverCalls["main"] = <<>> /\ ended = "no" =>
    /\ \A w \in Worker : running[w] = "finished"
    /\ backlog \cap DataScheduler \subseteq raced
    /\ launched = {} /\ mainAt = "up" => backlog \subseteq raced
    /\ serverFailures = 0 => serverConnection = "closed"
=============================================================================
