-------------------------- MODULE AccessLinkProofs --------------------------
(***************************************************************************)
(* What the termination of a link guarantees, for any number of fatal      *)
(* errors, of failures of the server, and of threads that terminate at     *)
(* once.  The inductive invariant says which threads have ended when a     *)
(* terminator is at a step of terminateAndJoin, and what an ended thread   *)
(* has left; it relates every terminator to the order of the elements,     *)
(* because any of them may have been the one who gave an order.            *)
(***************************************************************************)
EXTENDS AccessLink, FiniteSetTheorems, SequenceTheorems, TLAPS

(* What the thread of a call has left: the call, or what handleError does. *)
CallLists == {<<>>, <<"open">>, <<"close">>, <<"send">>, <<"close", "open">>}

NotLaunchedYet == {"constructed", "openServer", "launch"}

Terminating == {"destroying", "destroyed"}

(* Where terminateAndJoin orders the end of a thread; the join is next. *)
OrderStep == [communicator |-> 2, tm |-> 4, tr |-> 6, sm |-> 8, sr |-> 10, errors |-> 13]

CloseStep == 12

States == {"unborn", "running", "inTurn", "sawEmpty", "consuming", "finished"}

LinkTypeOK ==
  /\ serverCalls \in [Callers -> CallLists] /\ handling \subseteq Callers
  /\ serverConnection \in {"open", "closed"} /\ serverFailures \in Nat
  /\ awaitingErrors \subseteq {"fatal", "minor"} /\ takenError \in {"fatal", "minor", "none"}
  /\ backlog \subseteq Scheduler /\ raced \subseteq Scheduler
  /\ pc \in [Terminator -> 0..15] /\ running \in [Worker -> States]
  /\ joinable \in [Worker -> BOOLEAN] /\ ordered \in [Worker -> BOOLEAN]
  /\ launched \subseteq Detached /\ fatalErrors \in 0..Cardinality(Detached)
  /\ fatalConsumed \in BOOLEAN
  /\ mainAt \in NotLaunchedYet \cup {"up"} \cup Terminating

(* What has happened before what: an error before its handler, a fatal one *)
(* before the thread that terminates because of it.                        *)
HistoryInv ==
  /\ handling # {} => serverFailures >= 1
  /\ launched # {} => fatalConsumed
  /\ \A d \in Detached : pc[d] # 0 => d \in launched
  /\ OneMinorErrorIsSurvived

(* The user's thread terminates only a link it has started. *)
StartedInv ==
  /\ mainAt \in NotLaunchedYet => pc["main"] = 0 /\ running["communicator"] = "unborn"
  /\ mainAt \notin NotLaunchedYet => running["communicator"] # "unborn"
  /\ \A w \in Scheduler : running[w] \notin {"unborn", "inTurn"}

(* Terminators call the server from one step, the user's at the start too. *)
CallInv ==
  /\ serverCalls["main"] # <<>> => mainAt = "openServer" \/ pc["main"] = CloseStep + 1
  /\ \A d \in Detached : serverCalls[d] # <<>> => pc[d] = CloseStep + 1

(* A thread is joined once it has ended, and before those fed by it end.   *)
JoinInv ==
  /\ \A w \in Worker : ~joinable[w] => running[w] \in {"finished", "unborn"}
  /\ \A w \in Worker : launched = {} /\ pc["main"] = OrderStep[w] + 1 => joinable[w]
  /\ \A t \in Terminator, w \in Scheduler : pc[t] > OrderStep[w] + 1 => running[w] = "finished"
  /\ \A t \in Terminator : pc[t] > OrderStep["communicator"] + 1 => running["communicator"] # "inTurn"
  /\ pc["main"] > OrderStep["communicator"] + 1 => running["communicator"] = "finished"

OrderInv ==
  /\ \A w \in Worker : running[w] = "finished" => ordered[w]
  /\ \A t \in Terminator, w \in Worker : pc[t] > OrderStep[w] => ordered[w]
  /\ \A w \in Scheduler : ordered[w] => ordered["communicator"] /\ running["communicator"] # "inTurn"
  /\ \A s \in Sender, w \in Translating : ordered[s] => running[w] = "finished"
  /\ launched = {} /\ mainAt \notin Terminating
       => \A w \in Worker : ordered[w] => pc["main"] > OrderStep[w]

(* A scheduler that saw nothing ready has something only if it was written *)
(* to since; what has not begun has nothing yet.                           *)
WorkInv ==
  /\ \A w \in Scheduler : running[w] = "sawEmpty" => w \notin backlog \ raced
  /\ \A w \in DataScheduler : running[w] = "finished" => w \notin backlog \ raced
  /\ "errors" \in backlog => awaitingErrors # {}
  /\ \A s \in Sender :
       running[s] \in {"sawEmpty", "consuming", "finished"} => serverCalls[s] = <<>>
  /\ running["communicator"] = "unborn" =>
       /\ \A w \in DataScheduler : w \notin backlog /\ running[w] # "consuming"
       /\ \A s \in Sender : serverCalls[s] = <<>>

(* The connection while no call of the server has failed. *)
ConnectionInv ==
  serverFailures = 0 =>
    /\ \A d \in Detached : serverCalls[d] \in {<<>>, <<"close">>}
    /\ \A s \in Sender : serverCalls[s] \in {<<>>, <<"send">>}
    /\ mainAt = "openServer" => serverCalls["main"] \in {<<>>, <<"open">>}
    /\ mainAt # "openServer" => serverCalls["main"] \in {<<>>, <<"close">>}
    /\ pc["main"] > CloseStep => serverCalls["main"] = <<"close">> \/ serverConnection = "closed"
    /\ launched = {} =>
         \/ serverConnection = "open"
         \/ mainAt = "constructed"
         \/ mainAt = "openServer" /\ serverCalls["main"] # <<>>
         \/ \A s \in Sender : running[s] = "finished"

ErrorsInv ==
  launched = {} /\ mainAt = "up" /\ running["errors"] = "finished"
    => "errors" \notin backlog \ raced

LinkInv ==
  /\ LinkTypeOK /\ HistoryInv /\ StartedInv /\ CallInv /\ JoinInv /\ OrderInv /\ WorkInv
  /\ ConnectionInv /\ ErrorsInv

-----------------------------------------------------------------------------
(* The steps of terminateAndJoin, and what an error leaves to do. *)

LEMMA Steps ==
  /\ DOMAIN TerminateAndJoin = 1..14 /\ Returned = 15
  /\ \A i \in 1..14 :
       /\ TerminateAndJoin[i].act = "closeSensor" => i = 1
       /\ TerminateAndJoin[i].act = "closeServer" => i = CloseStep
       /\ TerminateAndJoin[i].act = "order" =>
            TerminateAndJoin[i].of \in Worker /\ i = OrderStep[TerminateAndJoin[i].of]
       /\ TerminateAndJoin[i].act = "join" =>
            TerminateAndJoin[i].of \in Worker /\ i = OrderStep[TerminateAndJoin[i].of] + 1
<1> DEFINE steps == TerminateAndJoin
<1>1. DOMAIN steps = 1..14 /\ Len(steps) = 14
  BY DEF TerminateAndJoin
<1>2. /\ steps[1] = [act |-> "closeSensor", of |-> "communicator"]
      /\ steps[12] = [act |-> "closeServer", of |-> "server"]
      /\ steps[2] = [act |-> "order", of |-> "communicator"]
      /\ steps[3] = [act |-> "join", of |-> "communicator"]
      /\ steps[4] = [act |-> "order", of |-> "tm"] /\ steps[5] = [act |-> "join", of |-> "tm"]
      /\ steps[6] = [act |-> "order", of |-> "tr"] /\ steps[7] = [act |-> "join", of |-> "tr"]
      /\ steps[8] = [act |-> "order", of |-> "sm"] /\ steps[9] = [act |-> "join", of |-> "sm"]
      /\ steps[10] = [act |-> "order", of |-> "sr"] /\ steps[11] = [act |-> "join", of |-> "sr"]
      /\ steps[13] = [act |-> "order", of |-> "errors"]
      /\ steps[14] = [act |-> "join", of |-> "errors"]
  BY DEF TerminateAndJoin, Step
<1>3. /\ OrderStep["communicator"] = 2 /\ OrderStep["tm"] = 4 /\ OrderStep["tr"] = 6
      /\ OrderStep["sm"] = 8 /\ OrderStep["sr"] = 10 /\ OrderStep["errors"] = 13
  BY DEF OrderStep
<1>4. \A i \in 1..14 : i \in {1,2,3,4,5,6,7,8,9,10,11,12,13,14}
  OBVIOUS
<1>5. QED
  BY <1>1, <1>2, <1>3, <1>4
  DEF Returned, CloseStep, Worker, Scheduler, DataScheduler, Translating, Sender

LEMMA OrderSteps ==
  /\ OrderStep["communicator"] = 2
  /\ OrderStep["tm"] = 4 /\ OrderStep["tr"] = 6
  /\ OrderStep["sm"] = 8 /\ OrderStep["sr"] = 10
  /\ OrderStep["errors"] = 13
  /\ \A w \in Worker : OrderStep[w] \in {2, 4, 6, 8, 10, 13}
  /\ \A v, w \in Worker :
       v = w \/ OrderStep[v] + 2 <= OrderStep[w] \/ OrderStep[w] + 2 <= OrderStep[v]
BY DEF OrderStep, Worker, Scheduler, DataScheduler, Translating, Sender

LEMMA Threads ==
  /\ "main" \in Terminator /\ Detached \subseteq Terminator /\ "main" \notin Detached
  /\ \A t \in Terminator : t = "main" \/ t \in Detached
  /\ Terminator \subseteq Callers /\ Sender \subseteq Callers /\ Sender \cap Terminator = {}
  /\ \A t \in Callers : t \in Terminator \/ t \in Sender
BY LinkAssumption DEF Terminator, Worker, Scheduler, DataScheduler, Sender

LEMMA ErrorKinds == Kinds \subseteq {"fatal", "minor"} /\ \A e \in Error : Kind(e) \in {"fatal", "minor"}
BY DEF Kinds, Kind

LEMMA AfterTail ==
  ASSUME NEW calls \in CallLists, calls # <<>>
  PROVE  /\ Tail(calls) \in {<<>>, <<"open">>}
         /\ Len(calls) \in {1, 2} /\ (Len(calls) = 1 <=> Tail(calls) = <<>>)
         /\ Head(calls) \in {"open", "close", "send"}
         /\ Tail(calls) = <<>> => calls = <<Head(calls)>>
         /\ Tail(calls) # <<>> => calls = <<"close", "open">>
<1>1. CASE calls \in {<<"open">>, <<"close">>, <<"send">>}
  <2>1. PICK call \in {"open", "close", "send"} : calls = <<call>>
    BY <1>1
  <2>2. Len(calls) = 1 /\ Head(calls) = call
    BY <2>1
  <2>3. Tail(calls) = <<>>
    BY <2>1
  <2>4. QED
    BY <2>1, <2>2, <2>3
<1>2. CASE calls = <<"close", "open">>
  BY <1>2
<1>3. QED
  BY <1>1, <1>2 DEF CallLists

LEMMA ErrorCalls ==
  \A c \in Consequences :
    c.calls \in {<<>>, <<"close">>, <<"close", "open">>} /\ c.kind \in {"fatal", "minor"}
<1> SUFFICES ASSUME NEW e \in Error
             PROVE  HandleError(e) \in {<<>>, <<"close">>, <<"close", "open">>}
  BY ErrorKinds DEF Consequences
<1>1. IsOpenConnectionRequired(e) => IsCloseConnectionRequired(e)
  BY DEF IsOpenConnectionRequired, IsCloseConnectionRequired
<1>2. <<"close">> \o <<>> = <<"close">> /\ <<>> \o <<>> = <<>>
  <2>1. <<"close">> \in Seq({"close"}) /\ <<>> \in Seq({"close"})
    OBVIOUS
  <2>2. QED
    BY <2>1, ConcatEmptySeq
<1>3. <<"close">> \o <<"open">> = <<"close", "open">>
  <2> DEFINE both == <<"close">> \o <<"open">>
  <2>1. <<"close">> \in Seq({"close", "open"}) /\ <<"open">> \in Seq({"close", "open"})
    OBVIOUS
  <2>2. both \in Seq({"close", "open"}) /\ Len(both) = 2 /\ both[1] = "close" /\ both[2] = "open"
    BY <2>1, ConcatProperties
  <2>3. <<"close", "open">> \in Seq({"close", "open"}) /\ Len(<<"close", "open">>) = 2
    OBVIOUS
  <2>4. \A i \in 1..2 : both[i] = <<"close", "open">>[i]
    BY <2>2
  <2>5. QED
    BY <2>2, <2>3, <2>4, SeqEqual
<1>4. QED
  BY <1>1, <1>2, <1>3 DEF HandleError

(* Where a terminator is that is about to do something. *)
LEMMA TerminatorIsAt ==
  ASSUME LinkTypeOK, NEW t \in Terminator, NEW act, Terminates(t, act)
  PROVE  /\ pc[t] \in 1..14 /\ pc[t] + 1 \in 0..15 /\ serverCalls[t] = <<>>
         /\ act = "closeSensor" => pc[t] = 1
         /\ act = "closeServer" => pc[t] = CloseStep
         /\ act = "order" => Element(t) \in Worker /\ pc[t] = OrderStep[Element(t)]
         /\ act = "join" => Element(t) \in Worker /\ pc[t] = OrderStep[Element(t)] + 1
<1>1. pc[t] \in 1..14 /\ TerminateAndJoin[pc[t]].act = act /\ serverCalls[t] = <<>>
  BY Steps DEF Terminates
<1>2. QED
  BY <1>1, Steps DEF Element

(* pc of one terminator changes. *)
MovesTo(t, step) ==
  /\ pc' \in [Terminator -> 0..15] /\ pc'[t] = step
  /\ \A u \in Terminator \ {t} : pc'[u] = pc[u]

LEMMA AdvanceMoves ==
  ASSUME LinkTypeOK, NEW t \in Terminator, NEW n \in {1, 2}, pc[t] + n \in 0..15, Advance(t, n)
  PROVE  MovesTo(t, pc[t] + n)
<1>1. pc \in [Terminator -> 0..15]
  BY DEF LinkTypeOK
<1>2. pc' = [pc EXCEPT ![t] = pc[t] + n]
  BY <1>1 DEF Advance
<1>3. QED
  BY <1>1, <1>2 DEF MovesTo

LEMMA CloseMoves ==
  ASSUME LinkTypeOK, NEW t \in Terminator
  PROVE  /\ CloseSensor(t) => pc[t] = 1 /\ serverCalls[t] = <<>> /\ MovesTo(t, 2)
         /\ CloseServer(t) =>
              pc[t] = CloseStep /\ serverCalls[t] = <<>> /\ MovesTo(t, CloseStep + 1)
<1>1. ASSUME CloseSensor(t)
      PROVE  pc[t] = 1 /\ serverCalls[t] = <<>> /\ MovesTo(t, 2)
  <2>1. pc[t] = 1 /\ serverCalls[t] = <<>> /\ Advance(t, 1)
    BY <1>1, TerminatorIsAt DEF CloseSensor
  <2>2. QED
    BY <2>1, AdvanceMoves
<1>2. ASSUME CloseServer(t)
      PROVE  pc[t] = CloseStep /\ serverCalls[t] = <<>> /\ MovesTo(t, CloseStep + 1)
  <2>1. pc[t] = CloseStep /\ serverCalls[t] = <<>> /\ Advance(t, 1)
    BY <1>2, TerminatorIsAt DEF CloseServer
  <2>2. QED
    BY <2>1, AdvanceMoves DEF CloseStep
<1>3. QED
  BY <1>1, <1>2

LEMMA OrderMoves ==
  ASSUME LinkTypeOK, NEW t \in Terminator, OrderTermination(t)
  PROVE  \E w \in Worker, next \in 1..15 :
           /\ pc[t] \in 1..14 /\ pc[t] = OrderStep[w] /\ serverCalls[t] = <<>>
           /\ MovesTo(t, next)
           /\ joinable[w] => next = OrderStep[w] + 1
           /\ ~joinable[w] => next = OrderStep[w] + 2
           /\ ordered' = [ordered EXCEPT ![w] = TRUE]
<1> DEFINE w == Element(t)
<1>1. w \in Worker /\ pc[t] = OrderStep[w] /\ serverCalls[t] = <<>>
  BY TerminatorIsAt DEF OrderTermination
<1>2. pc[t] \in 1..14 /\ pc[t] + 1 \in 1..15 /\ pc[t] + 2 \in 1..15
  <2>1. pc[t] \in {2, 4, 6, 8, 10, 13}
    BY <1>1, OrderSteps
  <2>2. QED
    BY <2>1
<1>3. Advance(t, IF joinable[w] THEN 1 ELSE 2) /\ ordered' = [ordered EXCEPT ![w] = TRUE]
  BY DEF OrderTermination
<1>4. CASE joinable[w]
  <2>1. MovesTo(t, pc[t] + 1)
    BY <1>2, <1>3, <1>4, AdvanceMoves
  <2>2. QED
    BY <1>1, <1>2, <1>3, <1>4, <2>1
<1>5. CASE ~joinable[w]
  <2>1. MovesTo(t, pc[t] + 2)
    BY <1>2, <1>3, <1>5, AdvanceMoves
  <2>2. QED
    BY <1>1, <1>2, <1>3, <1>5, <2>1
<1>6. QED
  BY <1>4, <1>5

LEMMA JoinMoves ==
  ASSUME LinkTypeOK, NEW t \in Terminator, Join(t)
  PROVE  \E w \in Worker :
           /\ pc[t] \in 1..14 /\ pc[t] = OrderStep[w] + 1 /\ serverCalls[t] = <<>>
           /\ \/ /\ joinable[w] /\ running[w] = "finished" /\ MovesTo(t, OrderStep[w] + 2)
                 /\ joinable' = [joinable EXCEPT ![w] = FALSE] /\ ended' = ended
              \/ /\ ~joinable[w] /\ UNCHANGED <<pc, joinable>> /\ ended' = "joinedTwice"
<1> DEFINE w == Element(t)
<1>1. w \in Worker /\ pc[t] = OrderStep[w] + 1 /\ serverCalls[t] = <<>>
  BY TerminatorIsAt DEF Join
<1>2. pc[t] \in 1..14 /\ pc[t] + 1 \in 0..15 /\ pc[t] + 1 = OrderStep[w] + 2
  <2>1. OrderStep[w] \in {2, 4, 6, 8, 10, 13}
    BY <1>1, OrderSteps
  <2>2. QED
    BY <1>1, <2>1
<1>3. CASE joinable[w]
  <2>1. /\ running[w] = "finished" /\ Advance(t, 1) /\ ended' = ended
        /\ joinable' = [joinable EXCEPT ![w] = FALSE]
    BY <1>3 DEF Join
  <2>2. QED
    BY <1>1, <1>2, <1>3, <2>1, AdvanceMoves
<1>4. CASE ~joinable[w]
  BY <1>1, <1>2, <1>4 DEF Join
<1>5. QED
  BY <1>3, <1>4

(* The others who change pc. *)
LEMMA OthersMove ==
  ASSUME LinkTypeOK
  PROVE  /\ TerminateByHand \/ Destroy => MovesTo("main", 1)
         /\ ConsumeError =>
              \/ UNCHANGED <<launched, pc, fatalConsumed>>
              \/ \E d \in Detached \ launched :
                   launched' = launched \cup {d} /\ fatalConsumed' = TRUE /\ MovesTo(d, 1)
<1>1. pc \in [Terminator -> 0..15] /\ "main" \in Terminator /\ Detached \subseteq Terminator
  BY DEF LinkTypeOK, Terminator
<1>2. TerminateByHand \/ Destroy => MovesTo("main", 1)
  BY <1>1 DEF TerminateByHand, Destroy, MovesTo
<1>3. ASSUME ConsumeError, takenError = "fatal"
      PROVE  \E d \in Detached \ launched :
               launched' = launched \cup {d} /\ fatalConsumed' = TRUE /\ MovesTo(d, 1)
  <2>1. fatalConsumed' = TRUE
    BY <1>3 DEF ConsumeError
  <2>2. PICK d \in Detached \ launched : Launch(d)
    BY <1>3 DEF ConsumeError
  <2>3. launched' = launched \cup {d} /\ MovesTo(d, 1)
    BY <1>1, <2>2 DEF Launch, MovesTo
  <2>4. QED
    BY <2>1, <2>3
<1>4. ASSUME ConsumeError, takenError # "fatal"
      PROVE  UNCHANGED <<launched, pc, fatalConsumed>>
  <2>1. fatalConsumed \in BOOLEAN /\ fatalConsumed' = (fatalConsumed \/ takenError = "fatal")
    BY <1>4 DEF ConsumeError, LinkTypeOK
  <2>2. fatalConsumed' = fatalConsumed
    BY <1>4, <2>1
  <2>3. QED
    BY <1>4, <2>2 DEF ConsumeError
<1>5. QED
  BY <1>2, <1>3, <1>4

(* A thread changes state. *)
LEMMA BecomesOther ==
  ASSUME LinkTypeOK, NEW w \in Worker, NEW state \in States, Becomes(w, state)
  PROVE  /\ running' \in [Worker -> States] /\ running'[w] = state
         /\ \A v \in Worker \ {w} : running'[v] = running[v]
BY DEF LinkTypeOK, Becomes

(* Whether or not a write activates its scheduler, the scheduler has been  *)
(* raced if it had seen that nothing was ready.                            *)
LEMMA Writes ==
  ASSUME LinkTypeOK, NEW s \in Scheduler, Write(s)
  PROVE  /\ backlog' \in {backlog, backlog \cup {s}} /\ raced' \in {raced, raced \cup {s}}
         /\ running[s] = "sawEmpty" => s \in raced'
BY DEF Write

ErrorsAdded ==
  /\ awaitingErrors \subseteq awaitingErrors' /\ awaitingErrors' \subseteq {"fatal", "minor"}
  /\ fatalErrors' \in 0..Cardinality(Detached)
  /\ backlog' \in {backlog, backlog \cup {"errors"}}
  /\ raced' \in {raced, raced \cup {"errors"}}
  /\ backlog' # backlog => awaitingErrors' # {}
  /\ running["errors"] = "sawEmpty" /\ "errors" \in backlog' => "errors" \in backlog \cup raced'

LEMMA ErrorsWritten ==
  ASSUME LinkTypeOK, NEW kinds \in SUBSET {"fatal", "minor"}, WriteErrors(kinds)
  PROVE  ErrorsAdded
<1>1. /\ awaitingErrors' = awaitingErrors \cup kinds
      /\ fatalErrors' = fatalErrors + Cardinality(kinds \cap {"fatal"})
      /\ fatalErrors' <= Cardinality(Detached)
  BY DEF WriteErrors
<1>2. fatalErrors' \in 0..Cardinality(Detached)
  <2>1. Cardinality(Detached) \in Nat
    BY LinkAssumption, FS_CardinalityType
  <2>2. IsFiniteSet(kinds \cap {"fatal"})
    BY FS_Singleton, FS_Subset
  <2>3. Cardinality(kinds \cap {"fatal"}) \in Nat
    BY <2>2, FS_CardinalityType
  <2>4. QED
    BY <1>1, <2>1, <2>3 DEF LinkTypeOK
<1>3. CASE kinds = {}
  BY <1>1, <1>2, <1>3 DEF WriteErrors, ErrorsAdded, LinkTypeOK
<1>4. CASE kinds # {}
  <2>1. Write("errors")
    BY <1>4 DEF WriteErrors
  <2>2. /\ backlog' \in {backlog, backlog \cup {"errors"}}
        /\ raced' \in {raced, raced \cup {"errors"}}
        /\ running["errors"] = "sawEmpty" => "errors" \in raced'
    BY <2>1, Writes DEF Scheduler
  <2>3. QED
    BY <1>1, <1>2, <1>4, <2>2 DEF ErrorsAdded, LinkTypeOK
<1>5. QED
  BY <1>3, <1>4

LEMMA ErrorsProduced ==
  ASSUME LinkTypeOK, ProduceErrors
  PROVE  ErrorsAdded
BY ErrorsWritten, ErrorKinds DEF ProduceErrors

LEMMA AddedErrorsAreTyped ==
  ASSUME LinkTypeOK, ErrorsAdded
  PROVE  backlog' \subseteq Scheduler /\ raced' \subseteq Scheduler
BY DEF LinkTypeOK, ErrorsAdded, Scheduler

(* An error is no work for the schedulers of data. *)
LEMMA AddedErrorsKeepWork ==
  ASSUME WorkInv, ErrorsAdded, UNCHANGED <<serverCalls, running>>
  PROVE  WorkInv'
BY DEF WorkInv, ErrorsAdded, Scheduler, DataScheduler, Translating, Sender

-----------------------------------------------------------------------------
(* What each action keeps of the invariant, in the order of the actions: one *)
(* step for each of its parts.                                             *)

LEMMA StartKeeps ==
  ASSUME LinkInv, Start
  PROVE  LinkInv'
<1> USE DEF LinkInv, inputVars, threadVars, consumedVars
<1>1. LinkTypeOK'
  BY LinkAssumption, ErrorKinds DEF LinkTypeOK, Start, BeginServerCall, Worker, Scheduler,
    DataScheduler, Translating, Sender, Terminator, NotLaunchedYet, Terminating, CallLists,
    CloseStep
<1>2. HistoryInv'
  BY DEF HistoryInv, OneMinorErrorIsSurvived, Start, BeginServerCall
<1>3. StartedInv'
  BY Threads DEF StartedInv, Start, BeginServerCall, LinkTypeOK, NotLaunchedYet, Terminating
<1>4. CallInv'
  BY Threads DEF CallInv, Start, BeginServerCall, LinkTypeOK
<1>5. JoinInv'
  BY DEF JoinInv, Start, BeginServerCall
<1>6. OrderInv'
  BY Threads DEF OrderInv, Start, BeginServerCall, LinkTypeOK, NotLaunchedYet, Terminating
<1>7. WorkInv'
  BY Threads DEF WorkInv, Start, BeginServerCall, LinkTypeOK
<1>8. ConnectionInv'
  BY Threads DEF ConnectionInv, Start, BeginServerCall, LinkTypeOK
<1>9. ErrorsInv'
  BY DEF ErrorsInv, Start, BeginServerCall
<1>10. QED
  BY <1>1, <1>2, <1>3, <1>4, <1>5, <1>6, <1>7, <1>8, <1>9

LEMMA StartSensorCommunicatorKeeps ==
  ASSUME LinkInv, StartSensorCommunicator
  PROVE  LinkInv'
<1> USE DEF LinkInv, inputVars, threadVars, consumedVars
<1>1. ErrorsAdded
  BY ErrorsProduced DEF StartSensorCommunicator
<1>2. LinkTypeOK'
  BY <1>1, AddedErrorsAreTyped, Threads DEF LinkTypeOK, ErrorsAdded, StartSensorCommunicator,
    serverVars, NotLaunchedYet, Terminating
<1>3. HistoryInv'
  BY <1>1 DEF HistoryInv, OneMinorErrorIsSurvived, StartSensorCommunicator, serverVars
<1>4. StartedInv'
  BY <1>1, Threads DEF StartedInv, StartSensorCommunicator, serverVars, LinkTypeOK,
    NotLaunchedYet, Terminating
<1>5. CallInv'
  BY <1>1 DEF CallInv, StartSensorCommunicator, serverVars
<1>6. JoinInv'
  BY <1>1 DEF JoinInv, StartSensorCommunicator, serverVars
<1>7. OrderInv'
  BY <1>1, Threads DEF OrderInv, StartSensorCommunicator, serverVars, LinkTypeOK,
    NotLaunchedYet, Terminating
<1>8. WorkInv'
  BY <1>1, AddedErrorsKeepWork DEF StartSensorCommunicator, serverVars
<1>9. ConnectionInv'
  BY <1>1 DEF ConnectionInv, StartSensorCommunicator, serverVars
<1>10. ErrorsInv'
  BY <1>1 DEF ErrorsInv, StartSensorCommunicator, serverVars
<1>11. QED
  BY <1>2, <1>3, <1>4, <1>5, <1>6, <1>7, <1>8, <1>9, <1>10

LEMMA LaunchCommunicatorKeeps ==
  ASSUME LinkInv, LaunchCommunicator
  PROVE  LinkInv'
<1> USE DEF LinkInv, inputVars, threadVars, consumedVars
<1>1. LinkTypeOK'
  BY DEF LinkTypeOK, LaunchCommunicator, serverVars, States
<1>2. HistoryInv'
  BY DEF HistoryInv, OneMinorErrorIsSurvived, LaunchCommunicator, serverVars
<1>3. StartedInv'
  BY Threads, OrderSteps DEF StartedInv, LaunchCommunicator, serverVars, LinkTypeOK,
    OrderInv, NotLaunchedYet, Terminating, CloseStep, Worker, Scheduler, DataScheduler,
    Translating, Sender
<1>4. CallInv'
  BY DEF CallInv, LaunchCommunicator, serverVars
<1>5. JoinInv'
  BY Threads, OrderSteps DEF JoinInv, LaunchCommunicator, serverVars, LinkTypeOK,
    StartedInv, OrderInv, NotLaunchedYet, Terminating, CloseStep
<1>6. OrderInv'
  BY Threads, OrderSteps DEF OrderInv, LaunchCommunicator, serverVars, LinkTypeOK,
    StartedInv, NotLaunchedYet, Terminating, CloseStep
<1>7. WorkInv'
  BY DEF WorkInv, LaunchCommunicator, serverVars
<1>8. ConnectionInv'
  BY Threads, OrderSteps DEF ConnectionInv, LaunchCommunicator, serverVars, LinkTypeOK,
    StartedInv, OrderInv, NotLaunchedYet, Terminating, CloseStep
<1>9. ErrorsInv'
  BY Threads, OrderSteps DEF ErrorsInv, LaunchCommunicator, serverVars, LinkTypeOK,
    StartedInv, OrderInv, NotLaunchedYet, Terminating, CloseStep, Worker, Scheduler,
    DataScheduler, Translating, Sender
<1>10. QED
  BY <1>1, <1>2, <1>3, <1>4, <1>5, <1>6, <1>7, <1>8, <1>9

LEMMA TerminateByHandKeeps ==
  ASSUME LinkInv, TerminateByHand
  PROVE  LinkInv'
<1> USE DEF LinkInv, inputVars, threadVars, consumedVars
<1>1. MovesTo("main", 1)
  BY OthersMove
<1>2. LinkTypeOK'
  BY <1>1 DEF LinkTypeOK, TerminateByHand, serverVars, MovesTo
<1>3. HistoryInv'
  BY <1>1, Threads DEF HistoryInv, OneMinorErrorIsSurvived, TerminateByHand, serverVars,
    MovesTo, LinkTypeOK
<1>4. StartedInv'
  BY <1>1, Threads DEF StartedInv, TerminateByHand, serverVars, MovesTo, LinkTypeOK,
    NotLaunchedYet, Terminating
<1>5. CallInv'
  BY <1>1, Threads, OrderSteps DEF CallInv, TerminateByHand, serverVars, MovesTo,
    LinkTypeOK, StartedInv, OrderInv, NotLaunchedYet, Terminating, CloseStep
<1>6. JoinInv'
  BY <1>1, Threads, OrderSteps DEF JoinInv, TerminateByHand, serverVars, MovesTo,
    LinkTypeOK, StartedInv, OrderInv, NotLaunchedYet, Terminating, CloseStep, Worker,
    Scheduler, DataScheduler, Translating, Sender
<1>7. OrderInv'
  BY <1>1, Threads, OrderSteps DEF OrderInv, TerminateByHand, serverVars, MovesTo,
    LinkTypeOK, StartedInv, NotLaunchedYet, Terminating, CloseStep
<1>8. WorkInv'
  BY <1>1 DEF WorkInv, TerminateByHand, serverVars, MovesTo
<1>9. ConnectionInv'
  BY <1>1, Threads, OrderSteps DEF ConnectionInv, TerminateByHand, serverVars, MovesTo,
    LinkTypeOK, StartedInv, OrderInv, NotLaunchedYet, Terminating, CloseStep
<1>10. ErrorsInv'
  BY <1>1 DEF ErrorsInv, TerminateByHand, serverVars, MovesTo
<1>11. QED
  BY <1>2, <1>3, <1>4, <1>5, <1>6, <1>7, <1>8, <1>9, <1>10

LEMMA DestroyKeeps ==
  ASSUME LinkInv, Destroy
  PROVE  LinkInv'
<1> USE DEF LinkInv, inputVars, threadVars, consumedVars
<1>1. MovesTo("main", 1)
  BY OthersMove
<1>2. mainAt = "up" /\ pc["main"] \in {0, 15}
  BY Steps DEF Destroy
<1>3. LinkTypeOK'
  BY <1>1, <1>2, Threads DEF LinkTypeOK, Destroy, serverVars, MovesTo, NotLaunchedYet,
    Terminating
<1>4. HistoryInv'
  BY <1>1, <1>2, Threads DEF HistoryInv, OneMinorErrorIsSurvived, Destroy, serverVars,
    MovesTo, LinkTypeOK
<1>5. StartedInv'
  BY <1>1, <1>2, Threads DEF StartedInv, Destroy, serverVars, MovesTo, LinkTypeOK,
    NotLaunchedYet, Terminating
<1>6. CallInv'
  BY <1>1, <1>2, Threads, OrderSteps DEF CallInv, Destroy, serverVars, MovesTo, LinkTypeOK,
    StartedInv, OrderInv, NotLaunchedYet, Terminating, CloseStep
<1>7. JoinInv'
  BY <1>1, <1>2, Threads, OrderSteps DEF JoinInv, Destroy, serverVars, MovesTo, LinkTypeOK,
    StartedInv, OrderInv, NotLaunchedYet, Terminating, CloseStep, Worker, Scheduler,
    DataScheduler, Translating, Sender
<1>8. OrderInv'
  BY <1>1, <1>2, Threads, OrderSteps DEF OrderInv, Destroy, serverVars, MovesTo, LinkTypeOK,
    StartedInv, NotLaunchedYet, Terminating, CloseStep
<1>9. WorkInv'
  BY <1>1, <1>2 DEF WorkInv, Destroy, serverVars, MovesTo
<1>10. ConnectionInv'
  BY <1>1, <1>2, Threads, OrderSteps DEF ConnectionInv, Destroy, serverVars, MovesTo,
    LinkTypeOK, StartedInv, OrderInv, NotLaunchedYet, Terminating, CloseStep
<1>11. ErrorsInv'
  BY <1>1, <1>2 DEF ErrorsInv, Destroy, serverVars, MovesTo
<1>12. QED
  BY <1>3, <1>4, <1>5, <1>6, <1>7, <1>8, <1>9, <1>10, <1>11

LEMMA DestroyMembersKeeps ==
  ASSUME LinkInv, DestroyMembers
  PROVE  LinkInv'
<1> USE DEF LinkInv, inputVars, threadVars, consumedVars
<1>1. LinkTypeOK'
  BY Threads DEF LinkTypeOK, DestroyMembers, serverVars, NotLaunchedYet, Terminating
<1>2. HistoryInv'
  BY DEF HistoryInv, OneMinorErrorIsSurvived, DestroyMembers, serverVars
<1>3. StartedInv'
  BY Threads DEF StartedInv, DestroyMembers, serverVars, LinkTypeOK, NotLaunchedYet,
    Terminating
<1>4. CallInv'
  BY DEF CallInv, DestroyMembers, serverVars
<1>5. JoinInv'
  BY DEF JoinInv, DestroyMembers, serverVars
<1>6. OrderInv'
  BY Threads DEF OrderInv, DestroyMembers, serverVars, LinkTypeOK, NotLaunchedYet,
    Terminating
<1>7. WorkInv'
  BY DEF WorkInv, DestroyMembers, serverVars
<1>8. ConnectionInv'
  BY DEF ConnectionInv, DestroyMembers, serverVars
<1>9. ErrorsInv'
  BY DEF ErrorsInv, DestroyMembers, serverVars
<1>10. QED
  BY <1>1, <1>2, <1>3, <1>4, <1>5, <1>6, <1>7, <1>8, <1>9

LEMMA CloseSensorKeeps ==
  ASSUME LinkInv, NEW t \in Terminator, CloseSensor(t)
  PROVE  LinkInv'
<1> USE DEF LinkInv, inputVars, threadVars, consumedVars
<1>1. pc[t] = 1 /\ MovesTo(t, 2)
  BY CloseMoves
<1>2. ErrorsAdded
  BY ErrorsProduced DEF CloseSensor
<1>3. /\ UNCHANGED <<serverVars, mainAt, running, joinable, ordered, lifetime, takenError,
                     launched, fatalConsumed>>
      /\ ended' \in {ended, "destroyedStrategy"}
  BY DEF CloseSensor, UseOwnStrategy
<1>4. LinkTypeOK'
  BY <1>1, <1>2, <1>3, AddedErrorsAreTyped DEF LinkTypeOK, ErrorsAdded, serverVars, MovesTo
<1>5. HistoryInv'
  <2>1. \A d \in Detached : pc'[d] # 0 => pc[d] # 0
    BY <1>1 DEF MovesTo, Terminator, CloseStep
  <2>2. QED
    BY <1>3, <2>1 DEF HistoryInv, OneMinorErrorIsSurvived, serverVars
<1>6. StartedInv'
  <2>1. mainAt \in NotLaunchedYet => pc'["main"] = 0
    BY <1>1, Threads DEF StartedInv, MovesTo, LinkTypeOK
  <2>2. QED
    BY <1>3, <2>1 DEF StartedInv, serverVars
<1>7. CallInv'
  BY CloseMoves, <1>1, <1>2, <1>3, Threads DEF CallInv, serverVars, MovesTo, LinkTypeOK
<1>8. JoinInv'
  BY <1>1, <1>3, Threads, OrderSteps DEF JoinInv, serverVars, MovesTo, LinkTypeOK,
    StartedInv, OrderInv, NotLaunchedYet, Terminating, CloseStep, Worker, Scheduler,
    DataScheduler, Translating, Sender
<1>9. OrderInv'
  BY <1>1, <1>3, Threads, OrderSteps DEF OrderInv, serverVars, MovesTo, LinkTypeOK,
    StartedInv, NotLaunchedYet, Terminating, CloseStep
<1>10. WorkInv'
  BY <1>2, <1>3, AddedErrorsKeepWork DEF serverVars
<1>11. ConnectionInv'
  <2>1. pc'["main"] > CloseStep => pc["main"] > CloseStep
    BY <1>1 DEF MovesTo, Terminator, CloseStep
  <2>2. QED
    BY <1>3, <2>1 DEF ConnectionInv, serverVars
<1>12. ErrorsInv'
  <2> SUFFICES ASSUME launched = {}, mainAt = "up", running["errors"] = "finished"
               PROVE  FALSE
    BY <1>3 DEF ErrorsInv, serverVars
  <2>1. t = "main"
    BY <1>1 DEF HistoryInv, Terminator
  <2>2. ordered["errors"]
    BY DEF OrderInv, Worker, Scheduler
  <2>3. QED
    BY <1>1, <2>1, <2>2, OrderSteps DEF OrderInv, Terminating, Worker, Scheduler
<1>13. QED
  BY <1>4, <1>5, <1>6, <1>7, <1>8, <1>9, <1>10, <1>11, <1>12

LEMMA OrderTerminationKeeps ==
  ASSUME LinkInv, NEW t \in Terminator, OrderTermination(t)
  PROVE  LinkInv'
<1> USE DEF LinkInv, inputVars, threadVars, consumedVars
<1>1. PICK w \in Worker, next \in 1..15 :
         /\ pc[t] \in 1..14 /\ pc[t] = OrderStep[w] /\ serverCalls[t] = <<>>
         /\ MovesTo(t, next)
         /\ joinable[w] => next = OrderStep[w] + 1
         /\ ~joinable[w] => next = OrderStep[w] + 2
         /\ ordered' = [ordered EXCEPT ![w] = TRUE]
  BY OrderMoves
<1>2. UNCHANGED <<serverVars, ended, inputVars, consumedVars, running, mainAt, joinable,
                  lifetime>>
  BY DEF OrderTermination
<1>3. pc[t] = OrderStep[w] /\ pc[t] \in 1..14 /\ MovesTo(t, next)
  BY <1>1
<1>4. \A v \in Worker :
        /\ next > OrderStep[v] + 1 => pc[t] > OrderStep[v] + 1 \/ (v = w /\ ~joinable[w])
        /\ next = OrderStep[v] + 1 => v = w /\ joinable[w]
        /\ next > OrderStep[v] => pc[t] > OrderStep[v] \/ v = w
  <2> SUFFICES ASSUME NEW v \in Worker
               PROVE  /\ next > OrderStep[v] + 1 => pc[t] > OrderStep[v] + 1 \/ (v = w /\ ~joinable[w])
                      /\ next = OrderStep[v] + 1 => v = w /\ joinable[w]
                      /\ next > OrderStep[v] => pc[t] > OrderStep[v] \/ v = w
    OBVIOUS
  <2>1. /\ OrderStep[v] \in Nat /\ OrderStep[w] \in Nat
        /\ v = w \/ OrderStep[v] + 2 <= OrderStep[w] \/ OrderStep[w] + 2 <= OrderStep[v]
    BY OrderSteps
  <2>2. CASE joinable[w]
    <3>1. next = OrderStep[w] + 1
      BY <1>1, <2>2
    <3>2. QED
      BY <1>3, <2>1, <2>2, <3>1
  <2>3. CASE ~joinable[w]
    <3>1. next = OrderStep[w] + 2
      BY <1>1, <2>3
    <3>2. QED
      BY <1>3, <2>1, <2>3, <3>1
  <2>4. QED
    BY <2>2, <2>3
<1>5. next > pc[t] /\ next > OrderStep[w] /\ (next > CloseStep => pc[t] > CloseStep)
  <2>1. OrderStep[w] \in {2, 4, 6, 8, 10, 13} /\ (next = OrderStep[w] + 1 \/ next = OrderStep[w] + 2)
    BY <1>1, OrderSteps
  <2>2. QED
    BY <1>3, <2>1 DEF CloseStep
<1>6. LinkTypeOK'
  BY <1>1, <1>2 DEF LinkTypeOK, serverVars, MovesTo
<1>7. HistoryInv'
  <2>1. pc[t] # 0 /\ MovesTo(t, next)
    BY <1>3
  <2>2. \A d \in Detached : pc'[d] # 0 => pc[d] # 0
    BY <2>1 DEF MovesTo, Terminator
  <2>3. QED
    BY <1>2, <2>2 DEF HistoryInv, OneMinorErrorIsSurvived, serverVars
<1>8. StartedInv'
  BY <1>2, <1>3, Threads DEF StartedInv, serverVars, MovesTo, LinkTypeOK
<1>9. CallInv'
  BY <1>1, <1>2, <1>5, Threads DEF CallInv, serverVars, MovesTo, LinkTypeOK
<1>10. JoinInv'
  <2>1. \A v \in Worker : ~joinable[v] => running[v] \in {"finished", "unborn"}
    BY DEF JoinInv
  <2>2. \A v \in Worker : launched = {} /\ pc'["main"] = OrderStep[v] + 1 => joinable[v]
    BY <1>3, <1>4 DEF JoinInv, MovesTo, Terminator
  <2>3. \A u \in Terminator, v \in Worker :
           pc'[u] > OrderStep[v] + 1 => pc[u] > OrderStep[v] + 1 \/ (u = t /\ v = w /\ ~joinable[v])
    BY <1>3, <1>4 DEF MovesTo
  <2>4. \A u \in Terminator, v \in Scheduler : pc'[u] > OrderStep[v] + 1 => running[v] = "finished"
    BY <2>1, <2>3 DEF JoinInv, StartedInv, Worker
  <2>5. \A u \in Terminator :
           pc'[u] > OrderStep["communicator"] + 1 => running["communicator"] # "inTurn"
    BY <2>1, <2>3 DEF JoinInv, Worker
  <2>6. pc'["main"] > OrderStep["communicator"] + 1 => running["communicator"] = "finished"
    <3>1. t = "main" => running["communicator"] # "unborn"
      BY <1>3 DEF StartedInv
    <3>2. QED
      BY <2>1, <2>3, <3>1 DEF JoinInv, Worker, Terminator
  <2>7. QED
    BY <1>2, <2>1, <2>2, <2>4, <2>5, <2>6 DEF JoinInv
<1>11. OrderInv'
  <2>1. \A v \in Worker : ordered[v] => ordered'[v]
    BY <1>1 DEF LinkTypeOK
  <2>2. \A v \in Worker : ordered'[v] => ordered[v] \/ v = w
    BY <1>1 DEF LinkTypeOK
  <2>3. ordered'[w]
    BY <1>1 DEF LinkTypeOK
  <2>4. \A u \in Terminator, v \in Worker : pc'[u] > OrderStep[v] => ordered'[v]
    BY <1>3, <1>4, <2>1, <2>3 DEF OrderInv, MovesTo
  <2>5. \A v \in Scheduler :
           ordered'[v] => ordered'["communicator"] /\ running["communicator"] # "inTurn"
    <3>1. w \in Scheduler => ordered["communicator"] /\ running["communicator"] # "inTurn"
      <4>1. w \in Scheduler => pc[t] > OrderStep["communicator"] + 1
        BY <1>3, OrderSteps DEF Scheduler, DataScheduler, Translating, Sender
      <4>2. pc[t] > OrderStep["communicator"] + 1 => pc[t] > OrderStep["communicator"]
        BY <1>3, OrderSteps
      <4>3. QED
        BY <4>1, <4>2 DEF OrderInv, JoinInv, Worker
    <3>2. QED
      BY <2>1, <2>2, <3>1 DEF OrderInv, Worker
  <2>6. \A s \in Sender, v \in Translating : ordered'[s] => running[v] = "finished"
    <3>1. \A v \in Translating : w \in Sender => pc[t] > OrderStep[v] + 1
      BY <1>3, OrderSteps DEF Translating, Sender
    <3>2. QED
      BY <2>2, <3>1 DEF OrderInv, JoinInv, Worker, Scheduler, DataScheduler
  <2>7. ASSUME launched = {}, mainAt \notin Terminating, NEW v \in Worker, ordered'[v]
        PROVE  pc'["main"] > OrderStep[v]
    <3>1. t = "main"
      BY <1>3, <2>7 DEF HistoryInv, Terminator
    <3>2. CASE v = w
      BY <1>3, <1>5, <3>1, <3>2 DEF MovesTo
    <3>3. CASE v # w
      <4>1. pc[t] > OrderStep[v]
        BY <2>2, <2>7, <3>1, <3>3 DEF OrderInv
      <4>2. QED
        BY <1>3, <1>5, <3>1, <4>1, OrderSteps DEF MovesTo
    <3>4. QED
      BY <3>2, <3>3
  <2>8. QED
    BY <1>2, <2>1, <2>4, <2>5, <2>6, <2>7 DEF OrderInv
<1>12. WorkInv'
  BY <1>2 DEF WorkInv, serverVars, MovesTo
<1>13. ConnectionInv'
  BY <1>2, <1>3, <1>5, Threads DEF ConnectionInv, serverVars, MovesTo, LinkTypeOK
<1>14. ErrorsInv'
  BY <1>2, <1>3 DEF ErrorsInv, serverVars, MovesTo
<1>15. QED
  BY <1>6, <1>7, <1>8, <1>9, <1>10, <1>11, <1>12, <1>13, <1>14

LEMMA JoinKeeps ==
  ASSUME LinkInv, NEW t \in Terminator, Join(t)
  PROVE  LinkInv'
<1> USE DEF LinkInv, inputVars, threadVars, consumedVars
<1>1. PICK w \in Worker :
         /\ pc[t] \in 1..14 /\ pc[t] = OrderStep[w] + 1 /\ serverCalls[t] = <<>>
         /\ \/ /\ joinable[w] /\ running[w] = "finished" /\ MovesTo(t, OrderStep[w] + 2)
               /\ joinable' = [joinable EXCEPT ![w] = FALSE] /\ ended' = ended
            \/ /\ ~joinable[w] /\ UNCHANGED <<pc, joinable>> /\ ended' = "joinedTwice"
  BY JoinMoves
<1>2. UNCHANGED <<serverVars, inputVars, consumedVars, running, mainAt, ordered, lifetime>>
  BY DEF Join
<1>3. pc[t] = OrderStep[w] + 1 /\ pc[t] \in 1..14 /\ (MovesTo(t, OrderStep[w] + 2) \/ pc' = pc)
  BY <1>1
<1>4. \A v \in Worker :
        /\ OrderStep[w] + 2 > OrderStep[v] + 1 => pc[t] > OrderStep[v] + 1 \/ v = w
        /\ OrderStep[w] + 2 # OrderStep[v] + 1
        /\ OrderStep[w] + 2 > OrderStep[v] => pc[t] > OrderStep[v]
  BY <1>3, OrderSteps
<1>5. OrderStep[w] + 2 > pc[t] /\ (OrderStep[w] + 2 > CloseStep => pc[t] > CloseStep)
  <2>1. OrderStep[w] \in {2, 4, 6, 8, 10, 13}
    BY OrderSteps
  <2>2. QED
    BY <1>3, <2>1 DEF CloseStep
<1>6. LinkTypeOK'
  BY <1>1, <1>2 DEF LinkTypeOK, serverVars, MovesTo
<1>7. HistoryInv'
  <2>1. \A d \in Detached : pc'[d] # 0 => pc[d] # 0
    <3>1. pc[t] # 0 /\ (MovesTo(t, OrderStep[w] + 2) \/ pc' = pc)
      BY <1>3
    <3>2. QED
      BY <3>1 DEF MovesTo, Terminator
  <2>2. ASSUME ~joinable[w]
        PROVE  fatalConsumed
    <3>1. launched = {} => t = "main"
      BY <1>3 DEF HistoryInv, Terminator
    <3>2. launched # {}
      BY <1>3, <2>2, <3>1 DEF JoinInv
    <3>3. QED
      BY <3>2 DEF HistoryInv
  <2>3. ended' = ended \/ (ended' = "joinedTwice" /\ fatalConsumed)
    BY <1>1, <2>2
  <2>4. QED
    BY <1>2, <2>1, <2>3 DEF HistoryInv, OneMinorErrorIsSurvived, serverVars
<1>8. StartedInv'
  BY <1>2, <1>3, Threads DEF StartedInv, serverVars, MovesTo, LinkTypeOK
<1>9. CallInv'
  BY <1>1, <1>2, <1>5, Threads DEF CallInv, serverVars, MovesTo, LinkTypeOK
<1>10. JoinInv'
  <2>1. \A v \in Worker : ~joinable'[v] => running[v] \in {"finished", "unborn"}
    BY <1>1 DEF JoinInv, LinkTypeOK
  <2>2. ASSUME launched = {}, NEW v \in Worker, pc'["main"] = OrderStep[v] + 1
        PROVE  joinable'[v]
    <3>1. t = "main"
      BY <1>3, <2>2 DEF HistoryInv, Terminator
    <3>2. joinable[w]
      BY <1>3, <2>2, <3>1 DEF JoinInv
    <3>3. MovesTo(t, OrderStep[w] + 2)
      BY <1>1, <3>2
    <3>4. QED
      BY <1>4, <2>2, <3>1, <3>3 DEF MovesTo
  <2>3. \A u \in Terminator, v \in Worker :
           pc'[u] > OrderStep[v] + 1 => pc[u] > OrderStep[v] + 1 \/ running[v] = "finished"
    <3>1. CASE pc' = pc
      BY <3>1
    <3>2. CASE pc' # pc
      <4>1. running[w] = "finished" /\ MovesTo(t, OrderStep[w] + 2)
        BY <1>1, <3>2
      <4>2. QED
        BY <1>4, <4>1 DEF MovesTo
    <3>3. QED
      BY <3>1, <3>2
  <2>4. \A u \in Terminator, v \in Scheduler : pc'[u] > OrderStep[v] + 1 => running[v] = "finished"
    BY <2>3 DEF JoinInv, Worker
  <2>5. \A u \in Terminator :
           pc'[u] > OrderStep["communicator"] + 1 => running["communicator"] # "inTurn"
    BY <2>3 DEF JoinInv, Worker
  <2>6. pc'["main"] > OrderStep["communicator"] + 1 => running["communicator"] = "finished"
    BY <2>3 DEF JoinInv, Worker, Terminator
  <2>7. QED
    BY <1>2, <2>1, <2>2, <2>4, <2>5, <2>6 DEF JoinInv
<1>11. OrderInv'
  <2>1. \A u \in Terminator, v \in Worker : pc'[u] > OrderStep[v] => pc[u] > OrderStep[v]
    BY <1>3, <1>4 DEF MovesTo
  <2>2. \A v \in Worker : pc["main"] > OrderStep[v] => pc'["main"] > OrderStep[v]
    <3>1. \A v \in Worker : OrderStep[v] \in Nat
      BY OrderSteps
    <3>2. QED
      BY <1>3, <1>5, <3>1 DEF MovesTo, Terminator, LinkTypeOK
  <2>3. QED
    BY <1>2, <2>1, <2>2 DEF OrderInv
<1>12. WorkInv'
  BY <1>2 DEF WorkInv, serverVars, MovesTo
<1>13. ConnectionInv'
  <2>1. pc'["main"] > CloseStep => pc["main"] > CloseStep
    BY <1>3, <1>5 DEF MovesTo, Terminator
  <2>2. QED
    BY <1>2, <2>1 DEF ConnectionInv, serverVars
<1>14. ErrorsInv'
  BY <1>2, <1>3 DEF ErrorsInv, serverVars, MovesTo
<1>15. QED
  BY <1>6, <1>7, <1>8, <1>9, <1>10, <1>11, <1>12, <1>13, <1>14

LEMMA CloseServerKeeps ==
  ASSUME LinkInv, NEW t \in Terminator, CloseServer(t)
  PROVE  LinkInv'
<1> USE DEF LinkInv, inputVars, threadVars, consumedVars
<1>1. pc[t] = 12 /\ MovesTo(t, 13)
  BY CloseMoves DEF CloseStep
<1>2. UNCHANGED <<handling, serverConnection, serverFailures, ended, inputVars, consumedVars,
                  running, mainAt, joinable, ordered, lifetime>>
  BY DEF CloseServer, BeginServerCall
<1>3. serverCalls[t] = <<>> /\ serverCalls' = [serverCalls EXCEPT ![t] = <<"close">>]
  BY DEF CloseServer, BeginServerCall
<1>4. \A v \in Worker :
        /\ 13 > OrderStep[v] + 1 => 12 > OrderStep[v] + 1
        /\ 13 # OrderStep[v] + 1 /\ (13 > OrderStep[v] => 12 > OrderStep[v])
        /\ 12 > OrderStep[v] => 13 > OrderStep[v]
  <2>1. \A v \in Worker : OrderStep[v] \in {2, 4, 6, 8, 10, 13}
    BY OrderSteps
  <2>2. QED
    BY <2>1
<1>5. LinkTypeOK'
  BY LinkAssumption, ErrorKinds, <1>1, <1>2, <1>3 DEF LinkTypeOK, MovesTo, Worker,
    Scheduler, DataScheduler, Translating, Sender, Terminator, NotLaunchedYet, Terminating,
    CallLists, CloseStep
<1>6. HistoryInv'
  <2>1. \A d \in Detached : pc'[d] # 0 => pc[d] # 0
    BY <1>1, Threads DEF MovesTo
  <2>2. QED
    BY <1>2, <2>1 DEF HistoryInv, OneMinorErrorIsSurvived
<1>7. StartedInv'
  BY <1>1, <1>2, Threads DEF StartedInv, MovesTo, LinkTypeOK
<1>8. CallInv'
  <2>1. serverCalls'[t] # <<>> => pc'[t] = CloseStep + 1
    BY <1>1, CloseMoves DEF MovesTo, CloseStep
  <2>2. \A u \in Terminator \ {t} : serverCalls'[u] = serverCalls[u] /\ pc'[u] = pc[u]
    BY <1>1, <1>3, Threads DEF MovesTo, LinkTypeOK
  <2>3. QED
    BY <1>2, <2>1, <2>2, Threads DEF CallInv
<1>9. JoinInv'
  <2>1. \A u \in Terminator, v \in Worker :
           /\ pc'[u] > OrderStep[v] + 1 => pc[u] > OrderStep[v] + 1
           /\ pc'[u] = OrderStep[v] + 1 => pc[u] = OrderStep[v] + 1
    BY <1>1, <1>4 DEF MovesTo
  <2>2. QED
    BY <1>2, <2>1, Threads DEF JoinInv, Worker
<1>10. OrderInv'
  <2>1. \A u \in Terminator, v \in Worker : pc'[u] > OrderStep[v] <=> pc[u] > OrderStep[v]
    BY <1>1, <1>4 DEF MovesTo
  <2>2. QED
    BY <1>2, <2>1, Threads DEF OrderInv
<1>11. WorkInv'
  BY <1>2, <1>3, Threads DEF WorkInv, MovesTo, LinkTypeOK
<1>12. ConnectionInv'
  <2>1. /\ t \in Callers /\ t \notin Sender /\ "main" \in Callers /\ "main" \notin Sender
        /\ Sender \subseteq Callers
    BY Threads
  <2>2. /\ \A u \in Callers \ {t} : serverCalls'[u] = serverCalls[u]
        /\ serverCalls'[t] = <<"close">>
    BY <1>3, <2>1 DEF LinkTypeOK
  <2>3. CASE t = "main"
    <3>1. mainAt # "openServer" /\ mainAt # "constructed"
      BY <1>1, <2>3 DEF StartedInv, NotLaunchedYet
    <3>2. QED
      BY <1>2, <2>1, <2>2, <2>3, <3>1, Threads DEF ConnectionInv
  <2>4. CASE t # "main"
    <3>1. pc'["main"] = pc["main"]
      BY <1>1, <2>4 DEF MovesTo, Terminator
    <3>2. QED
      BY <1>2, <2>1, <2>2, <2>4, <3>1, Threads DEF ConnectionInv
  <2>5. QED
    BY <2>3, <2>4
<1>13. ErrorsInv'
  BY <1>1, <1>2, <1>3 DEF ErrorsInv, MovesTo
<1>14. QED
  BY <1>5, <1>6, <1>7, <1>8, <1>9, <1>10, <1>11, <1>12, <1>13

LEMMA UseAfterDestructionKeeps ==
  ASSUME LinkInv, NEW t \in Terminator, UseAfterDestruction(t)
  PROVE  LinkInv'
<1> USE DEF LinkInv, inputVars, threadVars, consumedVars
<1>1. t \in Detached /\ pc[t] \in 1..14 /\ ended' = "usedAfterDestruction"
  BY Steps DEF UseAfterDestruction
<1>2. UNCHANGED <<serverVars, linkVars>>
  BY DEF UseAfterDestruction
<1>3. LinkTypeOK'
  BY <1>1, <1>2 DEF LinkTypeOK, serverVars, linkVars
<1>4. HistoryInv'
  BY <1>1, <1>2 DEF HistoryInv, OneMinorErrorIsSurvived, serverVars, linkVars
<1>5. StartedInv'
  BY <1>1, <1>2 DEF StartedInv, serverVars, linkVars
<1>6. CallInv'
  BY <1>1, <1>2 DEF CallInv, serverVars, linkVars
<1>7. JoinInv'
  BY <1>1, <1>2 DEF JoinInv, serverVars, linkVars
<1>8. OrderInv'
  BY <1>1, <1>2 DEF OrderInv, serverVars, linkVars
<1>9. WorkInv'
  BY <1>1, <1>2 DEF WorkInv, serverVars, linkVars
<1>10. ConnectionInv'
  BY <1>1, <1>2 DEF ConnectionInv, serverVars, linkVars
<1>11. ErrorsInv'
  BY <1>1, <1>2 DEF ErrorsInv, serverVars, linkVars
<1>12. QED
  BY <1>3, <1>4, <1>5, <1>6, <1>7, <1>8, <1>9, <1>10, <1>11

LEMMA BeginTurnKeeps ==
  ASSUME LinkInv, BeginTurn
  PROVE  LinkInv'
<1> USE DEF LinkInv, inputVars, threadVars, consumedVars
<1>1. /\ running["communicator"] = "running" /\ ~ordered["communicator"]
      /\ UNCHANGED <<serverVars, ended, inputVars, threadVars, consumedVars>>
  BY DEF BeginTurn
<1>2. /\ running' \in [Worker -> States] /\ running'["communicator"] = "inTurn"
      /\ \A v \in Worker \ {"communicator"} : running'[v] = running[v]
  BY BecomesOther DEF BeginTurn, Worker, States
<1>3. \A s \in Scheduler : s \in Worker \ {"communicator"}
  BY DEF Worker, Scheduler, DataScheduler, Translating, Sender
<1>4. LinkTypeOK'
  BY <1>1, <1>2 DEF LinkTypeOK, serverVars
<1>5. HistoryInv'
  BY <1>1 DEF HistoryInv, OneMinorErrorIsSurvived, serverVars
<1>6. StartedInv'
  BY <1>1, <1>2, <1>3 DEF StartedInv
<1>7. CallInv'
  BY <1>1 DEF CallInv, serverVars
<1>8. JoinInv'
  <2>1. \A t \in Terminator : ~(pc[t] > OrderStep["communicator"])
    BY <1>1 DEF OrderInv, Worker
  <2>2. \A t \in Terminator : ~(pc[t] > OrderStep["communicator"] + 1)
    BY <2>1, OrderSteps DEF LinkTypeOK
  <2>3. QED
    BY <1>1, <1>2, <1>3, <2>2, Threads DEF JoinInv
<1>9. OrderInv'
  BY <1>1, <1>2, <1>3 DEF OrderInv, Worker, Scheduler, DataScheduler
<1>10. WorkInv'
  BY <1>1, <1>2, <1>3 DEF WorkInv, Scheduler, DataScheduler, serverVars
<1>11. ConnectionInv'
  BY <1>1, <1>2, <1>3 DEF ConnectionInv, Scheduler, DataScheduler, serverVars
<1>12. ErrorsInv'
  BY <1>1, <1>2, <1>3 DEF ErrorsInv, Scheduler
<1>13. QED
  BY <1>4, <1>5, <1>6, <1>7, <1>8, <1>9, <1>10, <1>11, <1>12

LEMMA EndTurnKeeps ==
  ASSUME LinkInv, EndTurn
  PROVE  LinkInv'
<1> USE DEF LinkInv, inputVars, threadVars, consumedVars
<1>1. /\ running["communicator"] = "inTurn"
      /\ UNCHANGED <<serverVars, ended, inputVars, threadVars, consumedVars>>
  BY DEF EndTurn
<1>2. /\ running' \in [Worker -> States] /\ running'["communicator"] = "running"
      /\ \A v \in Worker \ {"communicator"} : running'[v] = running[v]
  BY BecomesOther DEF EndTurn, Worker, States
<1>3. \A s \in Scheduler : s \in Worker \ {"communicator"}
  BY DEF Worker, Scheduler, DataScheduler, Translating, Sender
<1>4. LinkTypeOK'
  BY <1>1, <1>2 DEF LinkTypeOK, serverVars
<1>5. HistoryInv'
  BY <1>1 DEF HistoryInv, OneMinorErrorIsSurvived, serverVars
<1>6. StartedInv'
  BY <1>1, <1>2, <1>3 DEF StartedInv
<1>7. CallInv'
  BY <1>1 DEF CallInv, serverVars
<1>8. JoinInv'
  BY <1>1, <1>2, <1>3, OrderSteps DEF JoinInv, OrderInv, Worker
<1>9. OrderInv'
  BY <1>1, <1>2, <1>3 DEF OrderInv, Worker, Scheduler, DataScheduler
<1>10. WorkInv'
  BY <1>1, <1>2, <1>3 DEF WorkInv, Scheduler, DataScheduler, serverVars
<1>11. ConnectionInv'
  BY <1>1, <1>2, <1>3 DEF ConnectionInv, Scheduler, DataScheduler, serverVars
<1>12. ErrorsInv'
  BY <1>1, <1>2, <1>3 DEF ErrorsInv, Scheduler
<1>13. QED
  BY <1>4, <1>5, <1>6, <1>7, <1>8, <1>9, <1>10, <1>11, <1>12

LEMMA LeaveRunKeeps ==
  ASSUME LinkInv, LeaveRun
  PROVE  LinkInv'
<1> USE DEF LinkInv, inputVars, threadVars, consumedVars
<1>1. /\ running["communicator"] = "running" /\ ordered["communicator"]
      /\ UNCHANGED <<serverVars, ended, inputVars, threadVars, consumedVars>>
  BY DEF LeaveRun
<1>2. /\ running' \in [Worker -> States] /\ running'["communicator"] = "finished"
      /\ \A v \in Worker \ {"communicator"} : running'[v] = running[v]
  BY BecomesOther DEF LeaveRun, Worker, States
<1>3. \A s \in Scheduler : s \in Worker \ {"communicator"}
  BY DEF Worker, Scheduler, DataScheduler, Translating, Sender
<1>4. LinkTypeOK'
  BY <1>1, <1>2 DEF LinkTypeOK, serverVars
<1>5. HistoryInv'
  BY <1>1 DEF HistoryInv, OneMinorErrorIsSurvived, serverVars
<1>6. StartedInv'
  BY <1>1, <1>2, <1>3 DEF StartedInv
<1>7. CallInv'
  BY <1>1 DEF CallInv, serverVars
<1>8. JoinInv'
  BY <1>1, <1>2, <1>3, OrderSteps DEF JoinInv, OrderInv, Worker
<1>9. OrderInv'
  BY <1>1, <1>2, <1>3 DEF OrderInv, Worker, Scheduler, DataScheduler
<1>10. WorkInv'
  BY <1>1, <1>2, <1>3 DEF WorkInv, Scheduler, DataScheduler, serverVars
<1>11. ConnectionInv'
  BY <1>1, <1>2, <1>3 DEF ConnectionInv, Scheduler, DataScheduler, serverVars
<1>12. ErrorsInv'
  BY <1>1, <1>2, <1>3 DEF ErrorsInv, Scheduler
<1>13. QED
  BY <1>4, <1>5, <1>6, <1>7, <1>8, <1>9, <1>10, <1>11, <1>12

LEMMA CommunicatorProducesKeeps ==
  ASSUME LinkInv, CommunicatorProduces
  PROVE  LinkInv'
<1> USE DEF LinkInv, inputVars, threadVars, consumedVars
<1>1. /\ running["communicator"] = "inTurn"
      /\ UNCHANGED <<serverVars, running, threadVars, consumedVars>>
      /\ ended' \in {ended, "destroyedStrategy"}
  BY DEF CommunicatorProduces, UseOwnStrategy
<1>2. \A w \in Scheduler : ~ordered[w] /\ running[w] # "finished"
  BY <1>1 DEF OrderInv, Worker
<1>3. LinkTypeOK' /\ WorkInv'
  <2>1. CASE ProduceErrors
    <3>1. ErrorsAdded
      BY <2>1, ErrorsProduced
    <3>2. QED
      BY <1>1, <3>1, AddedErrorsAreTyped, AddedErrorsKeepWork
      DEF LinkTypeOK, ErrorsAdded, serverVars
  <2>2. ASSUME NEW s \in Delivered, Write(s), UNCHANGED <<awaitingErrors, fatalErrors>>
        PROVE  LinkTypeOK' /\ WorkInv'
    <3>1. s \in DataScheduler /\ s \in Scheduler /\ s # "errors"
      BY LinkAssumption DEF Scheduler, DataScheduler, Translating
    <3>2. /\ backlog' \in {backlog, backlog \cup {s}} /\ raced' \in {raced, raced \cup {s}}
          /\ running[s] = "sawEmpty" => s \in raced'
      BY <2>2, <3>1, Writes
    <3>3. LinkTypeOK'
      BY <1>1, <2>2, <3>1, <3>2 DEF LinkTypeOK, serverVars
    <3>4. WorkInv'
      BY <1>1, <1>2, <2>2, <3>1, <3>2 DEF WorkInv, serverVars
    <3>5. QED
      BY <3>3, <3>4
  <2>3. QED
    BY <2>1, <2>2 DEF CommunicatorProduces
<1>4. HistoryInv'
  BY <1>1 DEF HistoryInv, OneMinorErrorIsSurvived, serverVars
<1>5. StartedInv'
  BY <1>1 DEF StartedInv
<1>6. CallInv'
  BY <1>1 DEF CallInv, serverVars
<1>7. JoinInv'
  BY <1>1 DEF JoinInv
<1>8. OrderInv'
  BY <1>1 DEF OrderInv
<1>9. ConnectionInv'
  BY <1>1 DEF ConnectionInv, serverVars
<1>10. ErrorsInv'
  BY <1>1, <1>2 DEF ErrorsInv, Scheduler
<1>11. QED
  BY <1>3, <1>4, <1>5, <1>6, <1>7, <1>8, <1>9, <1>10

(* A scheduler's step to another state of its loop, with what it does to   *)
(* the lists left to each action.                                          *)
LoopStep(s, state) ==
  /\ running' \in [Worker -> States] /\ running'[s] = state
  /\ \A v \in Worker \ {s} : running'[v] = running[v]
  /\ running[s] # "finished" /\ UNCHANGED <<threadVars, launched>>

LEMMA LoopStepKeeps ==
  ASSUME LinkInv, NEW s \in Scheduler, NEW state \in States \ {"unborn", "inTurn"},
         LoopStep(s, state), state = "finished" => ordered[s]
  PROVE  StartedInv' /\ JoinInv' /\ OrderInv'
<1> USE DEF LinkInv, threadVars, LoopStep
<1>1. s \in Worker /\ s # "communicator" /\ \A w \in Scheduler : w \in Worker
  BY DEF Worker, Scheduler, DataScheduler, Translating, Sender
<1>2. \A v \in Worker : running[v] = "finished" => running'[v] = "finished"
  BY <1>1
<1>3. running'["communicator"] = running["communicator"]
  BY <1>1 DEF Worker
<1>4. StartedInv'
  BY <1>1, <1>3 DEF StartedInv
<1>5. JoinInv'
  BY <1>1, <1>2, <1>3 DEF JoinInv, StartedInv, Worker
<1>6. OrderInv'
  BY <1>1, <1>2, <1>3 DEF OrderInv, Worker, Scheduler, DataScheduler
<1>7. QED
  BY <1>4, <1>5, <1>6

LEMMA ReadIsEmptyKeeps ==
  ASSUME LinkInv, NEW s \in Scheduler, ReadIsEmpty(s)
  PROVE  LinkInv'
<1> USE DEF LinkInv, inputVars, threadVars, consumedVars
<1>1. /\ InLoop(s) /\ s \notin backlog
      /\ UNCHANGED <<serverVars, ended, inputVars, threadVars, consumedVars>>
  BY DEF ReadIsEmpty
<1>2. LoopStep(s, "sawEmpty")
  BY <1>1, BecomesOther DEF ReadIsEmpty, LoopStep, InLoop, Worker, States
<1>3. LinkTypeOK'
  BY <1>1, <1>2 DEF LinkTypeOK, LoopStep, serverVars
<1>4. HistoryInv'
  BY <1>1 DEF HistoryInv, OneMinorErrorIsSurvived, serverVars
<1>5. StartedInv' /\ JoinInv' /\ OrderInv'
  BY <1>2, LoopStepKeeps DEF States
<1>6. CallInv'
  BY <1>1 DEF CallInv, serverVars
<1>7. WorkInv'
  BY <1>1, <1>2 DEF WorkInv, LoopStep, InLoop, serverVars, Worker, Scheduler, DataScheduler,
    Translating, Sender
<1>8. ConnectionInv'
  BY <1>1, <1>2 DEF ConnectionInv, LoopStep, InLoop, serverVars, Worker, Scheduler, DataScheduler
<1>9. ErrorsInv'
  BY <1>1, <1>2 DEF ErrorsInv, LoopStep, InLoop, Worker, Scheduler
<1>10. QED
  BY <1>3, <1>4, <1>5, <1>6, <1>7, <1>8, <1>9

LEMMA ReadOrderKeeps ==
  ASSUME LinkInv, NEW s \in Scheduler, ReadOrder(s)
  PROVE  LinkInv'
<1> USE DEF LinkInv, inputVars, threadVars, consumedVars
<1>1. /\ running[s] = "sawEmpty" /\ raced' \in {raced, raced \ {s}}
      /\ UNCHANGED <<serverVars, ended, backlog, awaitingErrors, fatalErrors, threadVars,
                     consumedVars>>
  BY DEF ReadOrder
<1>2. PICK state \in {"running", "finished"} :
         /\ LoopStep(s, state) /\ (state = "finished" => ordered[s] /\ raced' = raced)
  BY <1>1, BecomesOther DEF ReadOrder, LoopStep, Worker, States
<1>3. LinkTypeOK'
  BY <1>1, <1>2 DEF LinkTypeOK, LoopStep, serverVars
<1>4. HistoryInv'
  BY <1>1 DEF HistoryInv, OneMinorErrorIsSurvived, serverVars
<1>5. StartedInv' /\ JoinInv' /\ OrderInv'
  BY <1>2, LoopStepKeeps DEF States
<1>6. CallInv'
  BY <1>1 DEF CallInv, serverVars
<1>7. WorkInv'
  BY <1>1, <1>2 DEF WorkInv, LoopStep, serverVars, Worker, Scheduler, DataScheduler,
    Translating, Sender
<1>8. ConnectionInv'
  BY <1>1, <1>2 DEF ConnectionInv, LoopStep, serverVars, Worker, Scheduler, DataScheduler
<1>9. ErrorsInv'
  BY <1>1, <1>2 DEF ErrorsInv, WorkInv, LoopStep, Worker, Scheduler
<1>10. QED
  BY <1>3, <1>4, <1>5, <1>6, <1>7, <1>8, <1>9

LEMMA TakeDataKeeps ==
  ASSUME LinkInv, NEW s \in DataScheduler, TakeData(s)
  PROVE  LinkInv'
<1> USE DEF LinkInv, inputVars, threadVars, consumedVars
<1>1. /\ InLoop(s) /\ s \in backlog /\ s \in Scheduler /\ backlog' = backlog \ {s}
      /\ UNCHANGED <<serverVars, ended, raced, awaitingErrors, fatalErrors, threadVars,
                     consumedVars>>
  BY DEF TakeData, Scheduler
<1>2. LoopStep(s, "consuming")
  BY <1>1, BecomesOther DEF TakeData, LoopStep, InLoop, Worker, States
<1>3. LinkTypeOK'
  BY <1>1, <1>2 DEF LinkTypeOK, LoopStep, serverVars
<1>4. HistoryInv'
  BY <1>1 DEF HistoryInv, OneMinorErrorIsSurvived, serverVars
<1>5. StartedInv' /\ JoinInv' /\ OrderInv'
  BY <1>1, <1>2, LoopStepKeeps DEF States
<1>6. CallInv'
  BY <1>1 DEF CallInv, serverVars
<1>7. WorkInv'
  BY <1>1, <1>2 DEF WorkInv, LoopStep, InLoop, serverVars, Worker, Scheduler, DataScheduler,
    Translating, Sender
<1>8. ConnectionInv'
  BY <1>1, <1>2 DEF ConnectionInv, LoopStep, InLoop, serverVars, Worker, Scheduler, DataScheduler
<1>9. ErrorsInv'
  BY <1>1, <1>2 DEF ErrorsInv, LoopStep, InLoop, Worker, Scheduler
<1>10. QED
  BY <1>3, <1>4, <1>5, <1>6, <1>7, <1>8, <1>9

LEMMA TranslateDataKeeps ==
  ASSUME LinkInv, NEW s \in DataScheduler, TranslateData(s)
  PROVE  LinkInv'
<1> USE DEF LinkInv, inputVars, threadVars, consumedVars
<1>1. /\ s \in Translating /\ s \in Scheduler /\ running[s] = "consuming"
      /\ UNCHANGED <<serverVars, threadVars, consumedVars>>
      /\ ended' \in {ended, "destroyedStrategy"}
  BY DEF TranslateData, UseOwnStrategy, Scheduler
<1>2. LoopStep(s, "running")
  BY <1>1, BecomesOther DEF TranslateData, LoopStep, Worker, States
<1>3. \A v \in Sender : ~ordered[v] /\ running[v] # "finished"
  BY <1>1 DEF OrderInv, Worker, Scheduler, DataScheduler
<1>4. \/ ErrorsAdded
      \/ \E to \in Sender : Write(to) /\ UNCHANGED <<awaitingErrors, fatalErrors>>
  <2>1. Kind(TranslationError) \in {"fatal", "minor"}
    BY ErrorKinds DEF TranslationError, NewError, Error, Category, Severity
  <2>2. ASSUME NEW kinds \in {{}, {Kind(TranslationError)}}, WriteErrors(kinds)
        PROVE  ErrorsAdded
    BY <2>1, <2>2, ErrorsWritten
  <2>3. QED
    BY <2>2 DEF TranslateData, Sender
<1>5. LinkTypeOK' /\ WorkInv'
  <2>1. CASE ErrorsAdded
    <3>1. LinkTypeOK'
      BY <1>1, <1>2, <2>1, AddedErrorsAreTyped DEF LinkTypeOK, ErrorsAdded, LoopStep, serverVars
    <3>2. WorkInv'
      BY <1>1, <1>2, <2>1 DEF WorkInv, ErrorsAdded, LoopStep, serverVars, Worker, Scheduler,
        DataScheduler, Translating, Sender
    <3>3. QED
      BY <3>1, <3>2
  <2>2. ASSUME NEW to \in Sender, Write(to), UNCHANGED <<awaitingErrors, fatalErrors>>
        PROVE  LinkTypeOK' /\ WorkInv'
    <3>1. /\ to \in Scheduler /\ to # s /\ to # "errors"
          /\ backlog' \in {backlog, backlog \cup {to}} /\ raced' \in {raced, raced \cup {to}}
          /\ running[to] = "sawEmpty" => to \in raced'
      BY <1>1, <2>2, Writes DEF Scheduler, DataScheduler, Translating, Sender
    <3>2. LinkTypeOK'
      BY <1>1, <1>2, <2>2, <3>1 DEF LinkTypeOK, LoopStep, serverVars
    <3>3. running["communicator"] # "unborn"
      BY <1>1 DEF WorkInv
    <3>4. WorkInv'
      BY <1>1, <1>2, <1>3, <2>2, <3>1, <3>3 DEF WorkInv, LoopStep, serverVars, Worker, Scheduler,
        DataScheduler, Translating, Sender
    <3>5. QED
      BY <3>2, <3>4
  <2>3. QED
    BY <1>4, <2>1, <2>2
<1>6. HistoryInv'
  BY <1>1 DEF HistoryInv, OneMinorErrorIsSurvived, serverVars
<1>7. StartedInv' /\ JoinInv' /\ OrderInv'
  BY <1>1, <1>2, LoopStepKeeps DEF States
<1>8. CallInv'
  BY <1>1 DEF CallInv, serverVars
<1>9. ConnectionInv'
  BY <1>1, <1>2 DEF ConnectionInv, LoopStep, serverVars, Worker, Scheduler, DataScheduler
<1>10. ErrorsInv'
  <2> SUFFICES ASSUME launched = {}, mainAt = "up", running["errors"] = "finished"
               PROVE  FALSE
    BY <1>1, <1>2 DEF ErrorsInv, LoopStep, Worker, Scheduler, DataScheduler, Translating
  <2>1. pc["main"] > OrderStep["errors"]
    BY DEF OrderInv, Worker, Scheduler, Terminating
  <2>2. pc["main"] > OrderStep[s] + 1
    BY <1>1, <2>1, OrderSteps, Threads DEF LinkTypeOK, Translating
  <2>3. QED
    BY <1>1, <2>2, Threads DEF JoinInv
<1>11. QED
  BY <1>5, <1>6, <1>7, <1>8, <1>9, <1>10

LEMMA SendDataKeeps ==
  ASSUME LinkInv, NEW s \in DataScheduler, SendData(s)
  PROVE  LinkInv'
<1> USE DEF LinkInv, inputVars, threadVars, consumedVars
<1>1. /\ s \in Sender /\ s \in Scheduler /\ running[s] = "consuming"
      /\ serverCalls[s] = <<>> /\ serverCalls' = [serverCalls EXCEPT ![s] = <<"send">>]
      /\ UNCHANGED <<handling, serverConnection, serverFailures, ended, inputVars, threadVars,
                     consumedVars>>
  BY DEF SendData, BeginServerCall, Scheduler
<1>2. LoopStep(s, "running")
  BY <1>1, BecomesOther DEF SendData, LoopStep, Worker, States
<1>3. s \in Callers /\ s \notin Terminator
  BY <1>1, Threads
<1>4. LinkTypeOK'
  BY <1>1, <1>2, <1>3 DEF LinkTypeOK, LoopStep, CallLists
<1>5. HistoryInv'
  BY <1>1 DEF HistoryInv, OneMinorErrorIsSurvived
<1>6. StartedInv' /\ JoinInv' /\ OrderInv'
  BY <1>1, <1>2, LoopStepKeeps DEF States
<1>7. CallInv'
  BY <1>1, <1>3, Threads DEF CallInv, LinkTypeOK
<1>8. WorkInv'
  BY <1>1, <1>2, <1>3 DEF WorkInv, LoopStep, LinkTypeOK, Worker, Scheduler, DataScheduler,
    Translating, Sender
<1>9. ConnectionInv'
  BY <1>1, <1>2, <1>3, Threads DEF ConnectionInv, LoopStep, LinkTypeOK, Worker, Scheduler,
    DataScheduler
<1>10. ErrorsInv'
  BY <1>1, <1>2 DEF ErrorsInv, LoopStep, Worker, Scheduler, DataScheduler, Sender
<1>11. QED
  BY <1>4, <1>5, <1>6, <1>7, <1>8, <1>9, <1>10

LEMMA TakeErrorKeeps ==
  ASSUME LinkInv, TakeError
  PROVE  LinkInv'
<1> USE DEF LinkInv, inputVars, threadVars, consumedVars
<1>1. /\ InLoop("errors") /\ "errors" \in backlog
      /\ backlog' \in {backlog, backlog \ {"errors"}} /\ ("errors" \in backlog' => awaitingErrors' # {})
      /\ awaitingErrors' \subseteq awaitingErrors /\ takenError' \in awaitingErrors
      /\ UNCHANGED <<serverVars, ended, raced, fatalErrors, threadVars, launched, fatalConsumed>>
  BY DEF TakeError
<1>2. LoopStep("errors", "consuming")
  BY <1>1, BecomesOther DEF TakeError, LoopStep, InLoop, Worker, Scheduler, States
<1>3. LinkTypeOK'
  BY <1>1, <1>2 DEF LinkTypeOK, LoopStep, serverVars
<1>4. HistoryInv'
  BY <1>1 DEF HistoryInv, OneMinorErrorIsSurvived, serverVars
<1>5. StartedInv' /\ JoinInv' /\ OrderInv'
  BY <1>2, LoopStepKeeps DEF States, Scheduler
<1>6. CallInv'
  BY <1>1 DEF CallInv, serverVars
<1>7. WorkInv'
  BY <1>1, <1>2 DEF WorkInv, LoopStep, InLoop, serverVars, Worker, Scheduler, DataScheduler,
    Translating, Sender
<1>8. ConnectionInv'
  BY <1>1, <1>2 DEF ConnectionInv, LoopStep, InLoop, serverVars, Worker, Scheduler, DataScheduler
<1>9. ErrorsInv'
  BY <1>1, <1>2 DEF ErrorsInv, LoopStep, InLoop, Worker, Scheduler
<1>10. QED
  BY <1>3, <1>4, <1>5, <1>6, <1>7, <1>8, <1>9

LEMMA ConsumeErrorKeeps ==
  ASSUME LinkInv, ConsumeError
  PROVE  LinkInv'
<1> USE DEF LinkInv, inputVars, consumedVars
<1>1. \/ UNCHANGED <<launched, pc, fatalConsumed>>
      \/ \E d \in Detached \ launched :
           launched' = launched \cup {d} /\ fatalConsumed' = TRUE /\ MovesTo(d, 1)
  BY OthersMove
<1>2. /\ UNCHANGED <<serverVars, ended, inputVars, mainAt, joinable, ordered, lifetime>>
      /\ running["errors"] = "consuming" /\ takenError' = "none"
  BY DEF ConsumeError
<1>3. /\ running' \in [Worker -> States] /\ running'["errors"] = "running"
      /\ \A v \in Worker \ {"errors"} : running'[v] = running[v]
  BY BecomesOther DEF ConsumeError, Worker, Scheduler, States
<1>4. LinkTypeOK'
  BY <1>1, <1>2, <1>3 DEF LinkTypeOK, serverVars, MovesTo
<1>5. HistoryInv'
  BY <1>1, <1>2, Threads DEF HistoryInv, OneMinorErrorIsSurvived, serverVars, MovesTo,
    LinkTypeOK
<1>6. \A t \in Terminator : pc'[t] = pc[t] \/ (pc[t] = 0 /\ pc'[t] = 1 /\ t \in Detached)
  <2>1. CASE UNCHANGED <<launched, pc, fatalConsumed>>
    BY <2>1
  <2>2. ASSUME NEW d \in Detached \ launched, MovesTo(d, 1)
        PROVE  \A t \in Terminator :
                 pc'[t] = pc[t] \/ (pc[t] = 0 /\ pc'[t] = 1 /\ t \in Detached)
    <3>1. pc[d] = 0
      BY DEF HistoryInv
    <3>2. QED
      BY <2>2, <3>1 DEF MovesTo
  <2>3. QED
    BY <1>1, <2>1, <2>2
<1>7. pc'["main"] = pc["main"] /\ (launched' = {} => launched = {} /\ pc' = pc)
  BY <1>1, <1>6, Threads
<1>8. \A v \in Worker : running[v] = "finished" => running'[v] = "finished"
  BY <1>2, <1>3
<1>9. running'["communicator"] = running["communicator"]
  BY <1>3 DEF Worker, Scheduler, DataScheduler, Translating, Sender
<1>10. StartedInv'
  BY <1>2, <1>3, <1>7, <1>9 DEF StartedInv, Worker, Scheduler
<1>11. CallInv'
  BY <1>2, <1>6, Threads DEF CallInv, CloseStep, serverVars
<1>12. \A t \in Terminator, w \in Worker :
          /\ pc'[t] > OrderStep[w] + 1 => pc[t] > OrderStep[w] + 1
          /\ pc'[t] > OrderStep[w] => pc[t] > OrderStep[w]
  BY <1>6, OrderSteps
<1>13. JoinInv'
  BY <1>2, <1>3, <1>7, <1>8, <1>9, <1>12, Threads DEF JoinInv, Worker
<1>14. OrderInv'
  BY <1>2, <1>3, <1>7, <1>8, <1>9, <1>12, Threads
  DEF OrderInv, Worker, Scheduler, DataScheduler
<1>15. WorkInv'
  BY <1>2, <1>3 DEF WorkInv, serverVars, Worker, Scheduler, DataScheduler, Translating, Sender
<1>16. ConnectionInv'
  BY <1>2, <1>3, <1>7 DEF ConnectionInv, serverVars, Worker, Scheduler, DataScheduler
<1>17. ErrorsInv'
  BY <1>3 DEF ErrorsInv
<1>18. QED
  BY <1>4, <1>5, <1>10, <1>11, <1>13, <1>14, <1>15, <1>16, <1>17

LEMMA ServerCallReturnsKeeps ==
  ASSUME LinkInv, NEW t \in Callers, ServerCallReturns(t),
         UNCHANGED <<inputVars, running, threadVars, consumedVars>>
  PROVE  LinkInv'
<1> USE DEF LinkInv, inputVars, threadVars, consumedVars
<1>1. serverCalls[t] \in CallLists /\ serverCalls[t] # <<>>
  BY DEF ServerCallReturns, LinkTypeOK
<1>2. UNCHANGED <<serverFailures, ended, inputVars, running, threadVars, consumedVars>>
  BY DEF ServerCallReturns
<1>3. /\ serverCalls' \in [Callers -> CallLists] /\ serverCalls'[t] = Tail(serverCalls[t])
      /\ \A u \in Callers \ {t} : serverCalls'[u] = serverCalls[u]
  <2>1. Tail(serverCalls[t]) \in CallLists
    BY <1>1, AfterTail DEF CallLists
  <2>2. QED
    BY <2>1 DEF ServerCallReturns, LinkTypeOK
<1>4. handling' \subseteq handling
  BY DEF ServerCallReturns
<1>5. LinkTypeOK'
  <2>1. serverConnection' \in {"open", "closed"}
    BY DEF ServerCallReturns, LinkTypeOK
  <2>2. QED
    BY <1>2, <1>3, <1>4, <2>1 DEF LinkTypeOK
<1>6. HistoryInv'
  BY <1>2, <1>4 DEF HistoryInv, OneMinorErrorIsSurvived
<1>7. StartedInv'
  BY <1>2 DEF StartedInv
<1>8. CallInv'
  <2>1. \A u \in Callers : serverCalls'[u] # <<>> => serverCalls[u] # <<>>
    BY <1>1, <1>3
  <2>2. QED
    BY <1>2, <2>1, Threads DEF CallInv
<1>9. JoinInv'
  BY <1>2 DEF JoinInv
<1>10. OrderInv'
  BY <1>2 DEF OrderInv
<1>11. WorkInv'
  <2>1. \A u \in Callers : serverCalls[u] = <<>> => serverCalls'[u] = <<>>
    BY <1>1, <1>3
  <2>2. QED
    BY <1>2, <2>1, Threads DEF WorkInv
<1>12. ConnectionInv'
  <2> SUFFICES ASSUME serverFailures = 0
               PROVE  ConnectionInv'
    BY <1>2 DEF ConnectionInv
  <2>1. CASE t \in Sender
    <3>1. serverCalls[t] = <<"send">>
      BY <1>1, <2>1 DEF ConnectionInv
    <3>2. serverCalls'[t] = <<>> /\ serverConnection' = serverConnection
      BY <1>3, <3>1 DEF ServerCallReturns
    <3>3. serverCalls'["main"] = serverCalls["main"]
      BY <1>3, <2>1, Threads
    <3>4. QED
      BY <1>2, <1>3, <2>1, <3>2, <3>3, Threads DEF ConnectionInv
  <2>2. CASE t = "main" /\ mainAt = "openServer"
    <3>1. serverCalls[t] = <<"open">>
      BY <1>1, <2>2 DEF ConnectionInv
    <3>2. serverCalls'[t] = <<>> /\ serverConnection' = "open"
      BY <1>3, <3>1 DEF ServerCallReturns
    <3>3. \A u \in Detached \cup Sender : serverCalls'[u] = serverCalls[u]
      BY <1>3, <2>2, Threads
    <3>4. pc["main"] = 0
      BY <2>2 DEF StartedInv, NotLaunchedYet
    <3>5. QED
      BY <1>2, <2>2, <3>2, <3>3, <3>4 DEF ConnectionInv, CloseStep
  <2>3. CASE t \in Terminator /\ ~(t = "main" /\ mainAt = "openServer")
    <3>1. serverCalls[t] = <<"close">>
      BY <1>1, <2>3, Threads DEF ConnectionInv
    <3>2. serverCalls'[t] = <<>> /\ serverConnection' = "closed"
      BY <1>3, <3>1 DEF ServerCallReturns
    <3>3. pc[t] = CloseStep + 1
      BY <1>1, <2>3, Threads DEF CallInv
    <3>4. launched = {} => \A s \in Sender : running[s] = "finished"
      <4>1. \A s \in Sender : pc[t] > OrderStep[s] + 1
        BY <3>3, OrderSteps DEF Sender, CloseStep
      <4>2. QED
        BY <2>3, <4>1 DEF JoinInv, Scheduler, DataScheduler
    <3>5. \A u \in Callers : serverCalls'[u] = serverCalls[u] \/ serverCalls'[u] = <<>>
      BY <1>3, <3>2
    <3>6. QED
      BY <1>2, <3>2, <3>4, <3>5, Threads DEF ConnectionInv
  <2>4. QED
    BY <2>1, <2>2, <2>3, Threads
<1>13. ErrorsInv'
  BY <1>2 DEF ErrorsInv
<1>14. QED
  BY <1>5, <1>6, <1>7, <1>8, <1>9, <1>10, <1>11, <1>12, <1>13

(* A thread that is in a call of the server, whose error is produced, is   *)
(* none the error scheduler is told to end after.                          *)
LEMMA CallersPrecedeTheErrorScheduler ==
  ASSUME LinkInv, NEW t \in Callers, serverCalls[t] # <<>>, launched = {}, mainAt = "up"
  PROVE  running["errors"] # "finished"
<1> SUFFICES ASSUME running["errors"] = "finished"
             PROVE  FALSE
  OBVIOUS
<1> USE DEF LinkInv
<1>1. pc["main"] > 13
  <2>1. ordered["errors"]
    BY DEF OrderInv, Worker, Scheduler
  <2>2. QED
    BY <2>1, OrderSteps DEF OrderInv, Terminating, Worker, Scheduler
<1>2. CASE t \in Sender
  <2>1. pc["main"] > OrderStep[t] + 1
    BY <1>1, <1>2, OrderSteps, Threads DEF Sender, LinkTypeOK
  <2>2. running[t] = "finished"
    BY <1>2, <2>1, Threads DEF JoinInv, Scheduler, DataScheduler
  <2>3. QED
    BY <1>2, <2>2 DEF WorkInv
<1>3. CASE t = "main"
  BY <1>1, <1>3 DEF CallInv, CloseStep
<1>4. CASE t \in Detached
  BY <1>4 DEF CallInv, CloseStep, HistoryInv
<1>5. QED
  BY <1>2, <1>3, <1>4, Threads

LEMMA ServerCallThrowsKeeps ==
  ASSUME LinkInv, NEW t \in Callers, NEW c \in Consequences,
         ServerCallThrows(t, c), WriteErrors({c.kind}),
         UNCHANGED <<running, threadVars, consumedVars>>
  PROVE  LinkInv'
<1> USE DEF LinkInv, inputVars, threadVars, consumedVars
<1>1. /\ serverCalls[t] # <<>> /\ serverFailures' = serverFailures + 1
      /\ serverCalls' = [serverCalls EXCEPT ![t] = c.calls]
      /\ UNCHANGED <<serverConnection, ended, running, threadVars, consumedVars>>
  BY DEF ServerCallThrows
<1>2. c.calls \in CallLists /\ c.kind \in {"fatal", "minor"}
  BY ErrorCalls DEF CallLists
<1>3. /\ serverCalls' \in [Callers -> CallLists]
      /\ \A u \in Callers \ {t} : serverCalls'[u] = serverCalls[u]
  BY <1>1, <1>2 DEF LinkTypeOK
<1>4. handling' \subseteq Callers
  <2>1. handling' \in {handling, handling \cup {t}}
    BY DEF ServerCallThrows
  <2>2. QED
    BY <2>1 DEF LinkTypeOK
<1>5. ErrorsAdded
  BY <1>2, ErrorsWritten
<1>6. serverFailures' \in Nat /\ serverFailures' >= 1 /\ serverFailures' > serverFailures
  BY <1>1 DEF LinkTypeOK
<1>7. \A u \in Callers : serverCalls[u] = <<>> => serverCalls'[u] = <<>>
  BY <1>1, <1>3
<1>8. LinkTypeOK'
  BY <1>1, <1>3, <1>4, <1>5, <1>6, AddedErrorsAreTyped DEF LinkTypeOK, ErrorsAdded
<1>9. HistoryInv'
  BY <1>1, <1>6 DEF HistoryInv, OneMinorErrorIsSurvived, LinkTypeOK
<1>10. StartedInv'
  BY <1>1 DEF StartedInv
<1>11. CallInv'
  BY <1>1, <1>7, Threads DEF CallInv
<1>12. JoinInv'
  BY <1>1 DEF JoinInv
<1>13. OrderInv'
  BY <1>1 DEF OrderInv
<1>14. WorkInv'
  BY <1>1, <1>5, <1>7, Threads
  DEF WorkInv, ErrorsAdded, Scheduler, DataScheduler, Translating, Sender
<1>15. ConnectionInv'
  BY <1>1, <1>6 DEF ConnectionInv, LinkTypeOK
<1>16. ErrorsInv'
  BY <1>1, CallersPrecedeTheErrorScheduler DEF ErrorsInv
<1>17. QED
  BY <1>8, <1>9, <1>10, <1>11, <1>12, <1>13, <1>14, <1>15, <1>16

LEMMA HandlerThrowsKeeps ==
  ASSUME LinkInv, NEW t \in Callers, HandlerThrows(t),
         UNCHANGED <<inputVars, running, threadVars, consumedVars>>
  PROVE  LinkInv'
<1> USE DEF LinkInv, inputVars, threadVars, consumedVars
<1>1. /\ t \in handling /\ serverFailures' = serverFailures + 1 /\ ended' = "noexcept"
      /\ UNCHANGED <<serverCalls, handling, serverConnection, inputVars, running, threadVars,
                     consumedVars>>
  BY DEF HandlerThrows
<1>2. serverFailures' \in Nat /\ serverFailures' >= 2
  BY <1>1 DEF LinkTypeOK, HistoryInv
<1>3. LinkTypeOK'
  BY <1>1, <1>2 DEF LinkTypeOK
<1>4. HistoryInv'
  BY <1>1, <1>2 DEF HistoryInv, OneMinorErrorIsSurvived
<1>5. StartedInv' /\ CallInv' /\ JoinInv' /\ OrderInv' /\ WorkInv' /\ ErrorsInv'
  BY <1>1 DEF StartedInv, CallInv, JoinInv, OrderInv, WorkInv, ErrorsInv
<1>6. ConnectionInv'
  BY <1>1, <1>2 DEF ConnectionInv
<1>7. QED
  BY <1>3, <1>4, <1>5, <1>6

-----------------------------------------------------------------------------
(* The invariant, and what follows from it. *)

LEMMA LinkInvHoldsAtFirst == Init => LinkInv
<1> SUFFICES ASSUME Init
             PROVE  LinkInv
  OBVIOUS
<1>1. LinkTypeOK
  <2>1. Cardinality(Detached) \in Nat
    BY LinkAssumption, FS_CardinalityType
  <2>2. fatalErrors \in 0..Cardinality(Detached)
    BY <2>1 DEF Init
  <2>3. <<>> \in CallLists
    BY DEF CallLists
  <2>4. serverCalls \in [Callers -> CallLists]
    BY <2>3 DEF Init, ServerInit
  <2>5. /\ running \in [Worker -> States]
        /\ joinable \in [Worker -> BOOLEAN] /\ ordered \in [Worker -> BOOLEAN]
    BY DEF Init, States
  <2>6. /\ handling \subseteq Callers /\ serverConnection \in {"open", "closed"}
        /\ serverFailures \in Nat /\ awaitingErrors \subseteq {"fatal", "minor"}
    BY DEF Init, ServerInit
  <2>7. /\ backlog \subseteq Scheduler /\ raced \subseteq Scheduler
        /\ takenError = "none" /\ launched \subseteq Detached
        /\ fatalConsumed \in BOOLEAN /\ mainAt \in NotLaunchedYet
    BY DEF Init, NotLaunchedYet
  <2>8. pc \in [Terminator -> 0..15]
    BY DEF Init
  <2>9. QED
    BY <2>2, <2>4, <2>5, <2>6, <2>7, <2>8 DEF LinkTypeOK
<1>2. HistoryInv
  BY Threads DEF HistoryInv, OneMinorErrorIsSurvived, Init, ServerInit
<1>3. StartedInv
  BY Threads DEF StartedInv, NotLaunchedYet, Worker, Scheduler, DataScheduler, Translating, Sender, Init, ServerInit
<1>4. CallInv
  <2>1. \A t \in Callers : serverCalls[t] = <<>>
    BY DEF Init, ServerInit
  <2>2. serverCalls["main"] = <<>> /\ \A d \in Detached : serverCalls[d] = <<>>
    BY <2>1, Threads
  <2>3. QED
    BY <2>2 DEF CallInv
<1>5. JoinInv
  <2>1. \A w \in Worker : ~joinable[w] => running[w] = "unborn"
    BY DEF Init
  <2>2. \A w \in Worker : OrderStep[w] \in Nat
    BY OrderSteps
  <2>3. \A t \in Terminator, w \in Worker : ~(pc[t] > OrderStep[w] + 1) /\ pc[t] # OrderStep[w] + 1
    BY <2>2 DEF Init
  <2>4. QED
    BY <2>1, <2>3, Threads DEF JoinInv, Worker
<1>6. OrderInv
  BY Threads, OrderSteps DEF OrderInv, Worker, Scheduler, DataScheduler, Translating, Sender, Init, ServerInit
<1>7. WorkInv
  <2>1. \A w \in Scheduler : w \in Worker /\ w # "communicator"
    BY DEF Worker, Scheduler, DataScheduler, Translating, Sender
  <2>2. \A w \in Scheduler : running[w] = "running"
    BY <2>1 DEF Init
  <2>3. \A t \in Sender : serverCalls[t] = <<>>
    BY Threads DEF Init, ServerInit
  <2>4. QED
    BY <2>2, <2>3 DEF WorkInv, Init, Scheduler, DataScheduler
<1>8. ConnectionInv
  BY Threads DEF ConnectionInv, CloseStep, Init, ServerInit
<1>9. ErrorsInv
  BY DEF ErrorsInv, Init, ServerInit
<1>10. QED
  BY <1>1, <1>2, <1>3, <1>4, <1>5, <1>6, <1>7, <1>8, <1>9 DEF LinkInv

LEMMA LinkInvIsKept == LinkInv /\ [Next]_vars => LinkInv'
<1> SUFFICES ASSUME LinkInv, [Next]_vars
             PROVE  LinkInv'
  OBVIOUS
<1>1. CASE Start
  BY <1>1, StartKeeps
<1>2. CASE TerminateByHand
  BY <1>2, TerminateByHandKeeps
<1>3. CASE Destroy
  BY <1>3, DestroyKeeps
<1>4. CASE MainStep
  BY <1>4, StartSensorCommunicatorKeeps, LaunchCommunicatorKeeps, DestroyMembersKeeps DEF MainStep
<1>5. CASE BeginTurn \/ EndTurn \/ LeaveRun
  BY <1>5, BeginTurnKeeps, EndTurnKeeps, LeaveRunKeeps
<1>6. CASE CommunicatorProduces
  BY <1>6, CommunicatorProducesKeeps
<1>7. CASE ErrorStep
  BY <1>7, TakeErrorKeeps, ConsumeErrorKeeps DEF ErrorStep
<1>8. ASSUME NEW t \in Terminator, TerminatorStep(t)
      PROVE  LinkInv'
  BY <1>8, CloseSensorKeeps, OrderTerminationKeeps, JoinKeeps, CloseServerKeeps,
    UseAfterDestructionKeeps DEF TerminatorStep
<1>9. ASSUME NEW t \in Callers, CallServer(t)
       PROVE  LinkInv'
  BY <1>9, ServerCallReturnsKeeps, ServerCallThrowsKeeps, HandlerThrowsKeeps DEF CallServer
<1>10. ASSUME NEW s \in DataScheduler, DataStep(s)
       PROVE  LinkInv'
  BY <1>10, TakeDataKeeps, TranslateDataKeeps, SendDataKeeps DEF DataStep
<1>11. ASSUME NEW s \in Scheduler, ReadIsEmpty(s) \/ ReadOrder(s)
       PROVE  LinkInv'
  BY <1>11, ReadIsEmptyKeeps, ReadOrderKeeps
<1>12. CASE UNCHANGED vars
  BY <1>12 DEF vars, serverVars, linkVars, inputVars, threadVars, consumedVars, LinkInv,
    LinkTypeOK, HistoryInv, StartedInv, CallInv, JoinInv, OrderInv, WorkInv, ConnectionInv,
    ErrorsInv, OneMinorErrorIsSurvived
<1>13. QED
  BY <1>1, <1>2, <1>3, <1>4, <1>5, <1>6, <1>7, <1>8, <1>9, <1>10, <1>11, <1>12 DEF Next

(* The inductive invariant holds in every state a link can be in. *)
THEOREM LinkInvHolds == Spec => []LinkInv
<1>1. QED
  BY LinkInvHoldsAtFirst, LinkInvIsKept, PTL DEF Spec

-----------------------------------------------------------------------------

LEMMA BothKindsExist == {"fatal", "minor"} \subseteq Kinds
<1>1. NewError("EXTERNAL_ERROR", "EMERGENCY") \in Error /\ TranslationError \in Error
  BY DEF NewError, TranslationError, Error, Category, Severity
<1>2. /\ Kind(NewError("EXTERNAL_ERROR", "EMERGENCY")) = "fatal"
      /\ Kind(TranslationError) = "minor"
  BY DEF Kind, NewError, TranslationError, IsFatalForGateway, IsFatalForSensorAccess
<1>3. QED
  BY <1>1, <1>2 DEF Kinds

(* Every variable has its type in every state: the calls a thread has left *)
(* never exceed the two of handleError, the step of a terminator is one of *)
(* terminateAndJoin, and the fatal errors stay within their bound.         *)
THEOREM LinkIsTyped == Spec => []AccessLinkTypeOK
<1>1. LinkInv => AccessLinkTypeOK
  <2> SUFFICES ASSUME LinkInv
               PROVE  AccessLinkTypeOK
    OBVIOUS
  <2>1. \A t \in Callers : Len(serverCalls[t]) <= 2
    <3>1. ASSUME NEW calls \in CallLists
          PROVE  Len(calls) <= 2
      <4>1. CASE calls = <<>>
        BY <4>1
      <4>2. CASE calls # <<>>
        <5>1. Len(calls) \in {1, 2}
          BY <4>2, AfterTail
        <5>2. \A n \in {1, 2} : n <= 2
          OBVIOUS
        <5>3. QED
          BY <5>1, <5>2
      <4>3. QED
        BY <4>1, <4>2
    <3>2. QED
      BY <3>1 DEF LinkInv, LinkTypeOK
  <2>2. pc \in [Terminator -> 0..Returned]
    BY Steps DEF LinkInv, LinkTypeOK
  <2>3. QED
    BY <2>1, <2>2, BothKindsExist DEF LinkInv, LinkTypeOK, WorkInv, States, AccessLinkTypeOK
<1>2. QED
  BY <1>1, LinkInvHolds, PTL

(* A thread is joined twice, or a destroyed link used, only after a fatal   *)
(* error was consumed, and noexcept ends the process only with the second  *)
(* error of the server: for any number of errors and of terminators.       *)
THEOREM MinorErrorsAreSurvived == Spec => []OneMinorErrorIsSurvived
<1>1. LinkInv => OneMinorErrorIsSurvived
  BY DEF LinkInv, HistoryInv
<1>2. QED
  BY <1>1, LinkInvHolds, PTL

(* While nothing has failed, what is sent is sent over an open connection. *)
(* The connection is open from the start until the schedulers that send    *)
(* are joined, and a scheduler that has ended has no call left.            *)
THEOREM ConnectionOutlivesSends == Spec => []SendsFindTheConnectionOpen
<1>1. LinkInv => SendsFindTheConnectionOpen
  <2> SUFFICES ASSUME LinkInv, NEW s \in Sender, serverCalls[s] = <<"send">>,
                      serverFailures = 0, ~fatalConsumed
               PROVE  serverConnection = "open"
    BY DEF SendsFindTheConnectionOpen, LinkInv, LinkTypeOK
  <2>1. launched = {}
    BY DEF LinkInv, HistoryInv
  <2>2. serverCalls[s] # <<>>
    <3>1. <<"send">> # <<>>
      OBVIOUS
    <3>2. QED
      BY <3>1
  <2>3. running[s] # "finished"
    BY <2>2 DEF LinkInv, WorkInv
  <2>4. mainAt # "constructed" /\ mainAt # "openServer"
    BY <2>2 DEF LinkInv, WorkInv, StartedInv, NotLaunchedYet
  <2>5. QED
    BY <2>1, <2>3, <2>4 DEF LinkInv, ConnectionInv
<1>2. QED
  BY <1>1, LinkInvHolds, PTL

(* A join waits for a thread that was told to end and whose sources have   *)
(* ended, for every terminator: no thread waits for one that goes on, and  *)
(* none is given more work by another while it is waited for.              *)
THEOREM JoinsAreOrderly == Spec => []JoinWaitsForBacklogOnly
<1>1. LinkInv => JoinWaitsForBacklogOnly
  <2> SUFFICES ASSUME LinkInv, NEW t \in Terminator, pc[t] \in 1..14,
                      TerminateAndJoin[pc[t]].act = "join"
               PROVE  ordered[Element(t)] /\ \A w \in Upstream[Element(t)] : ProducesNoMore(w)
    BY Steps DEF JoinWaitsForBacklogOnly
  <2> DEFINE e == Element(t)
  <2>1. e \in Worker /\ pc[t] = OrderStep[e] + 1
    BY Steps DEF Element
  <2>2. ordered[e]
    BY <2>1, OrderSteps DEF LinkInv, OrderInv
  <2>3. ASSUME NEW w \in Worker, w # "communicator", pc[t] > OrderStep[w] + 1
        PROVE  ProducesNoMore(w)
    BY <2>3 DEF LinkInv, JoinInv, ProducesNoMore, Worker
  <2>4. ASSUME pc[t] > OrderStep["communicator"] + 1
        PROVE  ProducesNoMore("communicator")
    BY <2>4, OrderSteps DEF LinkInv, JoinInv, OrderInv, ProducesNoMore, Worker
  <2>5. ASSUME NEW w \in Upstream[e]
        PROVE  w \in Worker /\ OrderStep[w] < OrderStep[e]
    BY <2>1, OrderSteps
    DEF Upstream, Worker, Scheduler, DataScheduler, Translating, Sender
  <2>6. ASSUME NEW w \in Upstream[e]
        PROVE  ProducesNoMore(w)
    <3>1. w \in Worker /\ pc[t] > OrderStep[w] + 1
      BY <2>1, <2>5, OrderSteps
    <3>2. QED
      BY <3>1, <2>3, <2>4
  <2>7. QED
    BY <2>2, <2>6
<1>2. QED
  BY <1>1, LinkInvHolds, PTL

(* When terminateAndJoin has returned in the user's thread, every thread   *)
(* of the link has ended, the server's connection is closed (if no call of *)
(* it failed), and a scheduler has a ready buffer left only if it was      *)
(* written to between the last two reads of its loop, of its list and of   *)
(* its order: whatever the interleaving was.  For the error scheduler this *)
(* is so while the user's thread alone terminates, and for the first time. *)
THEOREM TerminationLeavesOnlyRaces == Spec => []OnlyRacesLeaveReadyData
<1>1. LinkInv => OnlyRacesLeaveReadyData
  <2> SUFFICES ASSUME LinkInv, pc["main"] = 15, serverCalls["main"] = <<>>
               PROVE  /\ \A w \in Worker : running[w] = "finished"
                      /\ backlog \cap DataScheduler \subseteq raced
                      /\ launched = {} /\ mainAt = "up" => backlog \subseteq raced
                      /\ serverFailures = 0 => serverConnection = "closed"
    BY Steps DEF OnlyRacesLeaveReadyData
  <2>1. ASSUME NEW w \in Worker
        PROVE  running[w] = "finished"
    <3>1. pc["main"] > OrderStep[w] + 1
      BY OrderSteps
    <3>2. QED
      BY <3>1, Threads DEF LinkInv, JoinInv, Worker
  <2>2. backlog \cap DataScheduler \subseteq raced
    BY <2>1 DEF LinkInv, WorkInv, Worker, Scheduler
  <2>3. launched = {} /\ mainAt = "up" => backlog \subseteq raced
    BY <2>1, <2>2 DEF LinkInv, LinkTypeOK, ErrorsInv, Worker, Scheduler
  <2>4. serverFailures = 0 => serverConnection = "closed"
    <3>1. <<"close">> # <<>> /\ pc["main"] > CloseStep
      BY DEF CloseStep
    <3>2. QED
      BY <3>1 DEF LinkInv, ConnectionInv
  <2>5. QED
    BY <2>1, <2>2, <2>3, <2>4
<1>2. QED
  BY <1>1, LinkInvHolds, PTL

=============================================================================
