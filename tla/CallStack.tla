---------------------------- MODULE CallStack ----------------------------
(***************************************************************************)
(* The work a thread has left, as a sequence of steps: the body of a       *)
(* function that is called goes in front of the rest of its caller.  Two   *)
(* marks are no steps: "catch" ends a try block whose handler is that of   *)
(* addOriginAndHandleError, and "return" ends an error handler, which is   *)
(* on the stack until then.                                                *)
(***************************************************************************)
EXTENDS Naturals, Sequences, FiniteSets

Marks == {"catch", "return"}

(* The rest without the marks in front of it: control has passed them. *)
Resume(rest) ==
  LET first == CHOOSE i \in 1..Len(rest) + 1 :
                 /\ i \in DOMAIN rest => rest[i] \notin Marks
                 /\ \A j \in 1..(i - 1) : rest[j] \in Marks
  IN  SubSeq(rest, first, Len(rest))

(* Where an exception goes: the first "catch", 0 for none. *)
Catcher(rest) ==
  LET stops == {i \in DOMAIN rest : rest[i] = "catch"}
  IN  IF stops = {} THEN 0 ELSE CHOOSE i \in stops : \A j \in stops : i <= j

AfterCatch(rest) == SubSeq(rest, Catcher(rest) + 1, Len(rest))

(* The handlers the thread is in, one nested in the other. *)
Depth(rest) == Cardinality({i \in DOMAIN rest : rest[i] = "return"})
=============================================================================
