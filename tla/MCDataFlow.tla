----------------------------- MODULE MCDataFlow -----------------------------
(***************************************************************************)
(* Small topologies for DataFlow.                                          *)
(***************************************************************************)
EXTENDS DataFlow, TLC

CONSTANTS s1, s2, b1, b2, w1, w2

(* one scheduler consuming from one buffer: translator, server *)
OneScheduler == {s1}
OneBuffer == {b1}
OneWriter == {w1}
OneLink == {<<s1, b1>>}
OneWrites == [w \in OneWriter |-> b1]

NoClosers == {}

(* one buffer consumed by two schedulers; the writer may be a thread that  *)
(* closes a connection, and so write after a termination                   *)
TwoSchedulers == {s1, s2}
SharedLinks == {<<s1, b1>>, <<s2, b1>>}
SchedulerSymmetry == Permutations(TwoSchedulers)

(* two threads that write to the same buffer: the error sources *)
TwoWriters == {w1, w2}
SharedWrites == [w \in TwoWriters |-> b1]

=============================================================================
