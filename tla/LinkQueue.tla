----------------------------- MODULE LinkQueue -----------------------------
(***************************************************************************)
(* What a ring buffer and a scheduler promise to the sink behind a link: a *)
(* queue of bounded length for each link, to which every datum written on  *)
(* the link's buffer is appended once, and whose head is delivered.  Only  *)
(* a write into a ring without room spoils what follows.  A sink may be    *)
(* handed something again, but no oftener than its buffer is written.      *)
(***************************************************************************)
EXTENDS Naturals, Sequences

CONSTANTS Buffers, Links,  \* a link is a pair whose second element is its buffer
          Capacity, Data

VARIABLES queue, delivered, repeated,  \* of each link
          written, spoiled             \* of each buffer

queueVars == <<queue, delivered, repeated, written, spoiled>>

Init ==
  /\ queue = [l \in Links |-> <<>>]
  /\ delivered = [l \in Links |-> <<>>]
  /\ repeated = [l \in Links |-> 0]
  /\ written = [b \in Buffers |-> 0]
  /\ spoiled = [b \in Buffers |-> FALSE]

HasRoom(b) == \A l \in Links : l[2] = b => Len(queue[l]) < Capacity

Publish(b) ==
  /\ HasRoom(b) \/ spoiled[b]
  /\ \E d \in Data :
       queue' = [l \in Links |-> IF l[2] = b THEN Append(queue[l], d) ELSE queue[l]]
  /\ written' = [written EXCEPT ![b] = @ + 1]
  /\ UNCHANGED <<delivered, repeated, spoiled>>

(* One place of a queue is the datum its sink is about to copy. *)
Spoil(b) ==
  /\ \E l \in Links : l[2] = b /\ Len(queue[l]) >= Capacity - 1
  /\ spoiled' = [spoiled EXCEPT ![b] = TRUE]
  /\ UNCHANGED <<queue, delivered, repeated, written>>

Deliver(l) ==
  /\ queue[l] # <<>>
  /\ queue' = [queue EXCEPT ![l] = Tail(@)]
  /\ \E d \in Data :
       /\ d = Head(queue[l]) \/ spoiled[l[2]]
       /\ delivered' = [delivered EXCEPT ![l] = Append(@, d)]
  /\ UNCHANGED <<repeated, written, spoiled>>

Repeat(l) ==
  /\ repeated[l] < written[l[2]]
  /\ repeated' = [repeated EXCEPT ![l] = @ + 1]
  /\ UNCHANGED <<queue, delivered, written, spoiled>>

Next ==
  \/ \E b \in Buffers : Publish(b) \/ Spoil(b)
  \/ \E l \in Links : Deliver(l) \/ Repeat(l)

Spec == Init /\ [][Next]_queueVars
=============================================================================
