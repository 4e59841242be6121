----------------------------- MODULE BoundedFIFO -----------------------------
(***************************************************************************)
(* What a buffer between producers and consumers promises: messages leave  *)
(* it in the order in which they came, each to one consumer, and at most   *)
(* Capacity of them are inside.                                            *)
(***************************************************************************)
EXTENDS Naturals, Sequences

CONSTANTS Capacity, Message, Nothing, Consumers

VARIABLES
  queue,   \* the messages inside, oldest first
  inHand   \* per consumer: the message it took last

fifoVars == <<queue, inHand>>

Init ==
  /\ queue = <<>>
  /\ inHand = [c \in Consumers |-> Nothing]

Put(m) ==
  /\ Len(queue) < Capacity
  /\ queue' = Append(queue, m)
  /\ UNCHANGED inHand

Get(c) ==
  /\ queue # <<>>
  /\ inHand' = [inHand EXCEPT ![c] = Head(queue)]
  /\ queue' = Tail(queue)

Next ==
  \/ \E m \in Message : Put(m)
  \/ \E c \in Consumers : Get(c)

Spec == Init /\ [][Next]_fifoVars
=============================================================================
