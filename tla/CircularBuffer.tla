---------------------------- MODULE CircularBuffer ----------------------------
(***************************************************************************)
(* The ring of examples of old-code/src/reboot/CircularExampleBuffer.c,    *)
(* driven by the test program old-code/src/test/circ-buff.c.               *)
(*                                                                         *)
(* Threads do not copy examples: they swap the cell they hold for one of   *)
(* the ring, under a mutex.  The signals are posted and awaited outside    *)
(* the mutex, each in a step of its own.                                   *)
(***************************************************************************)
EXTENDS Naturals, Sequences, FiniteSets

CONSTANTS
  Size,        \* cells of the ring
  Producers,
  Consumers,
  Main,        \* the main thread, which sends the end markers
  PerProducer  \* examples of one producer: twice the size of the ring, or less

Threads == Producers \cup Consumers \cup {Main}
Slots == 0..(Size - 1)

MaxRounds == 2 * Size   \* of the loops of producer and consumer

ASSUME RingAssumption ==
  /\ Size \in Nat /\ Size >= 2
  /\ PerProducer \in 1..MaxRounds
  /\ IsFiniteSet(Threads)
  /\ Producers \cap Consumers = {}
  /\ Main \notin Producers \cup Consumers
  /\ Threads \cap Nat = {}

\* Cells of memory: those of the ring, and the one each thread begins with.
Cells == Slots \cup Threads

\* An example: the thread that wrote it, and its number.  What no thread has
\* written yet has the number of no message.
Message == [by : Producers \cup {Main}, id : 0..(MaxRounds - 1)]
Nothing == [by |-> Main, id |-> MaxRounds]

VARIABLES
  head, tail, data,   \* the ring
  fullSignal, emptySignal,
  content,            \* what the cells hold
  hold,               \* per thread: the cell it holds
  pc, count           \* per thread: position, and rounds of its loop

ring == <<head, tail, data>>
signals == <<fullSignal, emptySignal>>
vars == <<ring, signals, content, hold, pc, count>>

Positions == {"join", "write", "put", "full", "putWait", "putPost",
              "get", "empty", "getWait", "getPost", "read", "done"}

TypeOK ==
  /\ head \in Slots /\ tail \in Slots
  /\ data \in [Slots -> Cells]
  /\ fullSignal \in Nat /\ emptySignal \in Nat
  /\ content \in [Cells -> Message \cup {Nothing}]
  /\ hold \in [Threads -> Cells]
  /\ pc \in [Threads -> Positions]
  /\ count \in [Threads -> Nat]

Init ==
  /\ head = 0 /\ tail = 0
  /\ data = [i \in Slots |-> i]
  /\ fullSignal = 0 /\ emptySignal = 0
  /\ content = [c \in Cells |-> Nothing]
  /\ hold = [t \in Threads |-> t]
  /\ pc = [t \in Threads |-> CASE t \in Producers -> "write"
                               [] t \in Consumers -> "get"
                               [] OTHER -> "join"]
  /\ count = [t \in Threads |-> 0]

\* Slip: the index runs out of the ring.
AfterUnwrapped(i) == i + 1
After(i) == (i + 1) % Size

\* Slip: a ring that uses every cell cannot tell full from empty.
NeverFull == FALSE
IsBufferFull == After(head) = tail
IsBufferEmpty == head = tail

Goes(t, position) == pc' = [pc EXCEPT ![t] = position]

-----------------------------------------------------------------------------
\* The loop of producer, and that of main with an end marker for each consumer
\* but never more than the ring takes.
Markers == IF Cardinality(Consumers) < Size - 1 THEN Cardinality(Consumers)
           ELSE Size - 1

Rounds(t) == IF t = Main THEN Markers ELSE PerProducer

Write(t) ==
  /\ pc[t] = "write"
  /\ IF count[t] < Rounds(t)
       THEN /\ content' = [content EXCEPT ![hold[t]] =
                             [by |-> t, id |-> count[t]]]
            /\ Goes(t, "put")
       ELSE /\ Goes(t, "done")
            /\ UNCHANGED content
  /\ UNCHANGED <<ring, signals, hold, count>>

\* main joins the producers before it writes end markers.
Join ==
  /\ pc[Main] = "join"
  /\ \A p \in Producers : pc[p] = "done"
  /\ Goes(Main, "write")
  /\ UNCHANGED <<ring, signals, content, hold, count>>

-----------------------------------------------------------------------------
\* CEB_enqueue.
SwapIn(t) ==
  /\ data' = [data EXCEPT ![head] = hold[t]]
  /\ hold' = [hold EXCEPT ![t] = data[head]]
  /\ head' = After(head)

Enqueue(t) ==
  /\ pc[t] = "put"
  /\ IF IsBufferFull
       THEN /\ Goes(t, "full")
            /\ UNCHANGED <<ring, hold>>
       ELSE /\ SwapIn(t)
            /\ Goes(t, "putPost")
            /\ UNCHANGED tail
  /\ UNCHANGED <<signals, content, count>>

FoundFull(t) ==
  /\ pc[t] = "full"
  /\ fullSignal' = fullSignal + 1
  /\ Goes(t, "putWait")
  /\ UNCHANGED <<ring, emptySignal, content, hold, count>>

WaitForSpace(t) ==
  /\ pc[t] = "putWait"
  /\ emptySignal > 0
  /\ emptySignal' = emptySignal - 1
  /\ Goes(t, "put")
  /\ UNCHANGED <<ring, fullSignal, content, hold, count>>

\* Slip: the consumers are not told.
EnqueuedSilently(t) ==
  /\ pc[t] = "putPost"
  /\ Goes(t, "write")
  /\ count' = [count EXCEPT ![t] = @ + 1]
  /\ UNCHANGED <<ring, signals, content, hold>>

Enqueued(t) ==
  /\ pc[t] = "putPost"
  /\ fullSignal' = fullSignal + 1
  /\ Goes(t, "write")
  /\ count' = [count EXCEPT ![t] = @ + 1]
  /\ UNCHANGED <<ring, emptySignal, content, hold>>

-----------------------------------------------------------------------------
\* Slip: the cell is read, but not replaced by the one the consumer brought.
TakeOut(t) ==
  /\ hold' = [hold EXCEPT ![t] = data[tail]]
  /\ tail' = After(tail)
  /\ UNCHANGED data

\* CEB_dequeue.
SwapOut(t) ==
  /\ data' = [data EXCEPT ![tail] = hold[t]]
  /\ hold' = [hold EXCEPT ![t] = data[tail]]
  /\ tail' = After(tail)

Dequeue(t) ==
  /\ pc[t] = "get"
  /\ IF IsBufferEmpty
       THEN /\ Goes(t, "empty")
            /\ UNCHANGED <<ring, hold>>
       ELSE /\ SwapOut(t)
            /\ Goes(t, "getPost")
            /\ UNCHANGED head
  /\ UNCHANGED <<signals, content, count>>

FoundEmpty(t) ==
  /\ pc[t] = "empty"
  /\ emptySignal' = emptySignal + 1
  /\ Goes(t, "getWait")
  /\ UNCHANGED <<ring, fullSignal, content, hold, count>>

WaitForExample(t) ==
  /\ pc[t] = "getWait"
  /\ fullSignal > 0
  /\ fullSignal' = fullSignal - 1
  /\ Goes(t, "get")
  /\ UNCHANGED <<ring, emptySignal, content, hold, count>>

\* Slip: the producers are not told.
DequeuedSilently(t) ==
  /\ pc[t] = "getPost"
  /\ Goes(t, "read")
  /\ UNCHANGED <<ring, signals, content, hold, count>>

Dequeued(t) ==
  /\ pc[t] = "getPost"
  /\ emptySignal' = emptySignal + 1
  /\ Goes(t, "read")
  /\ UNCHANGED <<ring, fullSignal, content, hold, count>>

\* The loop of consumer: an end marker ends it early.
Read(t) ==
  /\ pc[t] = "read"
  /\ IF content[hold[t]].by = Main
       THEN /\ Goes(t, "done")
            /\ UNCHANGED count
       ELSE /\ count' = [count EXCEPT ![t] = @ + 1]
            /\ Goes(t, IF count[t] + 1 = PerProducer THEN "done" ELSE "get")
  /\ UNCHANGED <<ring, signals, content, hold>>

-----------------------------------------------------------------------------
Putting(t) == Write(t) \/ Enqueue(t) \/ FoundFull(t) \/ WaitForSpace(t) \/ Enqueued(t)
Getting(t) == Dequeue(t) \/ FoundEmpty(t) \/ WaitForExample(t) \/ Dequeued(t) \/ Read(t)

Ended == \A t \in Threads : pc[t] = "done"

Next ==
  \/ \E t \in Producers \cup {Main} : Putting(t)
  \/ Join
  \/ \E t \in Consumers : Getting(t)
  \/ Ended /\ UNCHANGED vars

\* The operating system schedules every thread, and a signal that was posted
\* lets go a thread that waits for it.
Fairness ==
  /\ \A t \in Producers : WF_vars(Putting(t))
  /\ WF_vars(Join \/ Putting(Main))
  /\ \A t \in Consumers : WF_vars(Getting(t))

Spec == Init /\ [][Next]_vars /\ Fairness

-----------------------------------------------------------------------------
\* Swapping hands every cell to one owner at a time: no thread writes or reads
\* an example that is in the ring or that another thread holds.
OneOwner ==
  /\ \A i, j \in Slots : data[i] = data[j] => i = j
  /\ \A t, u \in Threads : hold[t] = hold[u] => t = u
  /\ \A i \in Slots, t \in Threads : data[i] # hold[t]

\* A producer that is at the ring brings an example it has written.
Loaded ==
  \A t \in Producers \cup {Main} :
    pc[t] \in {"put", "full", "putWait"} => content[hold[t]] \in Message

Length == (head + Size - tail) % Size
Place(i) == (tail + i - 1) % Size

\* What is in the ring, oldest first, and what each consumer has taken last.
Queue == [i \in 1..Length |-> content[data[Place(i)]]]
InHand == [c \in Consumers |-> content[hold[c]]]

\* The ring is a bounded queue: examples come out in the order they went in,
\* each once, and nothing in it or in the hand of a consumer is overwritten.
FIFO == INSTANCE BoundedFIFO WITH
          Capacity <- Size - 1, queue <- Queue, inHand <- InHand
IsFIFO == FIFO!Spec

At(position) == {t \in Threads : pc[t] = position}
SomeAt(positions) == \E t \in Threads : pc[t] \in positions
Free == Size - 1 - Length

\* Both sides signal after they have let go of the mutex, and still there are
\* enough signals: while a producer waits for space, or is about to, each free
\* cell has a signal, a consumer about to post one, or a producer about to take
\* the cell; likewise each example while a consumer waits.
SignalsCover ==
  /\ SomeAt({"full", "putWait"}) =>
       emptySignal + Cardinality(At("getPost")) + Cardinality(At("put")) >= Free
  /\ SomeAt({"empty", "getWait"}) =>
       fullSignal + Cardinality(At("putPost")) + Cardinality(At("get")) >= Length

\* So nobody sleeps on a state that has passed: while a producer waits for space,
\* the ring is full, or a signal is there or about to be posted, or another
\* producer is about to look; likewise for a consumer.
NoLostSignal ==
  /\ SomeAt({"putWait"}) =>
       IsBufferFull \/ emptySignal > 0 \/ SomeAt({"put", "getPost"})
  /\ SomeAt({"getWait"}) =>
       IsBufferEmpty \/ fullSignal > 0 \/ SomeAt({"get", "putPost"})

\* The test ends when there are as many producers as consumers.
Termination == <>Ended

\* The invariant of the ring and its threads: cells are never shared and signals
\* never lost.
Inv == TypeOK /\ OneOwner /\ Loaded /\ SignalsCover /\ NoLostSignal
=============================================================================
