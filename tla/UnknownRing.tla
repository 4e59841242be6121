----------------------------- MODULE UnknownRing -----------------------------
(***************************************************************************)
(* The first trial of a distributed MINAS, src/src/mpi/helio/minas1.c: in  *)
(* every node a classifier leaves the unknown samples it meets in a ring,  *)
(* u_sender packs them into messages for rank 0, and rank 0 answers each   *)
(* message by a broadcast, which m_receiver takes.                         *)
(*                                                                         *)
(* A semaphore tells u_sender of a sample, nothing tells the classifier of *)
(* a free slot.  The buffer in which u_sender packs is also the one it     *)
(* attached for MPI_Bsend.  Samples are the numbers in which a node met    *)
(* them.                                                                   *)
(***************************************************************************)
EXTENDS Naturals, Sequences, FiniteSets, FiniteSetsExt

CONSTANTS
  Nodes,      \* ranks 1 .. _numprocs - 1
  SIZE,       \* slots of _unknown_samples
  THRESHOLD,  \* samples of a message
  Width,      \* slots MPI_Pack reads: 4 of an array of char, 1 of one of int
  MaxUnknown  \* bound on the unknown samples of a node

ASSUME RingAssumption ==
  /\ IsFiniteSet(Nodes)
  /\ THRESHOLD \in Nat \ {0} /\ SIZE = 2 * THRESHOLD
  /\ Width \in {1, 4} /\ MaxUnknown \in Nat

VARIABLES
  ring,      \* per node: _unknown_samples
  found,     \* per node: unknown samples the classifier has stored
  toPost,    \* per node: the classifier is between the slot and sem_post
  sem,       \* per node: _sender_sem
  taken,     \* per node: samples u_sender has packed
  packed,    \* per node: what it packed since the last message
  attached,  \* per node: messages in the buffer of MPI_Bsend
  mail,      \* per node: messages on their way to rank 0
  got,       \* per node: messages rank 0 has received from it
  casting,   \* rank 0 is between MPI_Recv and MPI_Bcast
  models,    \* broadcasts of rank 0
  received,  \* per node: broadcasts m_receiver has taken
  aborted,   \* MPI has ended the program
  spoilt     \* history, per node: a sample or a message has been written over

classVars == <<ring, found, toPost>>
mainVars == <<got, casting, models>>
ringVars == <<classVars, sem, taken, packed, attached, mail, mainVars, received,
              aborted, spoilt>>

Slots == 0..(SIZE - 1)
Packed == [1..Width -> Nat]
Message == Seq(Packed)

TypeOK ==
  /\ ring \in [Nodes -> [Slots -> Nat]]
  /\ found \in [Nodes -> Nat] /\ toPost \in [Nodes -> BOOLEAN]
  /\ sem \in [Nodes -> Nat] /\ taken \in [Nodes -> Nat]
  /\ packed \in [Nodes -> Message]
  /\ attached \in [Nodes -> Seq(Message)]
  /\ \A n \in Nodes : Len(packed[n]) <= THRESHOLD /\ Len(attached[n]) <= 1
  /\ mail \in [Nodes -> Seq(Message)]
  /\ got \in [Nodes -> Nat] /\ models \in Nat /\ received \in [Nodes -> Nat]
  /\ casting \in BOOLEAN /\ aborted \in BOOLEAN /\ spoilt \in [Nodes -> BOOLEAN]

Init ==
  /\ ring = [n \in Nodes |-> [i \in Slots |-> 0]]
  /\ found = [n \in Nodes |-> 0] /\ toPost = [n \in Nodes |-> FALSE]
  /\ sem = [n \in Nodes |-> 0] /\ taken = [n \in Nodes |-> 0]
  /\ packed = [n \in Nodes |-> <<>>]
  /\ attached = [n \in Nodes |-> <<>>] /\ mail = [n \in Nodes |-> <<>>]
  /\ got = [n \in Nodes |-> 0] /\ casting = FALSE
  /\ models = 0 /\ received = [n \in Nodes |-> 0]
  /\ aborted = FALSE /\ spoilt = [n \in Nodes |-> FALSE]

-----------------------------------------------------------------------------
\* classifier: an unknown sample, into a slot whose last sample may not have
\* been packed yet.
Store(n) ==
  /\ found[n] < MaxUnknown /\ ~toPost[n]
  /\ ring' = [ring EXCEPT ![n][found[n] % SIZE] = found[n] + 1]
  /\ found' = [found EXCEPT ![n] = @ + 1]
  /\ toPost' = [toPost EXCEPT ![n] = TRUE]
  /\ spoilt' = [spoilt EXCEPT ![n] = @ \/ found[n] - taken[n] = SIZE]
  /\ UNCHANGED <<sem, taken, packed, attached, mail, mainVars, received, aborted>>

PostSample(n) ==
  /\ toPost[n]
  /\ toPost' = [toPost EXCEPT ![n] = FALSE]
  /\ sem' = [sem EXCEPT ![n] = @ + 1]
  /\ UNCHANGED <<ring, found, taken, packed, attached, mail, mainVars, received,
                 aborted, spoilt>>

\* Slip: the slot is the next one.
SlotBehind(n, i) ==
  [d \in 1..Width |-> IF i + d < SIZE THEN ring[n][i + d] ELSE 0]

\* u_sender: what MPI_Pack finds at a slot.  Behind the array it finds zeros.
AtSlot(n, i) ==
  [d \in 1..Width |-> IF i + d <= SIZE THEN ring[n][i + d - 1] ELSE 0]

\* A message still in the attached buffer lies where the next one is packed.
WrittenOver(message, sample) ==
  {message} \cup {[message EXCEPT ![j] = sample] : j \in DOMAIN message}

\* Slip: the sender does not go round with the ring.
SlotOfFirst(n) == 0
SlotOf(n) == taken[n] % SIZE

Pack(n) ==
  LET sample == AtSlot(n, SlotOf(n))
  IN /\ Len(packed[n]) < THRESHOLD
     /\ sem[n] > 0
     /\ sem' = [sem EXCEPT ![n] = @ - 1]
     /\ taken' = [taken EXCEPT ![n] = @ + 1]
     /\ packed' = [packed EXCEPT ![n] = Append(@, sample)]
     /\ IF attached[n] = <<>>
          THEN UNCHANGED <<attached, spoilt>>
          ELSE /\ \E m \in WrittenOver(Head(attached[n]), sample) :
                    attached' = [attached EXCEPT ![n] = <<m>>]
               /\ spoilt' = [spoilt EXCEPT ![n] = TRUE]
     /\ UNCHANGED <<classVars, mail, mainVars, received, aborted>>

\* The attached buffer has room for one message; without room MPI_Bsend is an
\* error, and errors end the program.
Bsend(n) ==
  /\ Len(packed[n]) = THRESHOLD
  /\ IF attached[n] = <<>>
       THEN /\ attached' = [attached EXCEPT ![n] = <<packed[n]>>]
            /\ packed' = [packed EXCEPT ![n] = <<>>]
            /\ UNCHANGED aborted
       ELSE /\ aborted' = TRUE
            /\ UNCHANGED <<attached, packed>>
  /\ UNCHANGED <<classVars, sem, taken, mail, mainVars, received, spoilt>>

\* MPI takes the message out of the buffer.
Depart(n) ==
  /\ attached[n] # <<>>
  /\ mail' = [mail EXCEPT ![n] = Append(@, Head(attached[n]))]
  /\ attached' = [attached EXCEPT ![n] = <<>>]
  /\ UNCHANGED <<classVars, sem, taken, packed, mainVars, received, aborted, spoilt>>

-----------------------------------------------------------------------------
\* Rank 0, in main: a message of any node, then a broadcast.
Receive(n) ==
  /\ ~casting
  /\ mail[n] # <<>>
  /\ mail' = [mail EXCEPT ![n] = Tail(@)]
  /\ got' = [got EXCEPT ![n] = @ + 1]
  /\ casting' = TRUE
  /\ UNCHANGED <<classVars, sem, taken, packed, attached, models, received,
                 aborted, spoilt>>

Cast ==
  /\ casting
  /\ models' = models + 1
  /\ casting' = FALSE
  /\ UNCHANGED <<classVars, sem, taken, packed, attached, mail, got, received,
                 aborted, spoilt>>

\* m_receiver: the next broadcast.
TakeModel(n) ==
  /\ received[n] < models
  /\ received' = [received EXCEPT ![n] = @ + 1]
  /\ UNCHANGED <<classVars, sem, taken, packed, attached, mail, mainVars, aborted,
                 spoilt>>

NodeStep(n) == PostSample(n) \/ Pack(n) \/ Bsend(n) \/ Depart(n) \/ TakeModel(n)
MainStep == Cast \/ \E n \in Nodes : Receive(n)

\* What goes on after the last sample found.
Work == ~aborted /\ (MainStep \/ \E n \in Nodes : NodeStep(n))

Next == Work \/ (~aborted /\ \E n \in Nodes : Store(n))

-----------------------------------------------------------------------------
\* A packed sample is the one whose turn it is, or one that came a whole number
\* of rings later: never an empty slot, never an older sample.
InTurn ==
  \A n \in Nodes : \A j \in DOMAIN packed[n] :
    LET turn == taken[n] - Len(packed[n]) + j
        sample == packed[n][j][1]
    IN sample >= turn /\ (sample - turn) % SIZE = 0

\* The unknown samples of a node in the order in which it met them, as rank 0
\* is to receive them: message m holds THRESHOLD of them.
Holds(message, m) ==
  \A j \in DOMAIN message : message[j][1] = (m - 1) * THRESHOLD + j

InOrder(n) ==
  LET waiting == mail[n] \o attached[n]
  IN \A i \in DOMAIN waiting : Holds(waiting[i], got[n] + i)

\* A message goes wrong only by being written over, in the ring or in the
\* attached buffer: while neither has happened to a node, rank 0 receives its
\* samples complete and in order.
ExactUnlessSpoilt == \A n \in Nodes : spoilt[n] \/ InOrder(n)

\* Rank 0 got every full message, and every receiver every model.
Told == /\ \A n \in Nodes : got[n] = found[n] \div THRESHOLD
        /\ \A n \in Nodes : received[n] = MapThenSumSet(LAMBDA m : got[m], Nodes)
=============================================================================
