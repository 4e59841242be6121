----------------------------- MODULE SampledRing -----------------------------
(***************************************************************************)
(* The third trial, src/src/mpi/helio/minas3.c: rank 0 has two threads, a  *)
(* sampler that deals packets of samples to the nodes in turn and a        *)
(* detector in the place of main; the classifiers wait for the packets.    *)
(* What follows a sample, from the ring on, it does as minas1.c does: that *)
(* is UnknownRing, here with int slots.                                    *)
(***************************************************************************)
EXTENDS UnknownRing

CONSTANTS
  SAMPLES,     \* samples of a packet
  MaxPackets,  \* bound on the packets of the sampler
  Eager        \* packets to one node that MPI buffers

ASSUME SampledAssumption ==
  /\ SAMPLES \in Nat \ {0} /\ MaxPackets \in Nat /\ Eager \in Nat \ {0}
  /\ Width = 1
  /\ Nodes # {} /\ Nodes = 1..Cardinality(Nodes)   \* the first packet goes to 1
  /\ MaxUnknown >= MaxPackets * SAMPLES   \* the packets are the bound

VARIABLES
  dest, dealt,  \* sampler: next node, packets sent
  inbox,        \* per node: packets on their way to it
  todo,         \* per node: samples left of the packet it works on
  handled       \* history, per node: packets it has received

samplerVars == <<dest, dealt>>
nodeVars == <<inbox, todo, handled>>
vars == <<ringVars, samplerVars, nodeVars>>

SampledTypeOK ==
  /\ TypeOK
  /\ dest \in Nodes /\ dealt \in 0..MaxPackets
  /\ inbox \in [Nodes -> 0..Eager]
  /\ todo \in [Nodes -> 0..SAMPLES]
  /\ handled \in [Nodes -> Nat]

SampledInit ==
  /\ Init
  /\ dest = 1 /\ dealt = 0
  /\ inbox = [n \in Nodes |-> 0]
  /\ todo = [n \in Nodes |-> 0]
  /\ handled = [n \in Nodes |-> 0]

\* Slips: the numbers do not wrap; the test for 0 is the wrong way round.
Unwrapped(d) == d + 1
AlwaysFirst(d) == 1
NextDest(d) == IF d = Cardinality(Nodes) THEN 1 ELSE d + 1

\* sampler: a packet to the node whose turn it is.  MPI_Send waits for room.
Sampler ==
  /\ dealt < MaxPackets
  /\ inbox[dest] < Eager
  /\ inbox' = [inbox EXCEPT ![dest] = @ + 1]
  /\ dest' = NextDest(dest)
  /\ dealt' = dealt + 1
  /\ UNCHANGED <<ringVars, todo, handled>>

\* classifier: the next packet, when the last one is done.
RecvPacket(n) ==
  /\ todo[n] = 0 /\ ~toPost[n]
  /\ inbox[n] > 0
  /\ inbox' = [inbox EXCEPT ![n] = @ - 1]
  /\ todo' = [todo EXCEPT ![n] = SAMPLES]
  /\ handled' = [handled EXCEPT ![n] = @ + 1]
  /\ UNCHANGED <<ringVars, samplerVars>>

\* classifier: a sample that is known, or one for the ring.
KnownSample(n) == ~toPost[n] /\ UNCHANGED ringVars
Classify(n) ==
  /\ todo[n] > 0
  /\ todo' = [todo EXCEPT ![n] = @ - 1]
  /\ (KnownSample(n) \/ Store(n))
  /\ UNCHANGED <<samplerVars, inbox, handled>>

others == <<samplerVars, nodeVars>>

\* Slip: the semaphore is posted for the last sample of a packet only.
PostsLast(n) == todo[n] = 0 /\ PostSample(n) /\ UNCHANGED others
Posts(n) == PostSample(n) /\ UNCHANGED others

\* The threads of minas3.c; all but the sampler do what functions of minas1.c do.
Classifier(n) == RecvPacket(n) \/ Classify(n) \/ Posts(n)
U_sender(n) == (Pack(n) \/ Bsend(n) \/ Depart(n)) /\ UNCHANGED others
M_receiver(n) == TakeModel(n) /\ UNCHANGED others
Detector == MainStep /\ UNCHANGED others

Node(n) == Classifier(n) \/ U_sender(n) \/ M_receiver(n)

Step == ~aborted /\ (Sampler \/ Detector \/ \E n \in Nodes : Node(n))

\* The bound on the packets stands for the user, who ends the program.
SampledNext ==
  \/ Step
  \/ (aborted \/ ~ENABLED Step) /\ UNCHANGED vars

SampledFairness ==
  /\ WF_vars(~aborted /\ Sampler)
  /\ WF_vars(~aborted /\ Detector)
  /\ \A n \in Nodes : /\ WF_vars(~aborted /\ Classifier(n))
                       /\ WF_vars(~aborted /\ U_sender(n))
                       /\ WF_vars(~aborted /\ M_receiver(n))

SampledSpec == SampledInit /\ [][SampledNext]_vars /\ SampledFairness

-----------------------------------------------------------------------------
\* Packets are dealt in turn: no node is two packets ahead of another, however
\* slow one of them is.
DealtInTurn ==
  \A m, n \in Nodes : inbox[m] + handled[m] <= inbox[n] + handled[n] + 1

\* Every packet is dealt and worked off, every full message answered and every
\* model received, unless MPI ends the program.
AllDone == Told /\ dealt = MaxPackets /\ \A n \in Nodes : inbox[n] = 0 /\ todo[n] = 0
EndsWell == <>(aborted \/ AllDone)

\* The invariant of the third trial: rings and messages as in the first one, and
\* packets in turn.
Inv == SampledTypeOK /\ InTurn /\ ExactUnlessSpoilt /\ DealtInTurn
=============================================================================
