------------------------- MODULE SampledRing_proofs -------------------------
(***************************************************************************)
(* Theorems about the ring of unknown samples of the trials of             *)
(* src/src/mpi/helio, for any number of nodes, slots and samples.          *)
(*                                                                         *)
(* They are proved of the steps of UnknownRing, which minas3.c shares with *)
(* minas1.c, and carried over to its own.  Nothing keeps the               *)
(* classifier from a slot that has not been packed, so what a slot holds   *)
(* is known up to whole rings (SlotInv) until a sample is written over,    *)
(* and then exactly (FreshInv).                                            *)
(***************************************************************************)
EXTENDS SampledRing, FiniteSetTheorems, TLAPS

\* The semaphore counts the samples that are stored and not packed, save one.
Count(n) == found[n] = taken[n] + sem[n] + (IF toPost[n] THEN 1 ELSE 0)

\* Sample k + 1 was put into its slot; what is there now came whole rings later.
SlotInv(n) ==
  \A k \in Nat : k < found[n] =>
    \E j \in Nat : ring[n][k % SIZE] = k + 1 + SIZE * j

\* What u_sender has packed for the next message is as old.
PackedInv(n) ==
  \A j \in DOMAIN packed[n] :
    \E i \in Nat : packed[n][j][1] = taken[n] - Len(packed[n]) + j + SIZE * i

\* Without a sample written over the slots hold what is to be packed.
FreshInv(n) ==
  /\ found[n] <= taken[n] + SIZE
  /\ \A k \in Nat : taken[n] <= k /\ k < found[n] => ring[n][k % SIZE] = k + 1
  /\ \A j \in DOMAIN packed[n] : packed[n][j][1] = taken[n] - Len(packed[n]) + j
  /\ InOrder(n)

\* The messages of THRESHOLD samples: what is received, under way and packed.
Sent(n) == got[n] + Len(mail[n]) + Len(attached[n])
MessageInv(n) == taken[n] = THRESHOLD * Sent(n) + Len(packed[n])

NodeInv(n) ==
  Count(n) /\ SlotInv(n) /\ PackedInv(n) /\ MessageInv(n) /\ (~ spoilt[n] => FreshInv(n))
RingInv == TypeOK /\ \A n \in Nodes : NodeInv(n)

\* The packets dealt to a node, one more than to the nodes behind the next one.
Dealt(n) == inbox[n] + handled[n]
DealtInv ==
  \A m, n \in Nodes : Dealt(m) + (IF n < dest THEN 1 ELSE 0)
                        = Dealt(n) + (IF m < dest THEN 1 ELSE 0)

IInv == RingInv /\ SampledTypeOK /\ DealtInv

-----------------------------------------------------------------------------
LEMMA Constants ==
  /\ SIZE \in Nat \ {0} /\ SIZE \in Nat /\ SIZE > 0
  /\ THRESHOLD \in Nat /\ THRESHOLD > 0 /\ Width \in Nat /\ Width > 0
  BY RingAssumption

\* A number is in a slot, some rings on.
LEMMA Rings ==
  ASSUME NEW n \in Nat
  PROVE  /\ n % SIZE \in 0..(SIZE - 1)
         /\ \E q \in Nat : n = SIZE * q + (n % SIZE)
<1>1. n % SIZE \in 0..(SIZE - 1)
  BY Constants
<1>2. n \div SIZE \in Nat /\ n = SIZE * (n \div SIZE) + (n % SIZE)
  BY Constants
<1> QED
  BY <1>1, <1>2

LEMMA WholeRings ==
  ASSUME NEW j \in Nat
  PROVE  (SIZE * j) % SIZE = 0
  BY Constants

\* Two numbers of one slot are a number of rings apart.
LEMMA SameSlot ==
  ASSUME NEW a \in Nat, NEW b \in Nat, a <= b, a % SIZE = b % SIZE
  PROVE  \E j \in Nat : b = a + SIZE * j
<1>1. PICK p \in Nat : a = SIZE * p + (a % SIZE)
  BY Rings
<1>2. PICK q \in Nat : b = SIZE * q + (b % SIZE)
  BY Rings
<1> DEFINE r == a % SIZE
<1>3. r \in Nat /\ a = SIZE * p + r /\ b = SIZE * q + r
  <2>1. a % SIZE \in 0..(SIZE - 1)
    BY Rings
  <2> QED
    BY <1>1, <1>2, <2>1, Constants
<1> HIDE DEF r
<1>4. p <= q
  <2>1. SUFFICES ASSUME q < p
                 PROVE  FALSE
    BY <1>1, <1>2
  <2>2. PICK d \in Nat : p = q + d + 1
    <3>1. p - q - 1 \in Nat /\ p = q + (p - q - 1) + 1
      BY <1>1, <1>2, <2>1
    <3> QED
      BY <3>1
  <2>3. SIZE * p = SIZE * q + SIZE * d + SIZE
    BY <1>2, <2>2, Constants
  <2>4. SIZE * p \in Nat /\ SIZE * q \in Nat /\ SIZE * d \in Nat /\ SIZE > 0
    BY <1>1, <1>2, <2>2, Constants
  <2> QED
    BY <1>3, <2>3, <2>4, Constants
<1>5. q - p \in Nat /\ q = p + (q - p)
  BY <1>1, <1>2, <1>4
<1>6. SIZE * q = SIZE * p + SIZE * (q - p)
  BY <1>1, <1>5, Constants
<1>7. SIZE * q \in Nat /\ SIZE * p \in Nat /\ SIZE * (q - p) \in Nat
  BY <1>1, <1>2, <1>5, Constants
<1>8. b = a + SIZE * (q - p)
  BY <1>3, <1>6, <1>7
<1> QED
  BY <1>5, <1>8

\* Less than a ring apart they are of different slots.
LEMMA OtherSlot ==
  ASSUME NEW a \in Nat, NEW b \in Nat, a < b, b < a + SIZE
  PROVE  a % SIZE # b % SIZE
<1> SUFFICES ASSUME a % SIZE = b % SIZE
             PROVE  FALSE
  OBVIOUS
<1>1. PICK j \in Nat : b = a + SIZE * j
  BY SameSlot
<1>2. CASE j = 0
  <2>1. SIZE * j = 0
    BY <1>2, Constants
  <2> QED
    BY <1>1, <2>1
<1>3. CASE j > 0
  <2>1. j - 1 \in Nat /\ SIZE * j = SIZE * (j - 1) + SIZE
    BY <1>1, <1>3, Constants
  <2>2. SIZE * (j - 1) \in Nat
    BY <2>1, Constants
  <2> QED
    BY <1>1, <2>1, <2>2, Constants
<1> QED
  BY <1>1, <1>2, <1>3

-----------------------------------------------------------------------------
\* What the types say of a node.
LEMMA NodeTypes ==
  ASSUME TypeOK, NEW n \in Nodes
  PROVE  /\ ring[n] \in [Slots -> Nat] /\ found[n] \in Nat /\ toPost[n] \in BOOLEAN
         /\ sem[n] \in Nat /\ taken[n] \in Nat /\ got[n] \in Nat /\ received[n] \in Nat
         /\ spoilt[n] \in BOOLEAN
         /\ packed[n] \in Message /\ Len(packed[n]) \in Nat /\ Len(packed[n]) <= THRESHOLD
         /\ attached[n] \in Seq(Message) /\ Len(attached[n]) <= 1 /\ Len(attached[n]) \in Nat
         /\ mail[n] \in Seq(Message) /\ Len(mail[n]) \in Nat
  BY DEF TypeOK, Message

LEMMA StoreType ==
  ASSUME TypeOK, NEW n \in Nodes, Store(n)
  PROVE  TypeOK'
<1>1. found[n] % SIZE \in Slots /\ found[n] + 1 \in Nat
  BY NodeTypes, Rings DEF Slots
<1>2. /\ ring' = [ring EXCEPT ![n] = [ring[n] EXCEPT ![found[n] % SIZE] = found[n] + 1]]
      /\ found' = [found EXCEPT ![n] = found[n] + 1]
      /\ toPost' = [toPost EXCEPT ![n] = TRUE]
      /\ spoilt' = [spoilt EXCEPT ![n] = spoilt[n] \/ found[n] - taken[n] = SIZE]
      /\ UNCHANGED <<sem, taken, packed, attached, mail, got, casting, models, received, aborted>>
  BY DEF Store, TypeOK, mainVars
<1>3. ring' \in [Nodes -> [Slots -> Nat]]
  <2>1. [ring[n] EXCEPT ![found[n] % SIZE] = found[n] + 1] \in [Slots -> Nat]
    BY <1>1, NodeTypes
  <2> QED
    BY <1>2, <2>1 DEF TypeOK
<1>4. found' \in [Nodes -> Nat] /\ toPost' \in [Nodes -> BOOLEAN]
  BY <1>1, <1>2 DEF TypeOK
<1>5. spoilt' \in [Nodes -> BOOLEAN]
  BY <1>2 DEF TypeOK
<1> QED
  BY <1>2, <1>3, <1>4, <1>5 DEF TypeOK

LEMMA PostSampleType ==
  ASSUME TypeOK, NEW n \in Nodes, PostSample(n)
  PROVE  TypeOK'
<1>1. /\ toPost' = [toPost EXCEPT ![n] = FALSE] /\ sem' = [sem EXCEPT ![n] = sem[n] + 1]
      /\ UNCHANGED <<ring, found, taken, packed, attached, mail, got, casting, models,
                     received, aborted, spoilt>>
  BY DEF PostSample, TypeOK, mainVars
<1>2. sem[n] + 1 \in Nat
  BY NodeTypes
<1> QED
  BY <1>1, <1>2 DEF TypeOK

\* The sample at a slot.
LEMMA SampleAtSlot ==
  ASSUME TypeOK, NEW n \in Nodes, NEW i \in Slots
  PROVE  AtSlot(n, i) \in Packed /\ AtSlot(n, i)[1] = ring[n][i]
<1>1. ring[n] \in [Slots -> Nat] /\ i \in Nat /\ i < SIZE
  BY NodeTypes, Constants DEF Slots
<1>2. ASSUME NEW d \in 1..Width, i + d <= SIZE
      PROVE  ring[n][i + d - 1] \in Nat
  <2>1. i + d - 1 \in Slots
    BY <1>1, <1>2, Constants DEF Slots
  <2> QED
    BY <1>1, <2>1
<1>3. AtSlot(n, i) \in Packed
  BY <1>2 DEF AtSlot, Packed
<1>4. 1 \in 1..Width /\ i + 1 <= SIZE /\ i + 1 - 1 = i
  BY <1>1, Constants
<1>5. AtSlot(n, i)[1] = ring[n][i]
  BY <1>4 DEF AtSlot
<1> QED
  BY <1>3, <1>5

\* A message that is written over is one all the same.
LEMMA WrittenOverType ==
  ASSUME NEW message \in Message, NEW sample \in Packed, NEW m \in WrittenOver(message, sample)
  PROVE  m \in Message
<1>1. CASE m = message
  BY <1>1
<1>2. ASSUME NEW j \in DOMAIN message, m = [message EXCEPT ![j] = sample]
      PROVE  m \in Message
  <2>1. message \in [1..Len(message) -> Packed] /\ Len(message) \in Nat
    BY DEF Message
  <2>2. m \in [1..Len(message) -> Packed]
    BY <1>2, <2>1
  <2> QED
    BY <2>1, <2>2 DEF Message
<1> QED
  BY <1>1, <1>2 DEF WrittenOver

LEMMA OneMessage ==
  ASSUME NEW a \in Seq(Message), a # <<>>, Len(a) <= 1
  PROVE  Len(a) = 1
<1> DEFINE l == Len(a)
<1>1. l \in Nat /\ l > 0 /\ l <= 1
  OBVIOUS
<1> HIDE DEF l
<1>2. l = 1
  BY <1>1
<1> QED
  BY <1>2 DEF l

\* The two outcomes of Pack.
LEMMA PackSteps ==
  ASSUME TypeOK, NEW n \in Nodes, Pack(n)
  PROVE  /\ Len(packed[n]) < THRESHOLD /\ sem[n] > 0
         /\ sem' = [sem EXCEPT ![n] = sem[n] - 1] /\ taken' = [taken EXCEPT ![n] = taken[n] + 1]
         /\ packed' = [packed EXCEPT ![n] = Append(packed[n], AtSlot(n, taken[n] % SIZE))]
         /\ \/ attached[n] = <<>> /\ attached' = attached /\ spoilt' = spoilt
            \/ /\ attached[n] # <<>> /\ spoilt' = [spoilt EXCEPT ![n] = TRUE]
               /\ \E m \in Message : attached' = [attached EXCEPT ![n] = <<m>>]
         /\ UNCHANGED <<ring, found, toPost, mail, got, casting, models, received, aborted>>
<1>1. /\ Len(packed[n]) < THRESHOLD /\ sem[n] > 0
      /\ sem' = [sem EXCEPT ![n] = sem[n] - 1] /\ taken' = [taken EXCEPT ![n] = taken[n] + 1]
      /\ packed' = [packed EXCEPT ![n] = Append(packed[n], AtSlot(n, taken[n] % SIZE))]
      /\ UNCHANGED <<ring, found, toPost, mail, got, casting, models, received, aborted>>
  BY DEF Pack, SlotOf, classVars, mainVars
<1>2. CASE attached[n] = <<>>
  BY <1>1, <1>2 DEF Pack
<1>3. CASE attached[n] # <<>>
  <2>1. spoilt' = [spoilt EXCEPT ![n] = TRUE]
    BY <1>3 DEF Pack
  <2>2. PICK m \in WrittenOver(Head(attached[n]), AtSlot(n, taken[n] % SIZE)) :
          attached' = [attached EXCEPT ![n] = <<m>>]
    BY <1>3 DEF Pack, SlotOf
  <2>3. Head(attached[n]) \in Message
    BY <1>3, NodeTypes
  <2>4. AtSlot(n, taken[n] % SIZE) \in Packed
    BY NodeTypes, Rings, SampleAtSlot DEF Slots
  <2>5. m \in Message
    BY <2>2, <2>3, <2>4, WrittenOverType
  <2> QED
    BY <1>1, <1>3, <2>1, <2>2, <2>5
<1> QED
  BY <1>2, <1>3

LEMMA PackType ==
  ASSUME TypeOK, NEW n \in Nodes, Pack(n)
  PROVE  TypeOK'
<1>1. /\ Len(packed[n]) < THRESHOLD /\ sem[n] > 0
      /\ sem' = [sem EXCEPT ![n] = sem[n] - 1] /\ taken' = [taken EXCEPT ![n] = taken[n] + 1]
      /\ packed' = [packed EXCEPT ![n] = Append(packed[n], AtSlot(n, taken[n] % SIZE))]
      /\ UNCHANGED <<ring, found, toPost, mail, got, casting, models, received, aborted>>
  BY PackSteps
<1>2. \/ attached' = attached /\ spoilt' = spoilt
      \/ /\ spoilt' = [spoilt EXCEPT ![n] = TRUE]
         /\ \E m \in Message : attached' = [attached EXCEPT ![n] = <<m>>]
  BY PackSteps
<1>3. /\ spoilt' \in [Nodes -> BOOLEAN] /\ attached' \in [Nodes -> Seq(Message)]
      /\ \A k \in Nodes : Len(attached'[k]) <= 1
  <2>1. CASE attached' = attached /\ spoilt' = spoilt
    BY <2>1 DEF TypeOK
  <2>2. CASE /\ spoilt' = [spoilt EXCEPT ![n] = TRUE]
             /\ \E m \in Message : attached' = [attached EXCEPT ![n] = <<m>>]
    <3>1. PICK m \in Message : attached' = [attached EXCEPT ![n] = <<m>>]
      BY <2>2
    <3>2. <<m>> \in Seq(Message) /\ Len(<<m>>) = 1
      BY <3>1
    <3>3. \A k \in Nodes : Len(attached'[k]) <= 1
      BY <3>1, <3>2, NodeTypes DEF TypeOK
    <3> QED
      BY <2>2, <3>1, <3>2, <3>3 DEF TypeOK
  <2> QED
    BY <1>2, <2>1, <2>2
<1>4. AtSlot(n, taken[n] % SIZE) \in Packed
  BY NodeTypes, Rings, SampleAtSlot DEF Slots
<1>5. /\ packed' \in [Nodes -> Message]
      /\ \A k \in Nodes : Len(packed'[k]) <= THRESHOLD
  <2> DEFINE q == Append(packed[n], AtSlot(n, taken[n] % SIZE))
  <2>1. q \in Message /\ Len(q) = Len(packed[n]) + 1
    BY <1>4, NodeTypes DEF Message
  <2>2. Len(q) <= THRESHOLD
    BY <1>1, <2>1, NodeTypes, Constants
  <2>3. packed' = [packed EXCEPT ![n] = q]
    BY <1>1
  <2> HIDE DEF q
  <2> QED
    BY <2>1, <2>2, <2>3, NodeTypes DEF TypeOK
<1>6. sem' \in [Nodes -> Nat] /\ taken' \in [Nodes -> Nat]
  <2>1. sem[n] - 1 \in Nat /\ taken[n] + 1 \in Nat
    BY <1>1, NodeTypes
  <2> QED
    BY <1>1, <2>1 DEF TypeOK
<1> QED
  BY <1>1, <1>3, <1>5, <1>6 DEF TypeOK

LEMMA BsendSteps ==
  ASSUME TypeOK, NEW n \in Nodes, Bsend(n)
  PROVE  /\ Len(packed[n]) = THRESHOLD
         /\ \/ /\ attached[n] = <<>> /\ attached' = [attached EXCEPT ![n] = <<packed[n]>>]
               /\ packed' = [packed EXCEPT ![n] = <<>>] /\ aborted' = aborted
            \/ attached' = attached /\ packed' = packed /\ aborted' = TRUE
         /\ UNCHANGED <<ring, found, toPost, sem, taken, mail, got, casting, models,
                        received, spoilt>>
  BY DEF Bsend, classVars, mainVars

LEMMA BsendType ==
  ASSUME TypeOK, NEW n \in Nodes, Bsend(n)
  PROVE  TypeOK'
<1>1. UNCHANGED <<ring, found, toPost, sem, taken, mail, got, casting, models, received, spoilt>>
  BY BsendSteps
<1>2. CASE /\ attached' = [attached EXCEPT ![n] = <<packed[n]>>]
           /\ packed' = [packed EXCEPT ![n] = <<>>] /\ aborted' = aborted
  <2>1. <<packed[n]>> \in Seq(Message) /\ Len(<<packed[n]>>) = 1
    BY NodeTypes
  <2>2. <<>> \in Message /\ Len(<<>>) = 0
    BY DEF Message
  <2>3. \A k \in Nodes : Len(packed'[k]) <= THRESHOLD /\ Len(attached'[k]) <= 1
    BY <1>2, <2>1, <2>2, NodeTypes, Constants DEF TypeOK
  <2>4. packed' \in [Nodes -> Message] /\ attached' \in [Nodes -> Seq(Message)]
    BY <1>2, <2>1, <2>2 DEF TypeOK
  <2> QED
    BY <1>1, <1>2, <2>3, <2>4 DEF TypeOK
<1>3. CASE attached' = attached /\ packed' = packed /\ aborted' = TRUE
  BY <1>1, <1>3 DEF TypeOK
<1> QED
  BY <1>2, <1>3, BsendSteps

LEMMA DepartType ==
  ASSUME TypeOK, NEW n \in Nodes, Depart(n)
  PROVE  TypeOK'
<1>1. /\ attached[n] # <<>>
      /\ mail' = [mail EXCEPT ![n] = Append(mail[n], Head(attached[n]))]
      /\ attached' = [attached EXCEPT ![n] = <<>>]
      /\ UNCHANGED <<ring, found, toPost, sem, taken, packed, got, casting, models, received,
                     aborted, spoilt>>
  BY DEF Depart, classVars, mainVars
<1>2. Append(mail[n], Head(attached[n])) \in Seq(Message)
  <2>1. Head(attached[n]) \in Message
    BY <1>1, NodeTypes
  <2> QED
    BY <2>1, NodeTypes
<1>3. mail' \in [Nodes -> Seq(Message)]
  BY <1>1, <1>2 DEF TypeOK
<1>4. <<>> \in Seq(Message) /\ Len(<<>>) = 0
  OBVIOUS
<1>5. attached' \in [Nodes -> Seq(Message)] /\ \A k \in Nodes : Len(attached'[k]) <= 1
  BY <1>1, <1>4, NodeTypes DEF TypeOK
<1> QED
  BY <1>1, <1>3, <1>5 DEF TypeOK

LEMMA ReceiveType ==
  ASSUME TypeOK, NEW n \in Nodes, Receive(n)
  PROVE  TypeOK'
<1>1. /\ mail[n] # <<>> /\ mail' = [mail EXCEPT ![n] = Tail(mail[n])]
      /\ got' = [got EXCEPT ![n] = got[n] + 1] /\ casting' = TRUE
      /\ UNCHANGED <<ring, found, toPost, sem, taken, packed, attached, models, received,
                     aborted, spoilt>>
  BY DEF Receive, classVars
<1>2. Tail(mail[n]) \in Seq(Message) /\ got[n] + 1 \in Nat
  BY <1>1, NodeTypes
<1>3. mail' \in [Nodes -> Seq(Message)] /\ got' \in [Nodes -> Nat]
  BY <1>1, <1>2 DEF TypeOK
<1> QED
  BY <1>1, <1>3 DEF TypeOK

LEMMA CastType ==
  ASSUME TypeOK, Cast
  PROVE  TypeOK'
<1>1. /\ models' = models + 1 /\ casting' = FALSE
      /\ UNCHANGED <<ring, found, toPost, sem, taken, packed, attached, mail, got, received,
                     aborted, spoilt>>
  BY DEF Cast, classVars
<1>2. models' \in Nat
  BY <1>1 DEF TypeOK
<1> QED
  BY <1>1, <1>2 DEF TypeOK

LEMMA TakeModelType ==
  ASSUME TypeOK, NEW n \in Nodes, TakeModel(n)
  PROVE  TypeOK'
<1>1. /\ received' = [received EXCEPT ![n] = received[n] + 1]
      /\ UNCHANGED <<ring, found, toPost, sem, taken, packed, attached, mail, got, casting,
                     models, aborted, spoilt>>
  BY DEF TakeModel, classVars, mainVars
<1>2. received' \in [Nodes -> Nat]
  BY <1>1, NodeTypes DEF TypeOK
<1> QED
  BY <1>1, <1>2 DEF TypeOK

-----------------------------------------------------------------------------
\* The messages that wait, on their way and in the attached buffer.
Ordered(q, a, g) ==
  /\ \A i \in 1..Len(q) : Holds(q[i], g + i)
  /\ Len(a) = 1 => Holds(a[1], g + Len(q) + 1)

LEMMA WaitingOrdered ==
  ASSUME NEW q \in Seq(Message), NEW a \in Seq(Message), Len(a) <= 1, NEW g \in Nat
  PROVE  (\A i \in DOMAIN (q \o a) : Holds((q \o a)[i], g + i)) <=> Ordered(q, a, g)
<1> DEFINE w == q \o a
<1>1. /\ Len(q) \in Nat /\ Len(a) \in Nat /\ Len(w) = Len(q) + Len(a) /\ DOMAIN w = 1..Len(w)
      /\ \A i \in 1..Len(q) : w[i] = q[i]
      /\ \A i \in 1..Len(a) : w[Len(q) + i] = a[i]
  OBVIOUS
<1> HIDE DEF w
<1>2. ASSUME \A i \in DOMAIN w : Holds(w[i], g + i)
      PROVE  Ordered(q, a, g)
  <2>1. ASSUME NEW i \in 1..Len(q)
        PROVE  Holds(q[i], g + i)
    <3>1. i \in DOMAIN w /\ w[i] = q[i]
      BY <1>1
    <3> QED
      BY <1>2, <3>1
  <2>2. ASSUME Len(a) = 1
        PROVE  Holds(a[1], g + Len(q) + 1)
    <3>1. Len(q) + 1 \in DOMAIN w /\ w[Len(q) + 1] = a[1] /\ g + (Len(q) + 1) = g + Len(q) + 1
      BY <1>1, <2>2
    <3> QED
      BY <1>2, <3>1
  <2> QED
    BY <2>1, <2>2 DEF Ordered
<1>3. ASSUME Ordered(q, a, g), NEW i \in DOMAIN w
      PROVE  Holds(w[i], g + i)
  <2>1. CASE i <= Len(q)
    <3>1. i \in 1..Len(q) /\ w[i] = q[i]
      BY <1>1, <2>1
    <3> QED
      BY <1>3, <3>1 DEF Ordered
  <2>2. CASE i > Len(q)
    <3>1. i = Len(q) + 1 /\ Len(a) = 1
      <4> DEFINE l == Len(q)  m == Len(a)
      <4>1. i \in 1..(l + m) /\ l \in Nat /\ m \in Nat /\ m <= 1 /\ i > l
        BY <1>1, <2>2
      <4> HIDE DEF l, m
      <4>2. i = l + 1 /\ m = 1
        BY <4>1
      <4> QED
        BY <4>2 DEF l, m
    <3>2. g + i = g + Len(q) + 1
      BY <1>1, <3>1
    <3>3. w[i] = a[1]
      BY <1>1, <3>1
    <3> QED
      BY <1>3, <3>1, <3>2, <3>3 DEF Ordered
  <2> QED
    BY <1>1, <2>1, <2>2
<1> QED
  BY <1>2, <1>3 DEF w

LEMMA InOrderIsOrdered ==
  ASSUME TypeOK, NEW n \in Nodes
  PROVE  InOrder(n) <=> Ordered(mail[n], attached[n], got[n])
  BY NodeTypes, WaitingOrdered DEF InOrder

LEMMA InOrderIsOrderedNext ==
  ASSUME TypeOK', NEW n \in Nodes
  PROVE  InOrder(n)' <=> Ordered(mail'[n], attached'[n], got'[n])
<1>1. /\ mail'[n] \in Seq(Message) /\ attached'[n] \in Seq(Message) /\ Len(attached'[n]) <= 1
      /\ got'[n] \in Nat
  BY DEF TypeOK
<1> QED
  BY <1>1, WaitingOrdered DEF InOrder

\* A step of another node, or of none, leaves a node's invariant alone.
LEMMA NodeUntouched ==
  ASSUME NEW n \in Nodes, NodeInv(n),
         ring'[n] = ring[n], found'[n] = found[n], toPost'[n] = toPost[n],
         sem'[n] = sem[n], taken'[n] = taken[n], packed'[n] = packed[n],
         attached'[n] = attached[n], mail'[n] = mail[n], got'[n] = got[n],
         spoilt'[n] = spoilt[n]
  PROVE  NodeInv(n)'
<1>1. Count(n)' /\ SlotInv(n)' /\ PackedInv(n)' /\ MessageInv(n)'
  BY DEF NodeInv, Count, SlotInv, PackedInv, MessageInv, Sent
<1>2. ~ spoilt'[n] => FreshInv(n)'
  BY DEF NodeInv, FreshInv, InOrder
<1> QED
  BY <1>1, <1>2 DEF NodeInv

\* The classifier.
LEMMA StoreNode ==
  ASSUME TypeOK, NEW n \in Nodes, NodeInv(n), Store(n)
  PROVE  NodeInv(n)'
<1>1. /\ ~ toPost[n] /\ toPost'[n] = TRUE /\ found'[n] = found[n] + 1
      /\ ring'[n] = [ring[n] EXCEPT ![found[n] % SIZE] = found[n] + 1]
      /\ spoilt'[n] = (spoilt[n] \/ found[n] - taken[n] = SIZE)
      /\ UNCHANGED <<sem, taken, packed, attached, mail, got>>
  BY DEF Store, TypeOK, mainVars
<1> DEFINE f == found[n]  t == taken[n]  c == ring[n]
<1>2. /\ f \in Nat /\ t \in Nat /\ sem[n] \in Nat /\ c \in [Slots -> Nat]
      /\ f = t + sem[n] /\ f >= t
  BY <1>1, NodeTypes DEF NodeInv, Count
<1>3. \A k \in Nat : k % SIZE \in Slots
  BY Rings DEF Slots
<1>4. /\ \A k \in Nat : k % SIZE = f % SIZE => ring'[n][k % SIZE] = f + 1
      /\ \A k \in Nat : k % SIZE # f % SIZE => ring'[n][k % SIZE] = c[k % SIZE]
  BY <1>1, <1>2, <1>3
<1>5. Count(n)'
  BY <1>1, <1>2 DEF Count
<1>6. SlotInv(n)'
  <2> SUFFICES ASSUME NEW k \in Nat, k < f + 1
               PROVE  \E j \in Nat : ring'[n][k % SIZE] = k + 1 + SIZE * j
    BY <1>1 DEF SlotInv
  <2>1. CASE k % SIZE = f % SIZE
    <3>1. PICK j \in Nat : f = k + SIZE * j
      BY <1>2, <2>1, SameSlot
    <3>2. f + 1 = k + 1 + SIZE * j
      <4>1. SIZE * j \in Nat
        BY Constants
      <4> QED
        BY <1>2, <3>1, <4>1
    <3> QED
      BY <1>4, <2>1, <3>2
  <2>2. CASE k % SIZE # f % SIZE
    <3>1. k < f
      BY <1>2, <2>2
    <3>2. \E j \in Nat : c[k % SIZE] = k + 1 + SIZE * j
      BY <3>1 DEF NodeInv, SlotInv
    <3> QED
      BY <1>4, <2>2, <3>2
  <2> QED
    BY <2>1, <2>2
<1>7. PackedInv(n)' /\ MessageInv(n)'
  BY <1>1 DEF NodeInv, PackedInv, MessageInv, Sent
<1>8. ASSUME ~ spoilt'[n]
      PROVE  FreshInv(n)'
  <2>1. ~ spoilt[n] /\ f - t # SIZE
    BY <1>1, <1>8
  <2>2. FreshInv(n)
    BY <2>1 DEF NodeInv
  <2>3. f < t + SIZE
    BY <1>2, <2>1, <2>2, Constants DEF FreshInv
  <2>4. ASSUME NEW k \in Nat, t <= k, k < f + 1
        PROVE  ring'[n][k % SIZE] = k + 1
    <3>1. CASE k = f
      BY <1>4, <3>1
    <3>2. CASE k < f
      <4>1. k % SIZE # f % SIZE
        <5>1. f < k + SIZE
          BY <1>2, <2>3, <2>4, Constants
        <5> QED
          BY <1>2, <3>2, <5>1, OtherSlot
      <4>2. c[k % SIZE] = k + 1
        BY <2>2, <2>4, <3>2 DEF FreshInv
      <4> QED
        BY <1>4, <4>1, <4>2
    <3> QED
      BY <1>2, <2>4, <3>1, <3>2
  <2>5. found'[n] <= taken'[n] + SIZE
    BY <1>1, <1>2, <2>3, Constants
  <2>6. /\ \A j \in DOMAIN packed'[n] :
             packed'[n][j][1] = taken'[n] - Len(packed'[n]) + j
        /\ InOrder(n)'
    BY <1>1, <2>2 DEF FreshInv, InOrder
  <2>7. \A k \in Nat : taken'[n] <= k /\ k < found'[n] => ring'[n][k % SIZE] = k + 1
    BY <1>1, <2>4
  <2> QED
    BY <2>5, <2>6, <2>7 DEF FreshInv
<1> QED
  BY <1>5, <1>6, <1>7, <1>8 DEF NodeInv

LEMMA PostSampleNode ==
  ASSUME TypeOK, NEW n \in Nodes, NodeInv(n), PostSample(n)
  PROVE  NodeInv(n)'
<1>1. /\ toPost[n] /\ toPost'[n] = FALSE /\ sem'[n] = sem[n] + 1
      /\ UNCHANGED <<ring, found, taken, packed, attached, mail, got, spoilt>>
  BY DEF PostSample, TypeOK, mainVars
<1>2. Count(n)'
  <2>1. found[n] = taken[n] + sem[n] + 1
    BY <1>1 DEF NodeInv, Count
  <2>2. taken[n] \in Nat /\ sem[n] \in Nat
    BY NodeTypes
  <2>3. found'[n] = taken'[n] + sem'[n] + 0
    BY <1>1, <2>1, <2>2
  <2> QED
    BY <1>1, <2>3 DEF Count
<1>3. SlotInv(n)' /\ PackedInv(n)' /\ MessageInv(n)'
  BY <1>1 DEF NodeInv, SlotInv, PackedInv, MessageInv, Sent
<1>4. ~ spoilt'[n] => FreshInv(n)'
  BY <1>1 DEF NodeInv, FreshInv, InOrder
<1> QED
  BY <1>2, <1>3, <1>4 DEF NodeInv

\* u_sender packs the sample whose turn it is, or one that came later.
LEMMA PackNode ==
  ASSUME TypeOK, NEW n \in Nodes, NodeInv(n), Pack(n)
  PROVE  NodeInv(n)'
<1> DEFINE t == taken[n]  p == packed[n]  e == AtSlot(n, taken[n] % SIZE)
<1>1. /\ sem[n] > 0 /\ sem'[n] = sem[n] - 1 /\ taken'[n] = t + 1 /\ packed'[n] = Append(p, e)
      /\ UNCHANGED <<ring, found, toPost, mail, got>>
  BY PackSteps DEF TypeOK
<1>2. \/ attached[n] = <<>> /\ attached' = attached /\ spoilt' = spoilt
      \/ Len(attached'[n]) = Len(attached[n]) /\ spoilt'[n] = TRUE
  <2>1. CASE attached[n] = <<>> /\ attached' = attached /\ spoilt' = spoilt
    BY <2>1
  <2>2. CASE /\ attached[n] # <<>> /\ spoilt' = [spoilt EXCEPT ![n] = TRUE]
             /\ \E m \in Message : attached' = [attached EXCEPT ![n] = <<m>>]
    <3>1. PICK m \in Message : attached' = [attached EXCEPT ![n] = <<m>>]
      BY <2>2
    <3>2. attached'[n] = <<m>> /\ Len(<<m>>) = 1 /\ spoilt'[n] = TRUE
      BY <2>2, <3>1 DEF TypeOK
    <3>3. Len(attached[n]) = 1
      <4>1. attached[n] \in Seq(Message) /\ attached[n] # <<>> /\ Len(attached[n]) <= 1
        BY <2>2, NodeTypes
      <4> QED
        BY <4>1, OneMessage
    <3> QED
      BY <3>2, <3>3
  <2> QED
    BY <2>1, <2>2, PackSteps
<1>3. /\ t \in Nat /\ found[n] \in Nat /\ sem[n] \in Nat /\ p \in Seq(Packed) /\ Len(p) \in Nat
      /\ e[1] = ring[n][t % SIZE]
  BY NodeTypes, Rings, SampleAtSlot DEF Slots, Message
<1>4. t < found[n]
  BY <1>1, <1>3 DEF NodeInv, Count
<1> HIDE DEF t, p, e
<1>5. e \in Packed
  BY NodeTypes, Rings, SampleAtSlot DEF Slots, e
<1>6. /\ DOMAIN p = 1..Len(p) /\ DOMAIN packed'[n] = 1..(Len(p) + 1)
      /\ Len(packed'[n]) = Len(p) + 1
      /\ \A j \in 1..Len(p) : packed'[n][j] = p[j]
      /\ packed'[n][Len(p) + 1] = e
  BY <1>1, <1>3, <1>5
<1>7. t + 1 - (Len(p) + 1) = t - Len(p)
  BY <1>3
<1>8. Len(p) <= t
  <2>1. t = THRESHOLD * Sent(n) + Len(p)
    BY DEF NodeInv, MessageInv, t, p
  <2>2. THRESHOLD * Sent(n) \in Nat
    BY NodeTypes, Constants DEF Sent
  <2> QED
    BY <1>3, <2>1, <2>2
<1>9. Count(n)'
  BY <1>1, <1>3 DEF NodeInv, Count, t
<1>10. SlotInv(n)'
  BY <1>1 DEF NodeInv, SlotInv
<1>11. PackedInv(n)'
  <2> SUFFICES \A j \in 1..(Len(p) + 1) :
                 \E i \in Nat : packed'[n][j][1] = t + 1 - (Len(p) + 1) + j + SIZE * i
    <3> DEFINE l == Len(packed'[n])
    <3>1. taken'[n] = t + 1 /\ l = Len(p) + 1
      BY <1>1, <1>6
    <3> HIDE DEF l
    <3>2. ASSUME NEW k \in DOMAIN packed'[n]
          PROVE  \E i \in Nat : packed'[n][k][1] = taken'[n] - l + k + SIZE * i
      <4>1. k \in 1..(Len(p) + 1)
        BY <1>6
      <4>2. PICK i \in Nat : packed'[n][k][1] = t + 1 - (Len(p) + 1) + k + SIZE * i
        BY <4>1
      <4>3. t + 1 - (Len(p) + 1) = taken'[n] - l
        BY <1>3, <3>1
      <4> QED
        BY <4>2, <4>3
    <3> QED
      BY <3>2 DEF PackedInv, l
  <2> TAKE j \in 1..(Len(p) + 1)
  <2>1. CASE j \in 1..Len(p)
    <3>1. PICK i \in Nat : p[j][1] = t - Len(p) + j + SIZE * i
      BY <1>6, <2>1 DEF NodeInv, PackedInv, t, p
    <3> QED
      BY <1>3, <1>6, <1>7, <2>1, <3>1
  <2>2. CASE j = Len(p) + 1
    <3>1. PICK i \in Nat : ring[n][t % SIZE] = t + 1 + SIZE * i
      BY <1>3, <1>4 DEF NodeInv, SlotInv
    <3>2. t + 1 - (Len(p) + 1) + j = t + 1
      BY <1>3, <1>8, <2>2
    <3> QED
      BY <1>3, <1>6, <2>2, <3>1, <3>2
  <2> QED
    BY <1>3, <2>1, <2>2
<1>12. MessageInv(n)'
  <2>1. t = THRESHOLD * Sent(n) + Len(p)
    BY DEF NodeInv, MessageInv, t, p
  <2>2. Sent(n)' = Sent(n)
    BY <1>1, <1>2 DEF Sent
  <2>3. THRESHOLD * Sent(n) \in Nat
    BY NodeTypes, Constants DEF Sent
  <2> QED
    BY <1>1, <1>3, <1>6, <2>1, <2>2, <2>3 DEF MessageInv
<1>13. ASSUME ~ spoilt'[n]
       PROVE  FreshInv(n)'
  <2>1. attached' = attached /\ ~ spoilt[n]
    BY <1>2, <1>13
  <2>2. FreshInv(n)
    BY <2>1 DEF NodeInv
  <2>3. ring[n][t % SIZE] = t + 1
    BY <1>3, <1>4, <2>2 DEF FreshInv, t
  <2>4. ASSUME NEW j \in 1..(Len(p) + 1)
        PROVE  packed'[n][j][1] = t + 1 - (Len(p) + 1) + j
    <3>1. CASE j \in 1..Len(p)
      <4>1. p[j][1] = t - Len(p) + j
        BY <1>6, <2>2, <3>1 DEF FreshInv, t, p
      <4> QED
        BY <1>3, <1>6, <1>7, <3>1, <4>1
    <3>2. CASE j = Len(p) + 1
      <4>1. t + 1 - (Len(p) + 1) + j = t + 1
        BY <1>3, <1>8, <3>2
      <4> QED
        BY <1>3, <1>6, <2>3, <3>2, <4>1
    <3> QED
      BY <1>3, <2>4, <3>1, <3>2
  <2>5. found'[n] <= taken'[n] + SIZE
    <3>1. found[n] <= t + SIZE
      BY <2>2 DEF FreshInv, t
    <3> QED
      BY <1>1, <1>3, <3>1, Constants
  <2>6. \A k \in Nat : taken'[n] <= k /\ k < found'[n] => ring'[n][k % SIZE] = k + 1
    <3>1. \A k \in Nat : t <= k /\ k < found[n] => ring[n][k % SIZE] = k + 1
      BY <2>2 DEF FreshInv, t
    <3>2. ring' = ring /\ found' = found /\ taken'[n] = t + 1
      BY <1>1
    <3>3. \A k \in Nat : t + 1 <= k => t <= k
      BY <1>3
    <3> QED
      BY <3>1, <3>2, <3>3
  <2>7. \A j \in DOMAIN packed'[n] : packed'[n][j][1] = taken'[n] - Len(packed'[n]) + j
    <3> DEFINE l == Len(packed'[n])
    <3>1. taken'[n] = t + 1 /\ l = Len(p) + 1
      BY <1>1, <1>6
    <3> HIDE DEF l
    <3> TAKE j \in DOMAIN packed'[n]
    <3>2. j \in 1..(Len(p) + 1)
      BY <1>6
    <3>3. packed'[n][j][1] = t + 1 - (Len(p) + 1) + j
      BY <2>4, <3>2
    <3>4. packed'[n][j][1] = taken'[n] - l + j
      BY <1>3, <3>1, <3>2, <3>3
    <3> QED
      BY <3>4 DEF l
  <2>8. InOrder(n)'
    BY <1>1, <2>1, <2>2 DEF FreshInv, InOrder
  <2> QED
    BY <2>5, <2>6, <2>7, <2>8 DEF FreshInv
<1> QED
  BY <1>9, <1>10, <1>11, <1>12, <1>13 DEF NodeInv

\* A full message holds the samples whose turn it is.
LEMMA FullMessage ==
  ASSUME TypeOK, NEW n \in Nodes, NodeInv(n), ~ spoilt[n],
         Len(packed[n]) = THRESHOLD, attached[n] = <<>>
  PROVE  Holds(packed[n], got[n] + Len(mail[n]) + 1)
<1> DEFINE s == got[n] + Len(mail[n])  t == taken[n]
<1>1. s \in Nat /\ t \in Nat /\ s + 1 - 1 = s
  BY NodeTypes
<1>2. Sent(n) = s
  <2>1. Len(attached[n]) = 0
    OBVIOUS
  <2> QED
    BY <1>1, <2>1 DEF Sent
<1>3. t = THRESHOLD * s + THRESHOLD
  BY <1>2 DEF NodeInv, MessageInv
<1>4. \A j \in DOMAIN packed[n] : packed[n][j][1] = t - THRESHOLD + j
  BY DEF NodeInv, FreshInv
<1>5. DOMAIN packed[n] \subseteq Nat
  BY NodeTypes DEF Message
<1> HIDE DEF s, t
<1>6. THRESHOLD * s \in Nat /\ s * THRESHOLD = THRESHOLD * s
  BY <1>1, Constants
<1>7. t - THRESHOLD = s * THRESHOLD
  BY <1>1, <1>3, <1>6, Constants
<1> DEFINE m == s + 1
<1>8. (m - 1) * THRESHOLD = t - THRESHOLD
  BY <1>1, <1>7
<1> HIDE DEF m
<1>9. \A j \in DOMAIN packed[n] : packed[n][j][1] = (m - 1) * THRESHOLD + j
  BY <1>4, <1>8
<1>10. Holds(packed[n], m)
  BY <1>9 DEF Holds
<1> QED
  BY <1>10 DEF m, s

LEMMA BsendNode ==
  ASSUME TypeOK, TypeOK', NEW n \in Nodes, NodeInv(n), Bsend(n)
  PROVE  NodeInv(n)'
<1>1. /\ Len(packed[n]) = THRESHOLD
      /\ UNCHANGED <<ring, found, toPost, sem, taken, mail, got, spoilt>>
  BY BsendSteps
<1>2. CASE attached' = attached /\ packed' = packed
  BY <1>1, <1>2, NodeUntouched
<1>3. CASE /\ attached[n] = <<>> /\ attached' = [attached EXCEPT ![n] = <<packed[n]>>]
           /\ packed' = [packed EXCEPT ![n] = <<>>]
  <2>1. attached'[n] = <<packed[n]>> /\ packed'[n] = <<>>
    BY <1>3 DEF TypeOK
  <2>2. Count(n)' /\ SlotInv(n)'
    BY <1>1 DEF NodeInv, Count, SlotInv
  <2>3. PackedInv(n)'
    BY <2>1 DEF PackedInv
  <2>4. MessageInv(n)'
    <3> DEFINE s == got[n] + Len(mail[n])
    <3>1. s \in Nat
      BY NodeTypes
    <3>2. Sent(n) = s /\ Sent(n)' = s + 1
      <4>1. Len(attached[n]) = 0 /\ Len(attached'[n]) = 1
        BY <1>3, <2>1
      <4>2. got'[n] = got[n] /\ mail'[n] = mail[n]
        BY <1>1
      <4> QED
        BY <3>1, <4>1, <4>2 DEF Sent
    <3>3. taken[n] = THRESHOLD * s + THRESHOLD
      BY <1>1, <3>2 DEF NodeInv, MessageInv
    <3> HIDE DEF s
    <3>4. THRESHOLD * (s + 1) = THRESHOLD * s + THRESHOLD /\ THRESHOLD * (s + 1) \in Nat
      BY <3>1, Constants
    <3>5. taken[n] = THRESHOLD * (s + 1) + 0
      BY <3>3, <3>4
    <3>6. Len(packed'[n]) = 0 /\ taken'[n] = taken[n]
      BY <1>1, <2>1
    <3> QED
      BY <3>2, <3>5, <3>6 DEF MessageInv
  <2>5. ASSUME ~ spoilt'[n]
        PROVE  FreshInv(n)'
    <3>1. ~ spoilt[n]
      BY <1>1, <2>5
    <3>2. FreshInv(n)
      BY <3>1 DEF NodeInv
    <3>3. Holds(packed[n], got[n] + Len(mail[n]) + 1)
      BY <1>1, <1>3, <3>1, FullMessage
    <3>4. Ordered(mail[n], attached[n], got[n])
      BY <3>2, InOrderIsOrdered DEF FreshInv
    <3>5. Ordered(mail'[n], attached'[n], got'[n])
      BY <1>1, <2>1, <3>3, <3>4 DEF Ordered
    <3>6. InOrder(n)'
      BY <3>5, InOrderIsOrderedNext
    <3>7. /\ found'[n] <= taken'[n] + SIZE
          /\ \A k \in Nat : taken'[n] <= k /\ k < found'[n] => ring'[n][k % SIZE] = k + 1
      BY <1>1, <3>2 DEF FreshInv
    <3>8. \A j \in DOMAIN packed'[n] : packed'[n][j][1] = taken'[n] - Len(packed'[n]) + j
      BY <2>1
    <3> QED
      BY <3>6, <3>7, <3>8 DEF FreshInv
  <2> QED
    BY <2>2, <2>3, <2>4, <2>5 DEF NodeInv
<1> QED
  BY <1>2, <1>3, BsendSteps

LEMMA DepartNode ==
  ASSUME TypeOK, TypeOK', NEW n \in Nodes, NodeInv(n), Depart(n)
  PROVE  NodeInv(n)'
<1>1. /\ attached[n] # <<>>
      /\ mail'[n] = Append(mail[n], Head(attached[n])) /\ attached'[n] = <<>>
      /\ UNCHANGED <<ring, found, toPost, sem, taken, packed, got, spoilt>>
  BY DEF Depart, classVars, mainVars, TypeOK
<1>2. /\ mail[n] \in Seq(Message) /\ attached[n] \in Seq(Message) /\ Len(mail[n]) \in Nat
      /\ Len(attached[n]) <= 1 /\ got[n] \in Nat
  BY NodeTypes
<1>3. Len(attached[n]) = 1
  BY <1>1, <1>2, OneMessage
<1> DEFINE x == Head(attached[n])
<1>4. x \in Message /\ x = attached[n][1] /\ mail'[n] = Append(mail[n], x)
  BY <1>1, <1>2
<1> HIDE DEF x
<1>5. Len(mail'[n]) = Len(mail[n]) + 1 /\ Len(attached'[n]) = 0
  BY <1>1, <1>2, <1>4 DEF x
<1>6. Sent(n)' = Sent(n)
  BY <1>1, <1>2, <1>3, <1>5 DEF Sent
<1>7. Count(n)' /\ SlotInv(n)' /\ PackedInv(n)' /\ MessageInv(n)'
  <2>1. MessageInv(n)'
    BY <1>1, <1>6 DEF NodeInv, MessageInv
  <2> QED
    BY <1>1, <2>1 DEF NodeInv, Count, SlotInv, PackedInv
<1>8. ASSUME ~ spoilt'[n]
      PROVE  FreshInv(n)'
  <2>1. FreshInv(n)
    BY <1>1, <1>8 DEF NodeInv
  <2>2. Ordered(mail[n], attached[n], got[n])
    BY <2>1, InOrderIsOrdered DEF FreshInv
  <2>3. /\ \A i \in 1..Len(mail[n]) : Holds(mail[n][i], got[n] + i)
        /\ Holds(x, got[n] + Len(mail[n]) + 1)
    BY <1>3, <1>4, <2>2 DEF Ordered
  <2>4. ASSUME NEW i \in 1..(Len(mail[n]) + 1)
        PROVE  Holds(mail'[n][i], got[n] + i)
    <3>1. CASE i \in 1..Len(mail[n])
      <4>1. mail'[n][i] = mail[n][i]
        BY <1>1, <1>2, <3>1
      <4> QED
        BY <2>3, <3>1, <4>1
    <3>2. CASE i = Len(mail[n]) + 1
      <4>1. mail'[n][i] = x
        BY <1>2, <1>4, <3>2
      <4>2. got[n] + i = got[n] + Len(mail[n]) + 1
        BY <1>2, <3>2
      <4> QED
        BY <2>3, <4>1, <4>2
    <3> QED
      BY <1>2, <2>4, <3>1, <3>2
  <2>5. Ordered(mail'[n], attached'[n], got'[n])
    BY <1>1, <1>5, <2>4 DEF Ordered
  <2>6. InOrder(n)'
    BY <2>5, InOrderIsOrderedNext
  <2> QED
    BY <1>1, <2>1, <2>6 DEF FreshInv
<1> QED
  BY <1>7, <1>8 DEF NodeInv

\* Rank 0 takes the first message on its way.
LEMMA ReceiveNode ==
  ASSUME TypeOK, TypeOK', NEW n \in Nodes, NodeInv(n), Receive(n)
  PROVE  NodeInv(n)'
<1>1. /\ mail[n] # <<>> /\ mail'[n] = Tail(mail[n]) /\ got'[n] = got[n] + 1
      /\ UNCHANGED <<ring, found, toPost, sem, taken, packed, attached, spoilt>>
  BY DEF Receive, classVars, TypeOK
<1>2. /\ mail[n] \in Seq(Message) /\ attached[n] \in Seq(Message) /\ Len(mail[n]) \in Nat
      /\ Len(attached[n]) \in Nat /\ got[n] \in Nat
  BY NodeTypes
<1>3. Len(mail[n]) > 0 /\ Len(mail'[n]) = Len(mail[n]) - 1 /\ Len(mail'[n]) \in Nat
  BY <1>1, <1>2
<1>4. Sent(n)' = Sent(n)
  BY <1>1, <1>2, <1>3 DEF Sent
<1>5. Count(n)' /\ SlotInv(n)' /\ PackedInv(n)' /\ MessageInv(n)'
  <2>1. MessageInv(n)'
    BY <1>1, <1>4 DEF NodeInv, MessageInv
  <2> QED
    BY <1>1, <2>1 DEF NodeInv, Count, SlotInv, PackedInv
<1>6. ASSUME ~ spoilt'[n]
      PROVE  FreshInv(n)'
  <2>1. FreshInv(n)
    BY <1>1, <1>6 DEF NodeInv
  <2>2. Ordered(mail[n], attached[n], got[n])
    BY <2>1, InOrderIsOrdered DEF FreshInv
  <2>3. ASSUME NEW i \in 1..Len(mail'[n])
        PROVE  Holds(mail'[n][i], got'[n] + i)
    <3>1. mail'[n][i] = mail[n][i + 1] /\ i + 1 \in 1..Len(mail[n])
      BY <1>1, <1>2, <1>3
    <3>2. got'[n] + i = got[n] + (i + 1)
      BY <1>1, <1>2
    <3>3. Holds(mail[n][i + 1], got[n] + (i + 1))
      BY <2>2, <3>1 DEF Ordered
    <3> QED
      BY <3>1, <3>2, <3>3
  <2>4. got'[n] + Len(mail'[n]) + 1 = got[n] + Len(mail[n]) + 1
    BY <1>1, <1>2, <1>3
  <2>5. Ordered(mail'[n], attached'[n], got'[n])
    BY <1>1, <2>2, <2>3, <2>4 DEF Ordered
  <2>6. InOrder(n)'
    BY <2>5, InOrderIsOrderedNext
  <2> QED
    BY <1>1, <2>1, <2>6 DEF FreshInv
<1> QED
  BY <1>5, <1>6 DEF NodeInv

-----------------------------------------------------------------------------
\* The ring, step by step.
THEOREM RingInit == Init => RingInv
<1> SUFFICES ASSUME Init
             PROVE  RingInv
  OBVIOUS
<1>1. TypeOK
  <2>1. <<>> \in Message /\ <<>> \in Seq(Message) /\ Len(<<>>) = 0 /\ 0 \in Nat
    BY DEF Message
  <2>2. /\ ring \in [Nodes -> [Slots -> Nat]] /\ found \in [Nodes -> Nat]
        /\ sem \in [Nodes -> Nat] /\ taken \in [Nodes -> Nat] /\ got \in [Nodes -> Nat]
        /\ received \in [Nodes -> Nat] /\ models \in Nat
    BY DEF Init
  <2>3. /\ toPost \in [Nodes -> BOOLEAN] /\ spoilt \in [Nodes -> BOOLEAN]
        /\ casting \in BOOLEAN /\ aborted \in BOOLEAN
    BY DEF Init
  <2>4. /\ packed \in [Nodes -> Message] /\ attached \in [Nodes -> Seq(Message)]
        /\ mail \in [Nodes -> Seq(Message)]
    BY <2>1 DEF Init
  <2>5. \A n \in Nodes : Len(packed[n]) <= THRESHOLD /\ Len(attached[n]) <= 1
    BY <2>1, Constants DEF Init
  <2> QED
    BY <2>2, <2>3, <2>4, <2>5 DEF TypeOK
<1>2. ASSUME NEW n \in Nodes
      PROVE  NodeInv(n)
  <2>1. /\ found[n] = 0 /\ taken[n] = 0 /\ sem[n] = 0 /\ got[n] = 0 /\ toPost[n] = FALSE
        /\ packed[n] = <<>> /\ attached[n] = <<>> /\ mail[n] = <<>>
    BY DEF Init
  <2>2. Count(n) /\ SlotInv(n) /\ PackedInv(n)
    BY <2>1 DEF Count, SlotInv, PackedInv
  <2>3. MessageInv(n)
    <3>1. Sent(n) = 0 /\ Len(packed[n]) = 0
      BY <2>1 DEF Sent
    <3> QED
      BY <2>1, <3>1, Constants DEF MessageInv
  <2>4. FreshInv(n)
    <3>1. Ordered(mail[n], attached[n], got[n])
      BY <2>1 DEF Ordered
    <3>2. InOrder(n)
      BY <1>1, <3>1, InOrderIsOrdered
    <3> QED
      BY <2>1, <3>2, Constants DEF FreshInv
  <2> QED
    BY <2>2, <2>3, <2>4 DEF NodeInv
<1> QED
  BY <1>1, <1>2 DEF RingInv

\* A step of node n's leaves the others alone.
LEMMA OthersUntouched ==
  ASSUME TypeOK, NEW n \in Nodes, NEW m \in Nodes, m # n, NodeInv(m),
         \/ Store(n) \/ PostSample(n) \/ Pack(n) \/ Bsend(n) \/ Depart(n) \/ Receive(n)
  PROVE  NodeInv(m)'
<1>1. CASE Store(n)
  <2>1. UNCHANGED <<sem, taken, packed, attached, mail, got>>
    BY <1>1 DEF Store, mainVars
  <2>2. /\ ring'[m] = ring[m] /\ found'[m] = found[m] /\ toPost'[m] = toPost[m]
        /\ spoilt'[m] = spoilt[m]
    BY <1>1 DEF Store, TypeOK
  <2> QED
    BY <2>1, <2>2, NodeUntouched
<1>2. CASE PostSample(n)
  <2>1. UNCHANGED <<ring, found, taken, packed, attached, mail, got, spoilt>>
    BY <1>2 DEF PostSample, mainVars
  <2>2. toPost'[m] = toPost[m] /\ sem'[m] = sem[m]
    BY <1>2 DEF PostSample, TypeOK
  <2> QED
    BY <2>1, <2>2, NodeUntouched
<1>3. CASE Pack(n)
  <2>1. /\ UNCHANGED <<ring, found, toPost, mail, got>>
        /\ sem' = [sem EXCEPT ![n] = sem[n] - 1] /\ taken' = [taken EXCEPT ![n] = taken[n] + 1]
        /\ packed' = [packed EXCEPT ![n] = Append(packed[n], AtSlot(n, taken[n] % SIZE))]
    BY <1>3, PackSteps
  <2>2. \/ attached' = attached /\ spoilt' = spoilt
        \/ /\ spoilt' = [spoilt EXCEPT ![n] = TRUE]
           /\ \E x \in Message : attached' = [attached EXCEPT ![n] = <<x>>]
    BY <1>3, PackSteps
  <2>3. sem'[m] = sem[m] /\ taken'[m] = taken[m] /\ packed'[m] = packed[m]
    BY <2>1 DEF TypeOK
  <2>4. attached'[m] = attached[m] /\ spoilt'[m] = spoilt[m]
    BY <2>2 DEF TypeOK
  <2> QED
    BY <2>1, <2>3, <2>4, NodeUntouched
<1>4. CASE Bsend(n)
  <2>1. UNCHANGED <<ring, found, toPost, sem, taken, mail, got, spoilt>>
    BY <1>4, BsendSteps
  <2>2. attached'[m] = attached[m] /\ packed'[m] = packed[m]
    BY <1>4, BsendSteps DEF TypeOK
  <2> QED
    BY <2>1, <2>2, NodeUntouched
<1>5. CASE Depart(n)
  <2>1. UNCHANGED <<ring, found, toPost, sem, taken, packed, got, spoilt>>
    BY <1>5 DEF Depart, classVars, mainVars
  <2>2. attached'[m] = attached[m] /\ mail'[m] = mail[m]
    BY <1>5 DEF Depart, TypeOK
  <2> QED
    BY <2>1, <2>2, NodeUntouched
<1>6. CASE Receive(n)
  <2>1. UNCHANGED <<ring, found, toPost, sem, taken, packed, attached, spoilt>>
    BY <1>6 DEF Receive, classVars
  <2>2. got'[m] = got[m] /\ mail'[m] = mail[m]
    BY <1>6 DEF Receive, TypeOK
  <2> QED
    BY <2>1, <2>2, NodeUntouched
<1> QED
  BY <1>1, <1>2, <1>3, <1>4, <1>5, <1>6

THEOREM RingNext == RingInv /\ [Next]_ringVars => RingInv'
<1> SUFFICES ASSUME RingInv, [Next]_ringVars
             PROVE  RingInv'
  OBVIOUS
<1>1. TypeOK /\ \A n \in Nodes : NodeInv(n)
  BY DEF RingInv
<1>2. CASE UNCHANGED ringVars
  <2>1. UNCHANGED <<ring, found, toPost, sem, taken, packed, attached, mail, got, casting,
                    models, received, aborted, spoilt>>
    BY <1>2 DEF ringVars, classVars, mainVars
  <2>2. TypeOK'
    BY <1>1, <2>1 DEF TypeOK
  <2>3. \A n \in Nodes : NodeInv(n)'
    BY <1>1, <2>1, NodeUntouched
  <2> QED
    BY <2>2, <2>3 DEF RingInv
<1>3. ASSUME NEW n \in Nodes,
             \/ Store(n) \/ PostSample(n) \/ Pack(n) \/ Bsend(n) \/ Depart(n) \/ Receive(n)
      PROVE  RingInv'
  <2>1. TypeOK'
    BY <1>1, <1>3, StoreType, PostSampleType, PackType, BsendType, DepartType, ReceiveType
  <2>2. NodeInv(n)'
    BY <1>1, <1>3, <2>1, StoreNode, PostSampleNode, PackNode, BsendNode, DepartNode, ReceiveNode
  <2>3. ASSUME NEW m \in Nodes
        PROVE  NodeInv(m)'
    BY <1>1, <1>3, <2>2, OthersUntouched
  <2> QED
    BY <2>1, <2>3 DEF RingInv
<1>4. CASE Cast
  <2>1. UNCHANGED <<ring, found, toPost, sem, taken, packed, attached, mail, got, spoilt>>
    BY <1>4 DEF Cast, classVars
  <2>2. \A n \in Nodes : NodeInv(n)'
    BY <1>1, <2>1, NodeUntouched
  <2> QED
    BY <1>1, <1>4, <2>2, CastType DEF RingInv
<1>5. ASSUME NEW k \in Nodes, TakeModel(k)
      PROVE  RingInv'
  <2>1. UNCHANGED <<ring, found, toPost, sem, taken, packed, attached, mail, got, spoilt>>
    BY <1>5 DEF TakeModel, classVars, mainVars
  <2>2. \A n \in Nodes : NodeInv(n)'
    BY <1>1, <2>1, NodeUntouched
  <2> QED
    BY <1>1, <1>5, <2>2, TakeModelType DEF RingInv
<1> QED
  BY <1>2, <1>3, <1>4, <1>5 DEF Next, Work, MainStep, NodeStep

-----------------------------------------------------------------------------
\* What the code relies on, from the invariant of the ring.
LEMMA RingInTurn == RingInv => InTurn
<1> SUFFICES ASSUME RingInv, NEW n \in Nodes, NEW j \in DOMAIN packed[n]
             PROVE  LET turn == taken[n] - Len(packed[n]) + j
                        sample == packed[n][j][1]
                    IN sample >= turn /\ (sample - turn) % SIZE = 0
  BY DEF InTurn
<1> DEFINE l == Len(packed[n])
           turn == taken[n] - l + j
           sample == packed[n][j][1]
<1>1. TypeOK /\ PackedInv(n) /\ MessageInv(n)
  BY DEF RingInv, NodeInv
<1>2. l \in Nat /\ taken[n] \in Nat /\ Sent(n) \in Nat /\ j \in 1..l
  BY <1>1, NodeTypes DEF Sent, Message
<1>3. taken[n] = THRESHOLD * Sent(n) + l
  BY <1>1 DEF MessageInv
<1>4. PICK i \in Nat : sample = turn + SIZE * i
  BY <1>1 DEF PackedInv
<1> HIDE DEF l, sample
<1>5. THRESHOLD * Sent(n) \in Nat
  BY <1>2, Constants
<1>6. turn \in Nat
  BY <1>2, <1>3, <1>5
<1>7. SIZE * i \in Nat /\ (SIZE * i) % SIZE = 0
  BY Constants, WholeRings
<1> HIDE DEF turn
<1>8. sample >= turn /\ sample - turn = SIZE * i
  BY <1>4, <1>6, <1>7
<1>9. sample >= turn /\ (sample - turn) % SIZE = 0
  BY <1>7, <1>8
<1> QED
  BY <1>9 DEF l, turn, sample

LEMMA RingExact == RingInv => ExactUnlessSpoilt
  BY DEF RingInv, NodeInv, FreshInv, ExactUnlessSpoilt

\* The invariant of the ring in every run of minas1.c.
THEOREM Ring == Init /\ [][Next]_ringVars => []RingInv
  BY RingInit, RingNext, PTL

\* What u_sender packs is the sample whose turn it is, or one that came whole
\* rings later; and rank 0 receives the samples of a node complete and in order
\* while none of them is written over.
THEOREM RingIsPackedInTurn == Init /\ [][Next]_ringVars => [](InTurn /\ ExactUnlessSpoilt)
  BY Ring, RingInTurn, RingExact, PTL

-----------------------------------------------------------------------------
\* The steps of minas3.c: one of minas1.c, or one that leaves the ring alone.
LEMMA StepRefines ==
  ASSUME [SampledNext]_vars
  PROVE  [Next]_ringVars
<1>1. CASE UNCHANGED vars
  BY <1>1 DEF vars
<1>2. CASE Step
  <2>1. ~aborted
    BY <1>2 DEF Step
  <2>2. CASE Sampler
    BY <2>2 DEF Sampler
  <2>3. CASE Detector
    BY <2>1, <2>3 DEF Detector, Next, Work
  <2>4. ASSUME NEW n \in Nodes, Node(n)
        PROVE  [Next]_ringVars
    <3>1. CASE RecvPacket(n)
      BY <3>1 DEF RecvPacket
    <3>2. CASE Classify(n)
      BY <2>1, <3>2 DEF Classify, KnownSample, Next
    <3>3. CASE Posts(n)
      BY <2>1, <3>3 DEF Posts, Next, Work, NodeStep
    <3>4. CASE U_sender(n)
      BY <2>1, <3>4 DEF U_sender, Next, Work, NodeStep
    <3>5. CASE M_receiver(n)
      BY <2>1, <3>5 DEF M_receiver, Next, Work, NodeStep
    <3> QED
      BY <2>4, <3>1, <3>2, <3>3, <3>4, <3>5 DEF Node, Classifier
  <2> QED
    BY <1>2, <2>2, <2>3, <2>4 DEF Step
<1> QED
  BY <1>1, <1>2 DEF SampledNext

-----------------------------------------------------------------------------
LEMMA Ranks ==
  /\ Cardinality(Nodes) \in Nat /\ Cardinality(Nodes) > 0
  /\ 1 \in Nodes
  /\ \A n : n \in Nodes <=> n \in Nat /\ 1 <= n /\ n <= Cardinality(Nodes)
<1>1. Cardinality(Nodes) \in Nat
  BY FS_CardinalityType, RingAssumption
<1> QED
  BY <1>1, SampledAssumption

\* Every packet dealt is on its way or received.
LEMMA DealtTypes ==
  ASSUME SampledTypeOK, NEW n \in Nodes
  PROVE  /\ inbox[n] \in Nat /\ handled[n] \in Nat /\ Dealt(n) \in Nat
         /\ dest \in Nodes /\ dest \in Nat
<1>1. inbox[n] \in 0..Eager /\ handled[n] \in Nat /\ dest \in Nodes
  BY DEF SampledTypeOK
<1>2. inbox[n] \in Nat
  BY <1>1, SampledAssumption
<1>3. dest \in Nat
  BY <1>1, Ranks
<1> QED
  BY <1>1, <1>2, <1>3 DEF Dealt

LEMMA SampledTypes ==
  ASSUME SampledTypeOK, [SampledNext]_vars, TypeOK'
  PROVE  SampledTypeOK'
<1>1. SAMPLES \in Nat /\ SAMPLES > 0 /\ MaxPackets \in Nat /\ Eager \in Nat
  BY SampledAssumption
<1>2. CASE UNCHANGED <<samplerVars, nodeVars>>
  BY <1>2 DEF samplerVars, nodeVars, SampledTypeOK
<1>3. CASE Sampler
  <2>1. dest \in Nodes /\ inbox[dest] \in 0..Eager /\ inbox[dest] + 1 \in 0..Eager
    BY <1>1, <1>3 DEF Sampler, SampledTypeOK
  <2>2. inbox' \in [Nodes -> 0..Eager]
    BY <1>3, <2>1 DEF Sampler, SampledTypeOK
  <2>3. dest' \in Nodes
    BY <1>3, <2>1, Ranks DEF Sampler, NextDest
  <2>4. dealt' \in 0..MaxPackets
    BY <1>1, <1>3 DEF Sampler, SampledTypeOK
  <2> QED
    BY <1>3, <2>2, <2>3, <2>4 DEF Sampler, SampledTypeOK
<1>4. ASSUME NEW n \in Nodes, RecvPacket(n)
      PROVE  SampledTypeOK'
  <2>1. inbox[n] - 1 \in 0..Eager /\ handled[n] + 1 \in Nat /\ SAMPLES \in 0..SAMPLES
    BY <1>1, <1>4 DEF RecvPacket, SampledTypeOK
  <2> QED
    BY <1>4, <2>1 DEF RecvPacket, samplerVars, SampledTypeOK
<1>5. ASSUME NEW n \in Nodes, Classify(n)
      PROVE  SampledTypeOK'
  <2>1. todo[n] - 1 \in 0..SAMPLES
    BY <1>1, <1>5 DEF Classify, SampledTypeOK
  <2> QED
    BY <1>5, <2>1 DEF Classify, samplerVars, SampledTypeOK
<1> QED
  BY <1>2, <1>3, <1>4, <1>5 DEF SampledNext, Step, Detector, Node, Classifier, Posts,
                                U_sender, M_receiver, others, vars

\* A packet to the node whose turn it is, and the turn goes on; a packet that is
\* received stays a packet dealt.
LEMMA DealtNext ==
  ASSUME SampledTypeOK, DealtInv, [SampledNext]_vars
  PROVE  DealtInv'
<1>1. CASE UNCHANGED <<dest, inbox, handled>>
  BY <1>1 DEF DealtInv, Dealt
<1>2. CASE Sampler
  <2> SUFFICES ASSUME NEW m \in Nodes, NEW n \in Nodes
               PROVE  Dealt(m)' + (IF n < dest' THEN 1 ELSE 0)
                        = Dealt(n)' + (IF m < dest' THEN 1 ELSE 0)
    BY DEF DealtInv
  <2>1. \A k \in Nodes : Dealt(k)' = Dealt(k) + (IF k = dest THEN 1 ELSE 0)
    <3> SUFFICES ASSUME NEW k \in Nodes
                 PROVE  Dealt(k)' = Dealt(k) + (IF k = dest THEN 1 ELSE 0)
      OBVIOUS
    <3>1. inbox'[k] = IF k = dest THEN inbox[k] + 1 ELSE inbox[k]
      BY <1>2 DEF Sampler, SampledTypeOK
    <3>2. handled'[k] = handled[k]
      BY <1>2 DEF Sampler
    <3> QED
      BY <3>1, <3>2, DealtTypes DEF Dealt
  <2>2. \A k \in Nodes : Dealt(k) \in Nat
    BY DealtTypes
  <2>3. Dealt(m) + (IF n < dest THEN 1 ELSE 0) = Dealt(n) + (IF m < dest THEN 1 ELSE 0)
    BY DEF DealtInv
  <2>4. /\ dest \in Nat /\ 1 <= dest /\ dest <= Cardinality(Nodes)
        /\ m \in Nat /\ 1 <= m /\ m <= Cardinality(Nodes)
        /\ n \in Nat /\ 1 <= n /\ n <= Cardinality(Nodes)
    BY Ranks DEF SampledTypeOK
  <2>5. dest' = IF dest = Cardinality(Nodes) THEN 1 ELSE dest + 1
    BY <1>2 DEF Sampler, NextDest
  <2>6. /\ Dealt(m)' = Dealt(m) + (IF m = dest THEN 1 ELSE 0)
        /\ Dealt(n)' = Dealt(n) + (IF n = dest THEN 1 ELSE 0)
        /\ Dealt(m) \in Nat /\ Dealt(n) \in Nat
    BY <2>1, <2>2
  <2> QED
    BY <2>3, <2>4, <2>5, <2>6, Ranks
<1>3. ASSUME NEW k \in Nodes, RecvPacket(k)
      PROVE  DealtInv'
  <2>1. \A n \in Nodes : Dealt(n)' = Dealt(n)
    <3> SUFFICES ASSUME NEW n \in Nodes
                 PROVE  Dealt(n)' = Dealt(n)
      OBVIOUS
    <3>1. /\ inbox'[n] = IF n = k THEN inbox[n] - 1 ELSE inbox[n]
          /\ handled'[n] = IF n = k THEN handled[n] + 1 ELSE handled[n]
      BY <1>3 DEF RecvPacket, SampledTypeOK
    <3> QED
      BY <1>3, <3>1, DealtTypes DEF Dealt, RecvPacket
  <2>2. dest' = dest
    BY <1>3 DEF RecvPacket, samplerVars
  <2> QED
    BY <2>1, <2>2 DEF DealtInv
<1> QED
  BY <1>1, <1>2, <1>3 DEF SampledNext, Step, Detector, Node, Classifier, Classify, Posts,
                          U_sender, M_receiver, others, samplerVars, nodeVars, vars

LEMMA DealtIsInTurn == SampledTypeOK /\ DealtInv => DealtInTurn
<1> SUFFICES ASSUME SampledTypeOK, DealtInv, NEW m \in Nodes, NEW n \in Nodes
             PROVE  Dealt(m) <= Dealt(n) + 1
  BY DEF DealtInTurn, Dealt
<1>1. Dealt(m) + (IF n < dest THEN 1 ELSE 0) = Dealt(n) + (IF m < dest THEN 1 ELSE 0)
  BY DEF DealtInv
<1>2. Dealt(m) \in Nat /\ Dealt(n) \in Nat
  BY DealtTypes
<1> QED
  BY <1>1, <1>2

-----------------------------------------------------------------------------
LEMMA SampledInitInv == SampledInit => IInv
<1> SUFFICES ASSUME SampledInit
             PROVE  IInv
  OBVIOUS
<1>1. RingInv
  BY RingInit DEF SampledInit
<1>2. SampledTypeOK
  BY <1>1, SampledAssumption, Ranks DEF SampledInit, SampledTypeOK, RingInv
<1>3. DealtInv
  BY Ranks DEF SampledInit, DealtInv, Dealt
<1> QED
  BY <1>1, <1>2, <1>3 DEF IInv

LEMMA SampledNextInv == IInv /\ [SampledNext]_vars => IInv'
<1> SUFFICES ASSUME IInv, [SampledNext]_vars
             PROVE  IInv'
  OBVIOUS
<1>1. RingInv'
  BY StepRefines, RingNext DEF IInv
<1>2. TypeOK'
  BY <1>1 DEF RingInv
<1>3. SampledTypeOK'
  BY <1>2, SampledTypes DEF IInv
<1>4. DealtInv'
  BY DealtNext DEF IInv
<1> QED
  BY <1>1, <1>3, <1>4 DEF IInv

\* The invariant of minas3.c: what minas1.c keeps of the ring, and packets that
\* are dealt in turn.
THEOREM Invariance == SampledSpec => []IInv
  BY SampledInitInv, SampledNextInv, PTL DEF SampledSpec

\* In minas3.c what is packed is in its turn, what rank 0 receives is complete and
\* in order unless it was written over, and no node is dealt two packets more than
\* another, however slow one of them is.
THEOREM TrialInvariant == SampledSpec => []Inv
<1>1. IInv => Inv
  BY RingInTurn, RingExact, DealtIsInTurn DEF IInv, Inv
<1> QED
  BY <1>1, Invariance, PTL
=============================================================================
