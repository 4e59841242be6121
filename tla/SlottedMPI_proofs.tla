-------------------------- MODULE SlottedMPI_proofs --------------------------
(***************************************************************************)
(* Theorems about the earlier MPI program, for every value of its          *)
(* constants: no answer is lost or handled twice, whatever the two threads *)
(* of rank 0 do to the table of slots in the meantime, the leaves follow   *)
(* the model of rank 0, the reports add up, and rank 0 does what SlottedND *)
(* says.                                                                   *)
(***************************************************************************)
EXTENDS SlottedMPI, TLAPS, FiniteSetTheorems, SequenceTheorems,
        WellFoundedInduction

\* On the way to a leaf and back an example is its id.  The end marker is End,
\* and so is what leaves and detector take for an example once that marker was
\* erased: the last id, a second time.
End == MaxExamples
Ghost == IF MarkerErased THEN sampler.id - 1 ELSE -1
Value(e, ghost) == IF e.label = "eos" \/ e.id = ghost THEN End ELSE e.id
Values(queue, ghost) == [i \in 1..Len(queue) |-> Value(queue[i], ghost)]

Busy == {"check", "wait", "identify"}
Handling == {"label", "print", "sort", "cast", "free", "failed"}

AtDetector(l) ==
  IF detector.from = l /\ detector.pc \in Handling
    THEN <<detector.answer.id>>
  ELSE IF detector.from = l /\ detector.pc \in {"find", "wait"}
    THEN <<Value(detector.answer, Ghost)>>
  ELSE <<>>
AtClassifier(l) ==
  IF classifier[l].pc \in Busy
    THEN <<Value(classifier[l].example, Ghost)>> ELSE <<>>
AtSampler(l) ==
  IF sampler.pc = "send" /\ sampler.dest = l
    THEN <<sampler.id - 1>> ELSE <<>>

\* All of them that one leaf has to do with, from the detector back to the
\* sampler, in the order in which the detector takes them.
Line(l) ==
  (AtDetector(l) \o Values(answers[l], Ghost))
  \o (AtClassifier(l) \o (Values(examples[l], Ghost) \o AtSampler(l)))

Increasing(q) == \A i, j \in 1..Len(q) : i < j => q[i] < q[j]
Elements(q) == {q[i] : i \in 1..Len(q)}
Out(l) == Elements(Line(l)) \ {End}

MarkerSent(l) ==
  sampler.pc = "done" \/ (sampler.pc = "eos" /\ l < sampler.dest)

LineInv ==
  \A l \in Leaves :
    /\ Increasing(Line(l))
    /\ \A x \in Elements(Line(l)) :
         x \in 0..(sampler.id - 1) \/ (x = End /\ MarkerSent(l))

\* Where the threads of rank 0 are, and what they know by then.
PlaceInv ==
  /\ sampler.pc \in {"find", "wait", "fill"} => sampler.id < MaxExamples
  /\ sampler.pc \in {"send", "mark", "pack", "eos", "done"} => sampler.id > 0
  /\ sampler.pc \in {"fill", "send", "eos"} => sampler.dest \in Leaves
  /\ sampler.pc \in {"mark", "pack"} => sampler.dest = 1
  /\ sampler.pc = "fill" \/ sampler.id > 0 => sampler.slot \in Slots
  /\ sampler.id = 0 => sampler.pc \in {"read", "find", "fill"}
  /\ sampler.id > 0 \/ sampler.pc \in {"find", "wait", "fill"} => size >= MaxLines
  /\ sampler.pc \in {"eos", "done"} => sampler.marker.id = sampler.id - 1
  /\ detector.pc \in Handling \cup {"find", "wait", "post"} => detector.from \in Leaves
  /\ detector.pc \in Handling => detector.slot \in Slots
  /\ detector.streams < NLeaves => sampler.id > 0
  /\ detector.pc = "done" => detector.streams = 0
  /\ detector.pc \in Handling \ {"label", "print"} => output # <<>>
  /\ detector.pc # "end"

\* A slot being filled: claimed, but still with the id it was left with.
Filling(s) == sampler.pc = "fill" /\ s = sampler.slot
Holds(s, l, x) == slots[s] = l /\ table[s].id = x /\ ~ Filling(s)

\* Slots and ids that are out are the same things.
HeldInv ==
  /\ \A l \in Leaves, s \in Slots :
       slots[s] = l /\ ~ Filling(s) => table[s].id \in Out(l)
  /\ \A l \in Leaves : \A x \in Out(l) : \E s \in Slots : Holds(s, l, x)
  /\ \A s, t \in Slots :
       /\ slots[s] \in Leaves /\ ~ Filling(s)
       /\ slots[t] \in Leaves /\ ~ Filling(t)
       /\ table[s].id = table[t].id
       => s = t
  /\ detector.pc \in Handling =>
       Holds(detector.slot, detector.from, detector.answer.id)

\* What the other slots hold is no longer out, or a 0 that never was an id.
StaleInv ==
  /\ \A s \in Slots : slots[s] # MpiSize
  /\ \A s \in Slots : table[s].id < sampler.id \/ table[s].id = 0
  /\ \A s \in Slots : slots[s] > MpiSize =>
       \A l \in Leaves : table[s].id \notin Out(l)
  /\ \A s \in Slots : slots[s] = 0 => table[s].id = 0
  /\ \A s \in Slots :
       table[s].id = 0 /\ s # 1 => slots[s] = 0 \/ Filling(s)
  /\ sampler.id > 0 => slots[1] # 0
  /\ sampler.id = 0 =>
       /\ \A s \in Slots : slots[s] = 0 \/ Filling(s)
       /\ sampler.pc = "fill" => sampler.slot = 1
  /\ sampler.pc = "fill" =>
       /\ slots[sampler.slot] = sampler.dest
       /\ \/ \A l \in Leaves : table[sampler.slot].id \notin Out(l)
          \/ table[sampler.slot].id = 0 /\ sampler.slot # 1
  /\ sampler.pc = "send" => slots[sampler.slot] = sampler.dest
  /\ sampler.id > 0 /\ sampler.pc # "fill" =>
       table[sampler.slot].id = sampler.id - 1

\* Only the last example is ever labelled as the end, and only while it is.
LabelInv ==
  /\ \A s \in Slots : table[s].label = "eos" =>
       sampler.pc \in {"pack", "eos", "done"} /\ s = sampler.slot
  /\ detector.pc \in {"find", "wait", "label"} =>
       detector.answer.label \in Answers
  /\ detector.pc \in {"print", "sort"} =>
       table[detector.slot].label \in Answers \cup {"eos"}
  /\ \A i \in 1..Len(output) :
       \/ output[i].label \in Answers
       \/ /\ output[i].label = "eos" /\ output[i].id = sampler.id - 1
          /\ sampler.pc \in {"pack", "eos", "done"}
  /\ \A l \in Leaves : \A i \in 1..Len(answers[l]) :
       answers[l][i].label \in Answers \cup {"eos"}
  /\ \A l \in Leaves : classifier[l].pc \in Busy =>
       classifier[l].example.label # "eos"
  /\ sampler.pc = "pack" /\ table[sampler.slot].label # "eos" =>
       \A l \in Leaves : sampler.id - 1 \in Out(l) =>
         /\ detector.pc \in Handling \ {"label"} /\ detector.from = l
         /\ detector.answer.id = sampler.id - 1

\* The end marker is the last thing a leaf is sent.
MarkerInv ==
  /\ \A l \in Leaves : \A i \in 1..Len(examples[l]) :
       examples[l][i].label = "eos" =>
         MarkerSent(l) /\ sampler.marker.label = "eos"
  /\ \A l \in Leaves : \A i \in 1..Len(answers[l]) :
       answers[l][i].label = "eos" => MarkerSent(l)
  /\ \A l \in Leaves : classifier[l].pc = "done" =>
       /\ MarkerSent(l) /\ sampler.marker.label = "eos"
       /\ examples[l] = <<>>
  /\ \A l \in Leaves :
       /\ MarkerSent(l) /\ sampler.marker.label = "eos"
       /\ classifier[l].pc # "done"
       => /\ examples[l] # <<>>
          /\ examples[l][Len(examples[l])].label = "eos"

\* An id is out until it is printed, and for as long as its slot is not free.
Current == detector.pc \in {"sort", "cast", "free", "failed"}
PrintInv ==
  /\ \A i, j \in 1..Len(output) : output[i].id = output[j].id => i = j
  /\ \A i \in 1..Len(output) : output[i].id < sampler.id
  /\ \A i \in 1..Len(output) : \A l \in Leaves : output[i].id \in Out(l) =>
       Current /\ output[i].id = detector.answer.id
  /\ \A x \in 0..(sampler.id - 1) :
       \/ \E i \in 1..Len(output) : output[i].id = x
       \/ \E l \in Leaves : x \in Out(l)
  /\ Current => \E i \in 1..Len(output) : output[i].id = detector.answer.id
  /\ detector.pc = "sort" => output[Len(output)].id = detector.answer.id

\* Broadcasts: Sent of them were made, Heard(l) of them were taken by leaf l, the
\* others are on their way.
Sent == IF detector.pc = "cast" THEN detector.cast
        ELSE IF detector.pc = "done" THEN size + 1 ELSE size
Heard(l) == IF receiver[l].pc \in {"add", "done"} THEN leafSize[l] + 1 ELSE leafSize[l]
CastInv ==
  /\ detector.pc = "cast" => detector.cast <= size
  /\ \A l \in Leaves :
       /\ Len(casts[l]) + Heard(l) = Sent
       /\ \A i \in 1..Len(casts[l]) :
            casts[l][i] = IF Heard(l) + i - 1 = size THEN EosCast
                          ELSE Heard(l) + i - 1
       /\ leafSize[l] <= size
       /\ receiver[l].pc = "add" =>
            receiver[l].cluster = leafSize[l] /\ leafSize[l] < size
       /\ receiver[l].pc = "done" => leafSize[l] = size /\ detector.pc = "done"
       /\ receiver[l].pc # "failed"
       /\ leafSize[l] < K => ready[l] = 0

\* The statistics: what a leaf was given is waiting there or was counted, and
\* what rank 0 heard of is what was counted at the clusters reported so far.
SumOf(v, S) == MapThenSumSet(LAMBDA x : v[x], S)

One(p) == IF p THEN 1 ELSE 0
Identified(l) == One(classifier[l].pc \in Busy)
ToSend(l) == One(sampler.pc = "send" /\ sampler.dest = l)
MarkersIn(l) == One(MarkerSent(l) /\ classifier[l].pc # "done")
Waiting(l) == (Identified(l) + Len(examples[l])) + (ToSend(l) - MarkersIn(l))
Given == [l \in Leaves |-> SumOf(used[l], ClusterIds) + Waiting(l)]
Reported ==
  [l \in Leaves |->
     SumOf([c \in ClusterIds |-> IF c < heard[l] THEN used[l][c] ELSE 0],
           ClusterIds)]
CountInv ==
  /\ ~ MarkerErased => SumOf(Given, Leaves) = sampler.id
  /\ SumOf(total, ClusterIds) = SumOf(Reported, Leaves)
  /\ \A l \in Leaves :
       /\ \A c \in ClusterIds : c >= leafSize[l] => used[l][c] = 0
       /\ heard[l] <= told[l] /\ told[l] <= leafSize[l]
       /\ told[l] > 0 => classifier[l].pc = "done" /\ receiver[l].pc = "done"

\* What is on its way has the id of an example.
Ids(q) == \A i \in 1..Len(q) : q[i].id < End
IdInv ==
  /\ \A l \in Leaves : Ids(examples[l]) /\ Ids(answers[l]) /\ classifier[l].example.id < End
  /\ detector.answer.id < End

IInv ==
  /\ TypeOK /\ LineInv /\ PlaceInv /\ HeldInv /\ StaleInv /\ LabelInv
  /\ MarkerInv /\ PrintInv /\ CastInv /\ CountInv /\ IdInv

-----------------------------------------------------------------------------
LEMMA Constants ==
  /\ NLeaves \in Nat \ {0} /\ MpiSize \in Nat /\ MpiSize = NLeaves + 1
  /\ Leaves \subseteq Nat /\ 1 \in Leaves /\ 0 \notin Leaves
  /\ \A l \in Leaves : l < MpiSize
  /\ NSlots \in Nat \ {0} /\ Slots \subseteq Nat /\ 1 \in Slots /\ 0 \notin Slots
  /\ End \in Nat \ {0} /\ MaxExamples = End
  /\ K \in Nat \ {0} /\ MaxLines \in Nat /\ MaxLines >= K
  /\ MaxClusters \in Nat /\ MaxClusters >= MaxLines
  /\ Answers \subseteq {"match", "unknown"} /\ Eager \in Nat
<1>1. /\ NLeaves \in Nat \ {0} /\ NSlots \in Nat /\ NSlots >= NLeaves
      /\ MaxExamples \in Nat \ {0} /\ K \in Nat \ {0}
      /\ MaxLines \in Nat /\ MaxLines >= K
      /\ MaxClusters \in Nat /\ MaxClusters >= MaxLines
      /\ Answers \subseteq {"match", "unknown"} /\ Eager \in Nat
  BY SlottedAssumption
<1> QED
  BY <1>1 DEF Leaves, MpiSize, Slots, End

LEMMA LeastNat ==
  ASSUME NEW S \in SUBSET Nat, S # {}
  PROVE  \E m \in S : \A k \in S : m <= k
<1> DEFINE R == OpToRel(<, Nat)
<1>0. R = {ss \in Nat \X Nat : ss[1] < ss[2]}
  BY DEF OpToRel
<1>1. IsWellFoundedOn(R, Nat)
  BY NatLessThanWellFounded
<1> HIDE DEF R
<1>2. PICK m \in S : \A k \in S : <<k, m>> \notin R
  BY <1>1, WFMin
<1>3. \A k \in S : ~(k < m)
  BY <1>0, <1>2
<1> QED
  BY <1>3

\* The first slot of a set.
LEMMA MinFacts ==
  ASSUME NEW S \in SUBSET Nat, S # {}
  PROVE  Min(S) \in S /\ \A k \in S : Min(S) <= k
<1>1. \E m \in S : \A k \in S : m =< k
  BY LeastNat
<1> QED
  BY <1>1 DEF Min

LEMMA MaxFacts ==
  ASSUME NEW a \in Nat, NEW b \in Nat
  PROVE  Max({a, b}) \in {a, b} /\ Max({a, b}) \in Nat
                /\ Max({a, b}) >= a /\ Max({a, b}) >= b
<1>1. \E m \in {a, b} : \A k \in {a, b} : m >= k
  <2>1. CASE a >= b
    BY <2>1
  <2>2. CASE ~(a >= b)
    BY <2>2
  <2> QED
    BY <2>1, <2>2
<1>2. Max({a, b}) \in {a, b} /\ \A k \in {a, b} : Max({a, b}) >= k
  BY <1>1 DEF Max
<1> QED
  BY <1>2

-----------------------------------------------------------------------------
\* Example and Answer are the same records.
LEMMA ValueType ==
  ASSUME NEW e \in Answer, NEW g
  PROVE  Value(e, g) \in Nat
  BY Constants DEF Value, Answer

LEMMA ValuesType ==
  ASSUME NEW q \in Seq(Answer), NEW g
  PROVE  /\ Values(q, g) \in Seq(Nat) /\ Len(Values(q, g)) = Len(q)
         /\ \A i \in 1..Len(q) : Values(q, g)[i] = Value(q[i], g)
<1>1. Len(q) \in Nat /\ \A i \in 1..Len(q) : q[i] \in Answer
  OBVIOUS
<1>2. \A i \in 1..Len(q) : Value(q[i], g) \in Nat
  BY <1>1, ValueType
<1>3. Values(q, g) \in [1..Len(q) -> Nat]
  BY <1>2 DEF Values
<1> QED
  BY <1>1, <1>3 DEF Values

LEMMA ValuesAppend ==
  ASSUME NEW q \in Seq(Answer), NEW e \in Answer, NEW g
  PROVE  Values(Append(q, e), g) = Append(Values(q, g), Value(e, g))
<1> DEFINE a == Append(q, e)
           n == Len(q)
<1>1. n \in Nat /\ a \in Seq(Answer) /\ Len(a) = n + 1
      /\ a[n + 1] = e /\ \A i \in 1..n : a[i] = q[i]
  OBVIOUS
<1>2. /\ Values(a, g) \in Seq(Nat) /\ Len(Values(a, g)) = n + 1
      /\ \A i \in 1..(n + 1) : Values(a, g)[i] = Value(a[i], g)
  BY <1>1, ValuesType
<1>3. /\ Values(q, g) \in Seq(Nat) /\ Len(Values(q, g)) = n
      /\ \A i \in 1..n : Values(q, g)[i] = Value(q[i], g)
  BY ValuesType
<1>4. Value(e, g) \in Nat
  BY ValueType
<1> DEFINE b == Append(Values(q, g), Value(e, g))
<1>5. b \in Seq(Nat) /\ Len(b) = n + 1 /\ b[n + 1] = Value(e, g)
      /\ \A i \in 1..n : b[i] = Value(q[i], g)
  BY <1>3, <1>4
<1> HIDE DEF a, b, n
<1>6. \A i \in 1..(n + 1) : Values(a, g)[i] = b[i]
  <2> TAKE i \in 1..(n + 1)
  <2>1. Values(a, g)[i] = Value(a[i], g)
    BY <1>2
  <2>2. CASE i = n + 1
    BY <2>1, <2>2, <1>1, <1>5
  <2>3. CASE i # n + 1
    <3>1. i \in 1..n
      BY <2>3, <1>1
    <3> QED
      BY <2>1, <3>1, <1>1, <1>5
  <2> QED
    BY <2>2, <2>3
<1>7. Values(a, g) = b
  BY <1>1, <1>2, <1>5, <1>6, SeqEqual
<1> QED
  BY <1>7 DEF a, b

LEMMA ValuesHead ==
  ASSUME NEW q \in Seq(Answer), q # <<>>, NEW g
  PROVE  /\ Head(q) \in Answer /\ Tail(q) \in Seq(Answer)
         /\ <<Value(Head(q), g)>> \o Values(Tail(q), g) = Values(q, g)
<1> DEFINE n == Len(q)
           t == Tail(q)
           v == Value(Head(q), g)
<1>1. n \in Nat \ {0} /\ t \in Seq(Answer) /\ Len(t) = n - 1
      /\ Head(q) = q[1] /\ q[1] \in Answer
      /\ \A i \in 1..(n - 1) : t[i] = q[i + 1]
  OBVIOUS
<1>2. /\ Values(q, g) \in Seq(Nat) /\ Len(Values(q, g)) = n
      /\ \A i \in 1..n : Values(q, g)[i] = Value(q[i], g)
  BY ValuesType
<1>3. /\ Values(t, g) \in Seq(Nat) /\ Len(Values(t, g)) = n - 1
      /\ \A i \in 1..(n - 1) : Values(t, g)[i] = Value(t[i], g)
  BY <1>1, ValuesType
<1>4. v \in Nat /\ v = Value(q[1], g)
  BY <1>1, ValueType
<1> HIDE DEF n, t, v
<1> DEFINE b == <<v>> \o Values(t, g)
<1>5. /\ b \in Seq(Nat) /\ Len(b) = n /\ b[1] = v
      /\ \A i \in 2..n : b[i] = Values(t, g)[i - 1]
  BY <1>1, <1>3, <1>4
<1> HIDE DEF b
<1>6. \A i \in 1..n : b[i] = Values(q, g)[i]
  <2> TAKE i \in 1..n
  <2>1. CASE i = 1
    BY <2>1, <1>1, <1>2, <1>4, <1>5
  <2>2. CASE i # 1
    <3>1. i \in 2..n /\ i - 1 \in 1..(n - 1) /\ (i - 1) + 1 = i
      BY <2>2, <1>1
    <3>2. t[i - 1] = q[i]
      BY <3>1, <1>1
    <3> QED
      BY <3>1, <3>2, <1>2, <1>3, <1>5
  <2> QED
    BY <2>1, <2>2
<1>7. b = Values(q, g)
  BY <1>1, <1>2, <1>5, <1>6, SeqEqual
<1> QED
  BY <1>1, <1>7 DEF b, t, v

LEMMA ConcatHead ==
  ASSUME NEW q \in Seq(Nat), NEW v \in Nat
  PROVE  <<v>> \o q # <<>> /\ Head(<<v>> \o q) = v /\ Tail(<<v>> \o q) = q
<1>0. <<v>> \in Seq(Nat)
  OBVIOUS
<1>1. <<v>> \o q \in Seq(Nat) /\ Len(<<v>> \o q) = Len(q) + 1 /\ (<<v>> \o q)[1] = v
      /\ \A i \in 1..Len(q) : (<<v>> \o q)[i + 1] = q[i]
  BY <1>0
<1> DEFINE c == <<v>> \o q
           n == Len(q)
<1>2. n \in Nat /\ c \in Seq(Nat) /\ Len(c) = n + 1 /\ c[1] = v
      /\ \A i \in 1..n : c[i + 1] = q[i]
  BY <1>1
<1> HIDE DEF c
<1>3. c # <<>> /\ Head(c) = v /\ Tail(c) \in Seq(Nat) /\ Len(Tail(c)) = n
      /\ \A i \in 1..n : Tail(c)[i] = c[i + 1]
  BY <1>2
<1>4. Tail(c) = q
  BY <1>2, <1>3, SeqEqual
<1> QED
  BY <1>3, <1>4 DEF c

\* Moving one element from the head of one queue to the end of the one before.
LEMMA ConcatMoves ==
  ASSUME NEW p \in Seq(Nat), NEW q \in Seq(Nat), NEW r \in Seq(Nat), NEW v \in Nat
  PROVE  /\ p \o q \in Seq(Nat)
         /\ <<>> \o q = q /\ q \o <<>> = q
         /\ (p \o q) \o r = p \o (q \o r)
         /\ Append(q, v) = q \o <<v>>
         /\ Append(p, v) \o q = p \o (<<v>> \o q)
         /\ p \o Append(q, v) = Append(p \o q, v)
         /\ <<v>> \in Seq(Nat) /\ <<>> \in Seq(Nat) /\ <<v>> \o q # <<>>
         /\ Head(<<v>> \o q) = v /\ Tail(<<v>> \o q) = q
<1>0. <<v>> \in Seq(Nat) /\ <<>> \in Seq(Nat)
  OBVIOUS
<1>1. p \o q \in Seq(Nat) /\ <<>> \o q = q /\ q \o <<>> = q
  BY <1>0, ConcatEmptySeq, ConcatProperties
<1>2. (p \o q) \o r = p \o (q \o r)
  BY ConcatAssociative, SMTT(20)
<1>3. Append(q, v) = q \o <<v>> /\ Append(p, v) = p \o <<v>>
      /\ Append(p \o q, v) = (p \o q) \o <<v>>
  BY <1>1, AppendIsConcat
<1>4. (p \o <<v>>) \o q = p \o (<<v>> \o q) /\ (p \o q) \o <<v>> = p \o (q \o <<v>>)
  BY <1>0, ConcatAssociative, SMTT(20)
<1>5. <<v>> \o q # <<>> /\ Head(<<v>> \o q) = v /\ Tail(<<v>> \o q) = q
  BY ConcatHead
<1> QED
  BY <1>0, <1>1, <1>2, <1>3, <1>4, <1>5

LEMMA ConcatAppend ==
  ASSUME NEW p \in Seq(Nat), NEW q \in Seq(Nat), NEW v \in Nat
  PROVE  p \o Append(q, v) = Append(p \o q, v) /\ p \o q \in Seq(Nat)
BY ConcatMoves

LEMMA ElementsFacts ==
  ASSUME NEW p \in Seq(Nat), NEW q \in Seq(Nat), NEW v \in Nat
  PROVE  /\ Elements(p \o q) = Elements(p) \cup Elements(q)
         /\ Elements(Append(q, v)) = Elements(q) \cup {v}
         /\ Elements(<<v>>) = {v} /\ Elements(<<>>) = {}
         /\ Elements(q) \subseteq Nat
<1>1. Elements(<<v>>) = {v} /\ Elements(<<>>) = {} /\ Elements(q) \subseteq Nat
  BY DEF Elements
<1>2. \A s \in Seq(Nat) : Elements(p \o s) = Elements(p) \cup Elements(s)
  <2> TAKE s \in Seq(Nat)
  <2> DEFINE m == Len(p)
             n == Len(s)
             c == p \o s
  <2>1. m \in Nat /\ n \in Nat /\ Len(c) = m + n
        /\ (\A i \in 1..m : c[i] = p[i]) /\ \A i \in 1..n : c[m + i] = s[i]
    OBVIOUS
  <2>2. Elements(c) = {c[i] : i \in 1..(m + n)} /\ Elements(p) = {p[i] : i \in 1..m}
        /\ Elements(s) = {s[i] : i \in 1..n}
    BY <2>1 DEF Elements
  <2> HIDE DEF m, n, c
  <2>3. \A i \in 1..(m + n) : c[i] \in Elements(p) \cup Elements(s)
    <3> TAKE i \in 1..(m + n)
    <3>1. CASE i <= m
      <4>1. i \in 1..m
        BY <3>1, <2>1
      <4> QED
        BY <4>1, <2>1, <2>2
    <3>2. CASE i > m
      <4>1. i - m \in 1..n /\ m + (i - m) = i
        BY <3>2, <2>1
      <4>2. c[i] = s[i - m]
        BY <4>1, <2>1
      <4> QED
        BY <4>1, <4>2, <2>2
    <3> QED
      BY <3>1, <3>2, <2>1
  <2>4. Elements(p) \subseteq Elements(c)
    <3>1. \A i \in 1..m : i \in 1..(m + n)
      BY <2>1
    <3> QED
      BY <3>1, <2>1, <2>2
  <2>5. Elements(s) \subseteq Elements(c)
    <3>1. \A i \in 1..n : m + i \in 1..(m + n)
      BY <2>1
    <3> QED
      BY <3>1, <2>1, <2>2
  <2>6. Elements(c) = Elements(p) \cup Elements(s)
    BY <2>2, <2>3, <2>4, <2>5
  <2> QED
    BY <2>6 DEF c
<1>3. Elements(Append(q, v)) = Elements(q) \cup {v}
  <2>1. Append(q, v) \in Seq(Nat) /\ Len(Append(q, v)) = Len(q) + 1 /\ Append(q, v)[Len(q) + 1] = v
        /\ \A i \in 1..Len(q) : Append(q, v)[i] = q[i]
    OBVIOUS
  <2> DEFINE n == Len(q)
             a == Append(q, v)
  <2>2. n \in Nat /\ Elements(a) = {a[i] : i \in 1..(n + 1)} /\ a[n + 1] = v
        /\ (\A i \in 1..n : a[i] = q[i]) /\ Elements(q) = {q[i] : i \in 1..n}
    BY <2>1 DEF Elements
  <2> HIDE DEF n, a
  <2>3. 1..(n + 1) = 1..n \cup {n + 1}
    BY <2>2
  <2>4. Elements(a) = Elements(q) \cup {v}
    BY <2>2, <2>3
  <2> QED
    BY <2>4 DEF a
<1> QED
  BY <1>1, <1>2, <1>3

LEMMA ElementsConcat ==
  ASSUME NEW p \in Seq(Nat), NEW q \in Seq(Nat)
  PROVE  p \o q \in Seq(Nat) /\ Elements(p \o q) = Elements(p) \cup Elements(q)
<1>1. 0 \in Nat
  OBVIOUS
<1> QED
  BY <1>1, ElementsFacts, ConcatAppend

LEMMA ElementsOne ==
  ASSUME NEW v
  PROVE  Elements(<<v>>) = {v}
BY DEF Elements

\* What heads an increasing sequence is nowhere else in it.
LEMMA IncreasingTail ==
  ASSUME NEW q \in Seq(Nat), q # <<>>, Increasing(q)
  PROVE  /\ Increasing(Tail(q)) /\ Tail(q) \in Seq(Nat) /\ Head(q) \in Nat
         /\ Elements(Tail(q)) = Elements(q) \ {Head(q)}
         /\ \A x \in Elements(Tail(q)) : Head(q) < x
         /\ Head(q) \in Elements(q)
<1> DEFINE n == Len(q)
           t == Tail(q)
<1>1. n \in Nat \ {0} /\ t \in Seq(Nat) /\ Len(t) = n - 1 /\ Head(q) = q[1]
      /\ (\A i \in 1..(n - 1) : t[i] = q[i + 1]) /\ (\A i \in 1..n : q[i] \in Nat)
  OBVIOUS
<1>2. \A i, j \in 1..n : i < j => q[i] < q[j]
  BY DEF Increasing
<1>3. Elements(t) = {t[i] : i \in 1..(n - 1)} /\ Elements(q) = {q[i] : i \in 1..n}
  BY <1>1 DEF Elements
<1> HIDE DEF n, t
<1>4. \A i \in 1..(n - 1) : i + 1 \in 1..n /\ t[i] = q[i + 1] /\ q[1] < t[i] /\ t[i] \in Nat
  <2> TAKE i \in 1..(n - 1)
  <2>1. i + 1 \in 1..n /\ 1 \in 1..n /\ 1 < i + 1
    BY <1>1
  <2> QED
    BY <2>1, <1>1, <1>2
<1>5. \A i, j \in 1..(n - 1) : i < j => t[i] < t[j]
  <2> TAKE i, j \in 1..(n - 1)
  <2> HAVE i < j
  <2>1. i + 1 \in 1..n /\ j + 1 \in 1..n /\ i + 1 < j + 1
    BY <1>1
  <2> QED
    BY <2>1, <1>2, <1>4
<1>6. Increasing(t)
  BY <1>1, <1>5 DEF Increasing
<1>7. \A x \in Elements(t) : q[1] < x /\ x \in Nat /\ x \in Elements(q)
  BY <1>3, <1>4
<1>8. \A x \in Elements(q) : x = q[1] \/ x \in Elements(t)
  <2> SUFFICES ASSUME NEW i \in 1..n
               PROVE  q[i] = q[1] \/ q[i] \in Elements(t)
    BY <1>3
  <2>1. CASE i = 1
    BY <2>1
  <2>2. CASE i # 1
    <3>1. i - 1 \in 1..(n - 1) /\ (i - 1) + 1 = i
      BY <2>2, <1>1
    <3>2. t[i - 1] = q[i]
      BY <3>1, <1>1
    <3> QED
      BY <3>1, <3>2, <1>3
  <2> QED
    BY <2>1, <2>2
<1>9. q[1] \in Nat /\ q[1] \in Elements(q)
  <2>1. 1 \in 1..n
    BY <1>1
  <2> QED
    BY <2>1, <1>1, <1>3
<1>10. \A x \in Elements(t) : x # q[1]
  BY <1>7, <1>9
<1>11. Elements(t) = Elements(q) \ {q[1]}
  BY <1>7, <1>8, <1>10
<1> QED
  BY <1>1, <1>6, <1>7, <1>9, <1>11 DEF t

LEMMA IncreasingAppend ==
  ASSUME NEW q \in Seq(Nat), Increasing(q), NEW v \in Nat,
         \A x \in Elements(q) : x < v
  PROVE  Increasing(Append(q, v)) /\ Append(q, v) \in Seq(Nat)
<1> DEFINE n == Len(q)
           a == Append(q, v)
<1>1. n \in Nat /\ a \in Seq(Nat) /\ Len(a) = n + 1 /\ a[n + 1] = v
      /\ (\A i \in 1..n : a[i] = q[i] /\ q[i] \in Nat)
  OBVIOUS
<1>2. (\A i, j \in 1..n : i < j => q[i] < q[j]) /\ \A i \in 1..n : q[i] < v
  BY DEF Increasing, Elements
<1> HIDE DEF n, a
<1>3. \A i, j \in 1..(n + 1) : i < j => a[i] < a[j]
  <2> TAKE i, j \in 1..(n + 1)
  <2> HAVE i < j
  <2>1. i \in 1..n
    BY <1>1
  <2>2. CASE j = n + 1
    BY <2>1, <2>2, <1>1, <1>2
  <2>3. CASE j # n + 1
    <3>1. j \in 1..n
      BY <2>3, <1>1
    <3> QED
      BY <2>1, <3>1, <1>1, <1>2
  <2> QED
    BY <2>2, <2>3
<1>4. Increasing(a)
  BY <1>1, <1>3 DEF Increasing
<1> QED
  BY <1>1, <1>4 DEF a

-----------------------------------------------------------------------------
LEMMA PartTypes ==
  ASSUME TypeOK, PlaceInv, NEW l \in Leaves
  PROVE  /\ AtDetector(l) \in Seq(Nat) /\ AtClassifier(l) \in Seq(Nat)
         /\ AtSampler(l) \in Seq(Nat)
         /\ answers[l] \in Seq(Answer) /\ examples[l] \in Seq(Answer)
         /\ Values(answers[l], Ghost) \in Seq(Nat)
         /\ Values(examples[l], Ghost) \in Seq(Nat)
         /\ Line(l) \in Seq(Nat)
         /\ sampler.id \in Nat /\ sampler.id <= End
         /\ detector.answer \in Answer /\ classifier[l].example \in Answer
<1>1. /\ answers[l] \in Seq(Answer) /\ examples[l] \in Seq(Answer)
      /\ detector.answer \in Answer /\ classifier[l].example \in Answer
  BY DEF TypeOK, Answer, Example
<1>2. sampler.id \in Nat /\ sampler.id <= End /\ (sampler.pc = "send" => sampler.id > 0)
  BY Constants DEF TypeOK, PlaceInv, End
<1>3. Value(detector.answer, Ghost) \in Nat /\ Value(classifier[l].example, Ghost) \in Nat
      /\ detector.answer.id \in Nat
  BY <1>1, ValueType DEF Answer
<1>4. AtDetector(l) \in Seq(Nat)
  BY <1>3 DEF AtDetector
<1>5. AtClassifier(l) \in Seq(Nat)
  BY <1>3 DEF AtClassifier
<1>6. AtSampler(l) \in Seq(Nat)
  BY <1>2 DEF AtSampler
<1>7. Values(answers[l], Ghost) \in Seq(Nat) /\ Values(examples[l], Ghost) \in Seq(Nat)
  BY <1>1, ValuesType
<1>8. \A p, q \in Seq(Nat) : p \o q \in Seq(Nat)
  OBVIOUS
<1>9. Line(l) \in Seq(Nat)
  <2> DEFINE d == AtDetector(l)
             c == AtClassifier(l)
             s == AtSampler(l)
             a == Values(answers[l], Ghost)
             e == Values(examples[l], Ghost)
  <2>1. d \in Seq(Nat) /\ c \in Seq(Nat) /\ s \in Seq(Nat) /\ a \in Seq(Nat) /\ e \in Seq(Nat)
    BY <1>4, <1>5, <1>6, <1>7
  <2>2. Line(l) = (d \o a) \o (c \o (e \o s))
    BY DEF Line
  <2> HIDE DEF d, c, s, a, e
  <2>3. d \o a \in Seq(Nat) /\ e \o s \in Seq(Nat)
    BY <2>1, <1>8
  <2>4. c \o (e \o s) \in Seq(Nat)
    BY <2>1, <2>3, <1>8
  <2> QED
    BY <2>2, <2>3, <2>4, <1>8
<1> QED
  BY <1>1, <1>2, <1>4, <1>5, <1>6, <1>7, <1>9

LEMMA SameParts ==
  ASSUME NEW l \in Leaves, Ghost' = Ghost,
         AtDetector(l)' = AtDetector(l), answers'[l] = answers[l],
         AtClassifier(l)' = AtClassifier(l), examples'[l] = examples[l],
         AtSampler(l)' = AtSampler(l)
  PROVE  Line(l)' = Line(l)
BY DEF Line

\* The steps of the sampler that give out nothing.
LEMMA QuietSampler ==
  ASSUME TypeOK, PlaceInv, NEW l \in Leaves,
         \/ ReadCluster \/ ReadExample \/ FindSlot \/ AwaitSlot
         \/ EndOfInput \/ MarkLast
  PROVE  /\ Line(l)' = Line(l) /\ Ghost' = Ghost /\ sampler'.id = sampler.id
         /\ MarkerSent(l)' = MarkerSent(l)
         /\ AtSampler(l)' = AtSampler(l) /\ AtClassifier(l)' = AtClassifier(l)
         /\ sampler'.pc \notin {"send", "eos", "done"}
         /\ sampler.pc \notin {"send", "eos", "done"}
         /\ UNCHANGED <<detector, output, answers, leafVars, endVars, examples>>
<1> USE DEF ReadCluster, ReadExample, FindSlot, AwaitSlot, EndOfInput, MarkLast
<1>1. UNCHANGED <<detector, output, answers, leafVars, endVars, examples>>
  BY DEF samplerRest
<1>2. /\ sampler'.pc \notin {"send", "eos", "done"} /\ sampler'.id = sampler.id
      /\ sampler.pc \notin {"send", "eos", "done"}
  BY DEF SamplerGoes, TypeOK
<1>3. Ghost' = Ghost
  BY <1>2 DEF Ghost, MarkerErased
<1>4. AtSampler(l)' = AtSampler(l)
  BY <1>2 DEF AtSampler
<1>5. AtDetector(l)' = AtDetector(l)
  BY <1>1, <1>3 DEF AtDetector
<1>6. AtClassifier(l)' = AtClassifier(l)
  BY <1>1, <1>3 DEF AtClassifier, leafVars
<1>7. MarkerSent(l)' = MarkerSent(l)
  BY <1>2 DEF MarkerSent
<1>8. Line(l)' = Line(l)
  BY <1>1, <1>3, <1>4, <1>5, <1>6, SameParts
<1> QED
  BY <1>1, <1>2, <1>3, <1>4, <1>6, <1>7, <1>8

LEMMA FillLine ==
  ASSUME TypeOK, PlaceInv, NEW l \in Leaves, FillSlot
  PROVE  /\ Line(l)' = IF l = sampler.dest THEN Append(Line(l), sampler.id)
                       ELSE Line(l)
         /\ Ghost' = Ghost /\ sampler'.id = sampler.id + 1
         /\ MarkerSent(l)' = MarkerSent(l) /\ ~ MarkerSent(l)
         /\ AtClassifier(l)' = AtClassifier(l)
         /\ AtSampler(l) = <<>>
         /\ AtSampler(l)' = IF l = sampler.dest THEN <<sampler.id>> ELSE <<>>
         /\ UNCHANGED <<detector, output, answers, leafVars, endVars, examples>>
<1> USE DEF FillSlot
<1>1. UNCHANGED <<detector, output, answers, leafVars, endVars, examples>>
  BY DEF samplerRest
<1>2. /\ sampler'.pc = "send" /\ sampler'.id = sampler.id + 1
      /\ sampler'.dest = sampler.dest /\ sampler.pc = "fill"
      /\ sampler.id \in Nat
  BY Constants DEF TypeOK
<1>3. Ghost' = Ghost
  BY <1>2 DEF Ghost, MarkerErased
<1>4. /\ AtSampler(l) = <<>>
      /\ AtSampler(l)' = IF l = sampler.dest THEN <<sampler.id>> ELSE <<>>
  BY <1>2 DEF AtSampler
<1>5. AtDetector(l)' = AtDetector(l)
  BY <1>1, <1>3 DEF AtDetector
<1>6. AtClassifier(l)' = AtClassifier(l)
  BY <1>1, <1>3 DEF AtClassifier, leafVars
<1>7. MarkerSent(l)' = MarkerSent(l) /\ ~ MarkerSent(l)
  BY <1>2 DEF MarkerSent
<1>8. Line(l)' = IF l = sampler.dest THEN Append(Line(l), sampler.id) ELSE Line(l)
  <2>1. CASE l # sampler.dest
    BY <2>1, <1>1, <1>3, <1>4, <1>5, <1>6, SameParts
  <2>2. CASE l = sampler.dest
    <3> DEFINE d == AtDetector(l) \o Values(answers[l], Ghost)
               c == AtClassifier(l)
               e == Values(examples[l], Ghost)
               v == sampler.id
    <3>1. d \in Seq(Nat) /\ c \in Seq(Nat) /\ e \in Seq(Nat) /\ v \in Nat
      BY PartTypes, <1>2, ConcatMoves
    <3>2. /\ Line(l) = d \o (c \o (e \o <<>>))
          /\ Line(l)' = d \o (c \o (e \o <<v>>))
      BY <2>2, <1>1, <1>3, <1>4, <1>5, <1>6 DEF Line
    <3> HIDE DEF d, c, e, v
    <3>3. e \o <<>> = e /\ e \o <<v>> = Append(e, v) /\ Append(e, v) \in Seq(Nat)
      BY <3>1, ConcatMoves
    <3>4. c \o Append(e, v) = Append(c \o e, v) /\ c \o e \in Seq(Nat)
      BY <3>1, ConcatAppend
    <3>5. d \o Append(c \o e, v) = Append(d \o (c \o e), v)
      BY <3>1, <3>4, ConcatAppend
    <3>6. Line(l)' = Append(Line(l), v)
      BY <3>2, <3>3, <3>4, <3>5
    <3> QED
      BY <2>2, <3>6 DEF v
  <2> QED
    BY <2>1, <2>2
<1> QED
  BY <1>1, <1>2, <1>3, <1>4, <1>6, <1>7, <1>8

\* The line in its parts: the one at the detector first.
Rest(l) == Values(answers[l], Ghost)
             \o (AtClassifier(l) \o (Values(examples[l], Ghost) \o AtSampler(l)))

LEMMA LineParts ==
  ASSUME TypeOK, PlaceInv, NEW l \in Leaves
  PROVE  /\ Line(l) = AtDetector(l) \o Rest(l) /\ Rest(l) \in Seq(Nat)
         /\ Elements(Rest(l)) =
              Elements(Values(answers[l], Ghost)) \cup Elements(AtClassifier(l))
              \cup Elements(Values(examples[l], Ghost)) \cup Elements(AtSampler(l))
         /\ Elements(Line(l)) = Elements(AtDetector(l)) \cup Elements(Rest(l))
<1> DEFINE d == AtDetector(l)
           c == AtClassifier(l)
           s == AtSampler(l)
           a == Values(answers[l], Ghost)
           e == Values(examples[l], Ghost)
<1>1. d \in Seq(Nat) /\ c \in Seq(Nat) /\ s \in Seq(Nat) /\ a \in Seq(Nat) /\ e \in Seq(Nat)
  BY PartTypes
<1>2. Line(l) = (d \o a) \o (c \o (e \o s)) /\ Rest(l) = a \o (c \o (e \o s))
  BY DEF Line, Rest
<1> HIDE DEF d, c, s, a, e
<1> DEFINE es == e \o s
           ces == c \o es
           r == a \o ces
<1>3. es \in Seq(Nat) /\ Elements(es) = Elements(e) \cup Elements(s)
  BY <1>1, ElementsConcat
<1> HIDE DEF es
<1>4. ces \in Seq(Nat) /\ Elements(ces) = Elements(c) \cup Elements(es)
  BY <1>1, <1>3, ElementsConcat
<1> HIDE DEF ces
<1>5. r \in Seq(Nat) /\ Elements(r) = Elements(a) \cup Elements(ces)
  BY <1>1, <1>4, ElementsConcat
<1>6. (d \o a) \o ces = d \o r
  BY <1>1, <1>4, ConcatAssociative, SMTT(20)
<1> HIDE DEF r
<1>7. Rest(l) = r /\ Line(l) = d \o r
  BY <1>2, <1>6 DEF r, ces, es
<1>8. Elements(d \o r) = Elements(d) \cup Elements(r)
  BY <1>1, <1>5, ElementsConcat
<1>9. Elements(Line(l)) = Elements(d) \cup Elements(Rest(l))
  BY <1>7, <1>8
<1> QED
  BY <1>3, <1>4, <1>5, <1>7, <1>9 DEF d, c, s, a, e

\* What the sampler sends stays in its place in the line.
LEMMA SendLine ==
  ASSUME TypeOK, PlaceInv, StaleInv, LabelInv, NEW l \in Leaves, SendExample
  PROVE  /\ Line(l)' = Line(l) /\ Ghost' = Ghost
         /\ sampler'.id = sampler.id /\ sampler'.pc = "read"
         /\ ~ MarkerSent(l) /\ ~ MarkerSent(l)'
         /\ AtClassifier(l)' = AtClassifier(l)
         /\ table[sampler.slot].label # "eos" /\ table[sampler.slot] \in Answer
         /\ sampler.dest \in Leaves
         /\ \/ /\ l = sampler.dest /\ AtSampler(l) = <<sampler.id - 1>> /\ AtSampler(l)' = <<>>
               /\ examples'[l] = Append(examples[l], table[sampler.slot])
            \/ /\ l # sampler.dest /\ AtSampler(l) = <<>> /\ AtSampler(l)' = <<>>
               /\ examples'[l] = examples[l]
         /\ UNCHANGED <<detector, output, answers, leafVars, endVars, tableVars>>
<1> USE DEF SendExample
<1>1. UNCHANGED <<detector, output, answers, leafVars, endVars, tableVars>>
  BY DEF samplerRest
<1>2. /\ sampler'.pc = "read" /\ sampler'.id = sampler.id /\ sampler'.dest = sampler.dest
      /\ sampler.pc = "send" /\ sampler.id \in Nat /\ sampler.id > 0
      /\ sampler.slot \in Slots /\ sampler.dest \in Leaves
  BY DEF TypeOK, SamplerGoes, PlaceInv
<1>3. Ghost' = Ghost /\ Ghost = -1
  BY <1>2 DEF Ghost, MarkerErased
<1>4. /\ AtSampler(l) = IF l = sampler.dest THEN <<sampler.id - 1>> ELSE <<>>
      /\ AtSampler(l)' = <<>>
  BY <1>2 DEF AtSampler
<1>5. AtDetector(l)' = AtDetector(l)
  BY <1>1, <1>3 DEF AtDetector
<1>6. AtClassifier(l)' = AtClassifier(l)
  BY <1>1, <1>3 DEF AtClassifier, leafVars
<1>7. ~ MarkerSent(l)' /\ ~ MarkerSent(l)
  BY <1>2 DEF MarkerSent
<1>8. /\ table[sampler.slot] \in Answer /\ table[sampler.slot].label # "eos"
      /\ table[sampler.slot].id = sampler.id - 1
  BY <1>2 DEF TypeOK, Example, Answer, LabelInv, StaleInv
<1>9. Value(table[sampler.slot], Ghost) = sampler.id - 1
  BY <1>2, <1>3, <1>8 DEF Value
<1>10. examples'[l] = IF l = sampler.dest THEN Append(examples[l], table[sampler.slot])
                      ELSE examples[l]
  BY <1>2 DEF TypeOK
<1>11. Line(l)' = Line(l)
  <2>1. CASE l # sampler.dest
    BY <2>1, <1>1, <1>3, <1>4, <1>5, <1>6, <1>10, SameParts
  <2>2. CASE l = sampler.dest
    <3> DEFINE d == AtDetector(l) \o Values(answers[l], Ghost)
               c == AtClassifier(l)
               e == Values(examples[l], Ghost)
               v == sampler.id - 1
    <3>1. c \in Seq(Nat) /\ e \in Seq(Nat) /\ v \in Nat
      BY PartTypes, <1>2
    <3>2. Values(Append(examples[l], table[sampler.slot]), Ghost) = Append(e, v)
      BY <1>8, <1>9, PartTypes, ValuesAppend
    <3>3. /\ Line(l) = d \o (c \o (e \o <<v>>))
          /\ Line(l)' = d \o (c \o (Append(e, v) \o <<>>))
      BY <2>2, <3>2, <1>1, <1>3, <1>4, <1>5, <1>6, <1>10 DEF Line
    <3> HIDE DEF d, c, e, v
    <3>4. Append(e, v) = e \o <<v>>
      BY <3>1, AppendIsConcat, Zenon
    <3>8. Append(e, v) \in Seq(Nat)
      BY <3>1
    <3>5. Append(e, v) \o <<>> = Append(e, v)
      BY <3>8, ConcatEmptySeq
    <3> QED
      BY <3>3, <3>4, <3>5
  <2> QED
    BY <2>1, <2>2
<1> QED
  BY <1>1, <1>2, <1>3, <1>4, <1>6, <1>7, <1>8, <1>10, <1>11

\* A marker is End, erased or not.
LEMMA MarkerLine ==
  ASSUME TypeOK, PlaceInv, NEW l \in Leaves, SendMarker
  PROVE  /\ Line(l)' = IF l = sampler.dest THEN Append(Line(l), End) ELSE Line(l)
         /\ Ghost' = Ghost /\ MarkerErased' = MarkerErased
         /\ sampler'.id = sampler.id /\ sampler'.pc \in {"eos", "done"}
         /\ sampler'.marker = sampler.marker /\ sampler.marker \in Answer
         /\ sampler.dest \in Leaves
         /\ MarkerSent(l)' = (MarkerSent(l) \/ l = sampler.dest)
         /\ ~ MarkerSent(sampler.dest)
         /\ AtClassifier(l)' = AtClassifier(l)
         /\ AtSampler(l) = <<>> /\ AtSampler(l)' = <<>>
         /\ examples'[l] = IF l = sampler.dest THEN Append(examples[l], sampler.marker)
                           ELSE examples[l]
         /\ UNCHANGED <<detector, output, answers, leafVars, endVars, tableVars>>
<1> USE DEF SendMarker
<1>1. UNCHANGED <<detector, output, answers, leafVars, endVars, tableVars>>
  BY DEF samplerRest
<1>2. /\ sampler'.pc \in {"eos", "done"} /\ sampler'.id = sampler.id
      /\ sampler'.marker = sampler.marker
      /\ sampler.pc = "eos" /\ sampler.id \in Nat /\ sampler.marker.id = sampler.id - 1
      /\ sampler.dest \in Leaves /\ sampler.marker \in Answer
      /\ IF sampler.dest = NLeaves THEN sampler'.pc = "done"
         ELSE sampler'.pc = "eos" /\ sampler'.dest = sampler.dest + 1
  BY DEF TypeOK, PlaceInv, Answer, Example
<1>3. Ghost' = Ghost /\ MarkerErased' = MarkerErased
  BY <1>2 DEF Ghost, MarkerErased
<1>4. AtSampler(l) = <<>> /\ AtSampler(l)' = <<>>
  BY <1>2 DEF AtSampler
<1>5. AtDetector(l)' = AtDetector(l)
  BY <1>1, <1>3 DEF AtDetector
<1>6. AtClassifier(l)' = AtClassifier(l)
  BY <1>1, <1>3 DEF AtClassifier, leafVars
<1>7. MarkerSent(l)' = (MarkerSent(l) \/ l = sampler.dest) /\ ~ MarkerSent(sampler.dest)
  BY <1>2, Constants DEF MarkerSent, Leaves
<1>8. Value(sampler.marker, Ghost) = End
  BY <1>2 DEF Value, Ghost, MarkerErased
<1>9. examples'[l] = IF l = sampler.dest THEN Append(examples[l], sampler.marker)
                     ELSE examples[l]
  BY <1>2 DEF TypeOK
<1>10. Line(l)' = IF l = sampler.dest THEN Append(Line(l), End) ELSE Line(l)
  <2>1. CASE l # sampler.dest
    BY <2>1, <1>1, <1>3, <1>4, <1>5, <1>6, <1>9, SameParts
  <2>2. CASE l = sampler.dest
    <3> DEFINE d == AtDetector(l) \o Values(answers[l], Ghost)
               c == AtClassifier(l)
               e == Values(examples[l], Ghost)
    <3>1. d \in Seq(Nat) /\ c \in Seq(Nat) /\ e \in Seq(Nat) /\ End \in Nat
      BY PartTypes, Constants, ElementsConcat
    <3>2. Values(Append(examples[l], sampler.marker), Ghost) = Append(e, End)
      BY <1>2, <1>8, PartTypes, ValuesAppend
    <3>3. /\ Line(l) = d \o (c \o (e \o <<>>))
          /\ Line(l)' = d \o (c \o (Append(e, End) \o <<>>))
      BY <2>2, <3>2, <1>1, <1>3, <1>4, <1>5, <1>6, <1>9 DEF Line
    <3> HIDE DEF d, c, e
    <3>4. Append(e, End) \in Seq(Nat)
      BY <3>1
    <3>5. e \o <<>> = e /\ Append(e, End) \o <<>> = Append(e, End)
      BY <3>1, <3>4, ConcatEmptySeq
    <3>6. c \o Append(e, End) = Append(c \o e, End) /\ c \o e \in Seq(Nat)
      BY <3>1, ConcatAppend
    <3>7. d \o Append(c \o e, End) = Append(d \o (c \o e), End)
      BY <3>1, <3>6, ConcatAppend
    <3> QED
      BY <2>2, <3>3, <3>5, <3>6, <3>7
  <2> QED
    BY <2>1, <2>2
<1> QED
  BY <1>1, <1>2, <1>3, <1>4, <1>6, <1>7, <1>9, <1>10

\* Nothing else becomes a ghost when the sampler packs an erased marker: what is
\* out under the last id is in the hands of the detector.
LEMMA SameValues ==
  ASSUME NEW q \in Seq(Answer), NEW g \in Nat, g # End,
         g \notin Elements(Values(q, -1))
  PROVE  Values(q, g) = Values(q, -1)
<1>1. \A i \in 1..Len(q) : Value(q[i], g) = Value(q[i], -1)
  <2> TAKE i \in 1..Len(q)
  <2>1. q[i] \in Answer
    OBVIOUS
  <2>2. Value(q[i], -1) \in Elements(Values(q, -1))
    BY ValuesType DEF Elements
  <2> QED
    BY <2>1, <2>2 DEF Value, Answer
<1> QED
  BY <1>1 DEF Values

LEMMA PackLine ==
  ASSUME TypeOK, PlaceInv, LineInv, StaleInv, LabelInv, NEW l \in Leaves, PackMarker
  PROVE  /\ Line(l)' = Line(l)
         /\ sampler'.id = sampler.id /\ sampler'.pc = "eos"
         /\ sampler'.marker = table[sampler.slot]
         /\ ~ MarkerSent(l) /\ ~ MarkerSent(l)'
         /\ Len(AtClassifier(l)') = Len(AtClassifier(l))
         /\ AtSampler(l) = <<>> /\ AtSampler(l)' = <<>>
         /\ UNCHANGED <<detector, output, answers, leafVars, endVars, tableVars, examples>>
<1> USE DEF PackMarker
<1>1. UNCHANGED <<detector, output, answers, leafVars, endVars, tableVars, examples>>
  BY DEF samplerRest
<1>2. /\ sampler'.pc = "eos" /\ sampler'.id = sampler.id /\ sampler'.dest = 1
      /\ sampler'.marker = table[sampler.slot]
      /\ sampler.pc = "pack" /\ sampler.id \in Nat /\ sampler.id > 0
      /\ sampler.id <= End /\ sampler.slot \in Slots
  BY Constants DEF TypeOK, PlaceInv
<1>3. Ghost = -1
  BY <1>2 DEF Ghost, MarkerErased
<1>4. AtSampler(l) = <<>> /\ AtSampler(l)' = <<>>
  BY <1>2 DEF AtSampler
<1>5. ~ MarkerSent(l) /\ ~ MarkerSent(l)'
  BY <1>2, Constants DEF MarkerSent
<1>6. /\ AtClassifier(l)' = AtClassifier(l) /\ AtDetector(l)' = AtDetector(l)
      /\ Values(answers[l], Ghost') = Values(answers[l], Ghost)
      /\ Values(examples[l], Ghost') = Values(examples[l], Ghost)
  <2>1. CASE table[sampler.slot].label = "eos"
    <3>1. Ghost' = Ghost
      BY <2>1, <1>2, <1>3 DEF Ghost, MarkerErased
    <3> QED
      BY <3>1, <1>1 DEF AtClassifier, AtDetector, leafVars
  <2>2. CASE table[sampler.slot].label # "eos"
    <3> DEFINE g == sampler.id - 1
    <3>1. Ghost' = g /\ g \in Nat /\ g # End
      BY <2>2, <1>2 DEF Ghost, MarkerErased
    <3> HIDE DEF g
    <3>2. g \in Elements(Line(l)) =>
            /\ detector.pc \in Handling \ {"label"} /\ detector.from = l
            /\ detector.answer.id = g
      BY <2>2, <3>1, <1>2 DEF LabelInv, Out, g
    <3>3. g \notin Elements(Rest(l))
      <4> SUFFICES ASSUME g \in Elements(Rest(l))
                   PROVE  FALSE
        OBVIOUS
      <4>1. /\ detector.pc \in Handling \ {"label"} /\ detector.from = l
            /\ detector.answer.id = g
        BY <3>2, LineParts
      <4>2. AtDetector(l) = <<g>>
        BY <4>1 DEF AtDetector
      <4>3. Line(l) = <<g>> \o Rest(l) /\ Rest(l) \in Seq(Nat) /\ Line(l) \in Seq(Nat)
        BY <4>2, LineParts, PartTypes
      <4>4. Line(l) # <<>> /\ Head(Line(l)) = g /\ Tail(Line(l)) = Rest(l)
        BY <4>3, <3>1, ConcatMoves
      <4>5. Increasing(Line(l))
        BY DEF LineInv
      <4> QED
        BY <4>3, <4>4, <4>5, IncreasingTail
    <3>4. /\ g \notin Elements(Values(answers[l], Ghost))
          /\ g \notin Elements(AtClassifier(l))
          /\ g \notin Elements(Values(examples[l], Ghost))
      BY <3>3, LineParts
    <3>5. answers[l] \in Seq(Answer) /\ examples[l] \in Seq(Answer)
          /\ detector.answer \in Answer /\ classifier[l].example \in Answer
      BY PartTypes
    <3>6. /\ Values(answers[l], g) = Values(answers[l], -1)
          /\ Values(examples[l], g) = Values(examples[l], -1)
      BY <3>1, <3>4, <3>5, <1>3, SameValues
    <3>7. AtClassifier(l)' = AtClassifier(l)
      <4>1. CASE classifier[l].pc \in Busy
        <5> DEFINE v == Value(classifier[l].example, -1)
        <5>1. AtClassifier(l) = <<v>>
          BY <4>1, <1>3 DEF AtClassifier
        <5>2. v # g
          BY <5>1, <3>4, ElementsOne
        <5>3. Value(classifier[l].example, g) = v
          BY <5>2, <3>5 DEF Value, Answer
        <5>4. classifier'[l] = classifier[l]
          BY <1>1 DEF leafVars
        <5> QED
          BY <4>1, <5>1, <5>3, <5>4, <3>1 DEF AtClassifier
      <4>2. CASE classifier[l].pc \notin Busy
        BY <4>2, <1>1 DEF AtClassifier, leafVars
      <4> QED
        BY <4>1, <4>2
    <3>8. AtDetector(l)' = AtDetector(l)
      <4>1. CASE detector.from = l /\ detector.pc \in {"find", "wait"}
        <5> DEFINE v == Value(detector.answer, -1)
        <5>0. detector.pc \notin Handling
          BY <4>1 DEF Handling
        <5>1. AtDetector(l) = <<v>>
          BY <4>1, <5>0, <1>3 DEF AtDetector
        <5>2. v \in Elements(Line(l))
          BY <5>1, LineParts, ElementsOne
        <5>3. v # g
          BY <5>0, <5>2, <3>2
        <5>4. Value(detector.answer, g) = v
          BY <5>3, <3>5 DEF Value, Answer
        <5> QED
          BY <4>1, <5>0, <5>1, <5>4, <1>1, <3>1 DEF AtDetector
      <4>2. CASE ~ (detector.from = l /\ detector.pc \in {"find", "wait"})
        BY <4>2, <1>1 DEF AtDetector
      <4> QED
        BY <4>1, <4>2
    <3> QED
      BY <3>1, <3>6, <3>7, <3>8, <1>3
  <2> QED
    BY <2>1, <2>2
<1>7. Line(l)' = Line(l)
  BY <1>1, <1>4, <1>6 DEF Line
<1> QED
  BY <1>1, <1>2, <1>4, <1>5, <1>6, <1>7

LEMMA LeafDomains ==
  ASSUME TypeOK
  PROVE  /\ DOMAIN answers = Leaves /\ DOMAIN examples = Leaves
         /\ DOMAIN classifier = Leaves /\ DOMAIN casts = Leaves
         /\ DOMAIN receiver = Leaves /\ DOMAIN leafSize = Leaves
         /\ DOMAIN ready = Leaves /\ DOMAIN used = Leaves
         /\ \A l \in Leaves : DOMAIN classifier[l] = {"pc", "example"}
BY DEF TypeOK

\* What a leaf does moves nothing out of its line.
LEMMA OtherLeaf ==
  ASSUME TypeOK, NEW k \in Leaves, NEW l \in Leaves, l # k, LeafThreads(k)
  PROVE  /\ answers'[l] = answers[l] /\ examples'[l] = examples[l]
         /\ classifier'[l] = classifier[l] /\ casts'[l] = casts[l]
         /\ receiver'[l] = receiver[l] /\ leafSize'[l] = leafSize[l]
         /\ ready'[l] = ready[l] /\ used'[l] = used[l]
<1>1. CASE Receive(k)
  BY <1>1 DEF Receive, TypeOK
<1>2. CASE CheckModel(k)
  BY <1>2 DEF CheckModel, TypeOK
<1>3. CASE AwaitModel(k)
  BY <1>3 DEF AwaitModel, TypeOK
<1>4. CASE IdentifyAndSend(k)
  BY <1>4 DEF IdentifyAndSend, TypeOK
<1>5. CASE Hear(k)
  BY <1>5 DEF Hear, TypeOK
<1>6. CASE AddHeard(k)
  BY <1>6 DEF AddHeard, TypeOK
<1> QED
  BY <1>1, <1>2, <1>3, <1>4, <1>5, <1>6 DEF LeafThreads, Classifier

LEMMA LeafRest ==
  ASSUME NEW k \in Leaves, LeafThreads(k)
  PROVE  /\ UNCHANGED <<tableVars, size, sampler, detector, output, endVars>>
         /\ Ghost' = Ghost /\ MarkerErased' = MarkerErased
         /\ \A l \in Leaves : /\ MarkerSent(l)' = MarkerSent(l)
                              /\ AtDetector(l)' = AtDetector(l)
                              /\ AtSampler(l)' = AtSampler(l)
<1>1. UNCHANGED leafRest
  BY DEF LeafThreads, Classifier, Receive, CheckModel, AwaitModel, IdentifyAndSend,
         Hear, AddHeard
<1>2. UNCHANGED <<tableVars, size, sampler, detector, output, endVars>>
  BY <1>1 DEF leafRest
<1>3. MarkerErased' = MarkerErased
  BY <1>2 DEF MarkerErased
<1>4. Ghost' = Ghost
  BY <1>2, <1>3 DEF Ghost
<1> QED
  BY <1>2, <1>3, <1>4 DEF MarkerSent, AtDetector, AtSampler

\* The move of one element through the middle of a line.
LEMMA ConcatFour ==
  ASSUME NEW d \in Seq(Nat), NEW a \in Seq(Nat), NEW v \in Nat, NEW r \in Seq(Nat)
  PROVE  (d \o Append(a, v)) \o r = (d \o a) \o (<<v>> \o r)
<1>1. Append(a, v) = a \o <<v>>
  BY AppendIsConcat, Zenon
<1>2. <<v>> \in Seq(Nat)
  OBVIOUS
<1>3. d \o a \in Seq(Nat)
  BY ElementsConcat
<1>4. d \o (a \o <<v>>) = (d \o a) \o <<v>>
  BY <1>2, ConcatAssociative
<1>5. ((d \o a) \o <<v>>) \o r = (d \o a) \o (<<v>> \o r)
  BY <1>2, <1>3, ConcatAssociative, SMTT(20)
<1> QED
  BY <1>1, <1>4, <1>5

LEMMA ReceiveLine ==
  ASSUME TypeOK, PlaceInv, LabelInv, NEW l \in Leaves, Receive(l)
  PROVE  /\ Line(l)' = Line(l)
         /\ Head(examples[l]) \in Answer /\ examples'[l] = Tail(examples[l])
         /\ examples[l] # <<>> /\ classifier[l].pc = "receive"
         /\ AtClassifier(l) = <<>>
         /\ \/ /\ Head(examples[l]).label = "eos"
               /\ answers'[l] = Append(answers[l], Head(examples[l]))
               /\ classifier'[l] = [classifier[l] EXCEPT !.pc = "done"]
               /\ AtClassifier(l)' = <<>>
            \/ /\ Head(examples[l]).label # "eos"
               /\ answers'[l] = answers[l]
               /\ classifier'[l] = [pc |-> "check", example |-> Head(examples[l])]
               /\ AtClassifier(l)' = <<Value(Head(examples[l]), Ghost)>>
<1> USE DEF Receive
<1>1. /\ classifier[l].pc = "receive" /\ examples[l] # <<>>
      /\ examples'[l] = Tail(examples[l])
      /\ AtClassifier(l) = <<>>
  BY DEF TypeOK, AtClassifier, Busy
<1>2. LeafThreads(l)
  BY DEF LeafThreads, Classifier
<1>3. Ghost' = Ghost /\ AtDetector(l)' = AtDetector(l) /\ AtSampler(l)' = AtSampler(l)
  BY <1>2, LeafRest
<1> DEFINE d == AtDetector(l)
           a == Values(answers[l], Ghost)
           e == Values(Tail(examples[l]), Ghost)
           s == AtSampler(l)
           h == Head(examples[l])
           v == Value(h, Ghost)
<1>4. d \in Seq(Nat) /\ a \in Seq(Nat) /\ s \in Seq(Nat)
      /\ h \in Answer /\ v \in Nat /\ Values(examples[l], Ghost) = <<v>> \o e
      /\ e \in Seq(Nat)
  BY <1>1, PartTypes, ValuesHead, ValuesType, ValueType
<1>5. e \o s \in Seq(Nat) /\ <<v>> \in Seq(Nat)
  BY <1>4, ElementsConcat
<1>6. Line(l) = (d \o a) \o (<<>> \o ((<<v>> \o e) \o s))
  BY <1>1, <1>4 DEF Line
<1>7. (<<v>> \o e) \o s = <<v>> \o (e \o s)
  BY <1>4, <1>5, ConcatAssociative, SMTT(20)
<1>8. <<v>> \o (e \o s) \in Seq(Nat)
  BY <1>5, ElementsConcat
<1>9. Line(l) = (d \o a) \o (<<v>> \o (e \o s))
  BY <1>6, <1>7, <1>8, ConcatEmptySeq
<1>10. CASE h.label = "eos"
  <2>1. /\ answers'[l] = Append(answers[l], h)
        /\ classifier'[l] = [classifier[l] EXCEPT !.pc = "done"]
    BY <1>10, LeafDomains
  <2>2. classifier'[l].pc = "done"
    BY <2>1, LeafDomains
  <2>3. AtClassifier(l)' = <<>>
    BY <2>2 DEF AtClassifier, Busy
  <2>4. Values(answers'[l], Ghost) = Append(a, v)
    <3>1. answers[l] \in Seq(Answer)
      BY PartTypes
    <3>2. Values(Append(answers[l], h), Ghost) = Append(a, v)
      BY <3>1, <1>4, ValuesAppend
    <3> QED
      BY <3>2, <2>1
  <2>5. Line(l)' = (d \o Append(a, v)) \o (<<>> \o (e \o s))
    BY <2>3, <2>4, <1>1, <1>3 DEF Line
  <2>6. Line(l)' = (d \o Append(a, v)) \o (e \o s)
    BY <2>5, <1>5, ConcatEmptySeq
  <2>7. Line(l)' = Line(l)
    <3> DEFINE es == e \o s
    <3>1. es \in Seq(Nat) /\ Line(l)' = (d \o Append(a, v)) \o es
          /\ Line(l) = (d \o a) \o (<<v>> \o es)
      BY <2>6, <1>5, <1>9
    <3>2. d \in Seq(Nat) /\ a \in Seq(Nat) /\ v \in Nat
      BY <1>4
    <3> HIDE DEF d, a, v, es
    <3> QED
      BY <3>1, <3>2, ConcatFour
  <2> QED
    BY <1>1, <1>4, <1>10, <2>1, <2>3, <2>7
<1>11. CASE h.label # "eos"
  <2>1. /\ answers'[l] = answers[l]
        /\ classifier'[l] = [pc |-> "check", example |-> h]
    BY <1>11, LeafDomains
  <2>2. AtClassifier(l)' = <<v>>
    BY <2>1, <1>3 DEF AtClassifier, Busy
  <2>3. Line(l)' = (d \o a) \o (<<v>> \o (e \o s))
    BY <2>1, <2>2, <1>1, <1>3 DEF Line
  <2> QED
    BY <1>1, <1>4, <1>9, <1>11, <2>1, <2>2, <2>3
<1> QED
  BY <1>10, <1>11

LEMMA IdentifyLine ==
  ASSUME TypeOK, PlaceInv, LabelInv, NEW l \in Leaves, IdentifyAndSend(l)
  PROVE  /\ Line(l)' = Line(l)
         /\ classifier[l].pc = "identify" /\ classifier'[l].pc = "receive"
         /\ AtClassifier(l) = <<Value(classifier[l].example, Ghost)>>
         /\ AtClassifier(l)' = <<>>
         /\ examples'[l] = examples[l]
         /\ \E c \in 0..(leafSize[l] - 1), label \in Answers :
              /\ answers'[l] = Append(answers[l], [id |-> classifier[l].example.id,
                                                   label |-> label])
              /\ used'[l] = [used[l] EXCEPT ![c] = @ + 1]
<1> USE DEF IdentifyAndSend
<1>1. PICK c \in 0..(leafSize[l] - 1), label \in Answers :
         /\ used' = [used EXCEPT ![l][c] = @ + 1]
         /\ answers' = [answers EXCEPT ![l] =
                          Append(@, [id |-> classifier[l].example.id, label |-> label])]
  OBVIOUS
<1> DEFINE x == [id |-> classifier[l].example.id, label |-> label]
<1>2. /\ classifier[l].pc = "identify" /\ classifier'[l].pc = "receive"
      /\ examples'[l] = examples[l] /\ answers'[l] = Append(answers[l], x)
      /\ used'[l] = [used[l] EXCEPT ![c] = @ + 1]
  BY <1>1, LeafDomains
<1>3. LeafThreads(l)
  BY DEF LeafThreads, Classifier
<1>4. Ghost' = Ghost /\ AtDetector(l)' = AtDetector(l) /\ AtSampler(l)' = AtSampler(l)
  BY <1>3, LeafRest
<1> DEFINE d == AtDetector(l)
           a == Values(answers[l], Ghost)
           e == Values(examples[l], Ghost)
           s == AtSampler(l)
           v == Value(classifier[l].example, Ghost)
<1>5. AtClassifier(l) = <<v>> /\ AtClassifier(l)' = <<>>
  BY <1>2 DEF AtClassifier, Busy
<1>6. classifier[l].example \in Answer /\ x \in Answer
      /\ classifier[l].example.label # "eos" /\ label # "eos"
  BY <1>2, PartTypes, Constants DEF Answer, Labels, LabelInv, Busy
<1>7. Value(x, Ghost) = v
  BY <1>6 DEF Value
<1>8. d \in Seq(Nat) /\ a \in Seq(Nat) /\ e \in Seq(Nat) /\ s \in Seq(Nat) /\ v \in Nat
  BY <1>6, PartTypes, ValueType
<1>9. e \o s \in Seq(Nat)
  BY <1>8, ElementsConcat
<1>10. Values(answers'[l], Ghost) = Append(a, v)
  <2>1. answers[l] \in Seq(Answer)
    BY PartTypes
  <2>2. Values(Append(answers[l], x), Ghost) = Append(a, Value(x, Ghost))
    BY <2>1, <1>6, ValuesAppend
  <2> QED
    BY <2>2, <1>2, <1>7
<1>11. Line(l) = (d \o a) \o (<<v>> \o (e \o s))
  BY <1>5 DEF Line
<1>12. Line(l)' = (d \o Append(a, v)) \o (<<>> \o (e \o s))
  BY <1>2, <1>4, <1>5, <1>10 DEF Line
<1>13. Line(l)' = (d \o Append(a, v)) \o (e \o s)
  BY <1>12, <1>9, ConcatEmptySeq
<1>14. Line(l)' = Line(l)
  <2> DEFINE es == e \o s
  <2>1. es \in Seq(Nat) /\ Line(l)' = (d \o Append(a, v)) \o es
        /\ Line(l) = (d \o a) \o (<<v>> \o es)
    BY <1>9, <1>11, <1>13
  <2>2. d \in Seq(Nat) /\ a \in Seq(Nat) /\ v \in Nat
    BY <1>8
  <2> HIDE DEF d, a, v, es, IdentifyAndSend
  <2>3. (d \o Append(a, v)) \o es = (d \o a) \o (<<v>> \o es)
    BY <2>1, <2>2, ConcatFour
  <2> QED
    BY <2>1, <2>3
<1> QED
  BY <1>1, <1>2, <1>5, <1>14

LEMMA QuietLeaf ==
  ASSUME TypeOK, NEW l \in Leaves,
         CheckModel(l) \/ AwaitModel(l) \/ Hear(l) \/ AddHeard(l)
  PROVE  /\ Line(l)' = Line(l) /\ AtClassifier(l)' = AtClassifier(l)
         /\ answers' = answers /\ examples' = examples /\ used' = used
         /\ classifier'[l].example = classifier[l].example
         /\ classifier'[l].pc \in Busy <=> classifier[l].pc \in Busy
         /\ classifier'[l].pc \notin Busy => classifier'[l].pc = classifier[l].pc
<1>1. LeafThreads(l)
  BY DEF LeafThreads, Classifier
<1>2. Ghost' = Ghost /\ AtDetector(l)' = AtDetector(l) /\ AtSampler(l)' = AtSampler(l)
  BY <1>1, LeafRest
<1>3. /\ answers' = answers /\ examples' = examples /\ used' = used
      /\ classifier'[l].example = classifier[l].example
      /\ classifier'[l].pc \in Busy <=> classifier[l].pc \in Busy
      /\ classifier'[l].pc \notin Busy => classifier'[l].pc = classifier[l].pc
  <2>1. CASE CheckModel(l)
    BY <2>1 DEF CheckModel, TypeOK, Busy
  <2>2. CASE AwaitModel(l)
    BY <2>2 DEF AwaitModel, TypeOK, Busy
  <2>3. CASE Hear(l) \/ AddHeard(l)
    BY <2>3 DEF Hear, AddHeard
  <2> QED
    BY <2>1, <2>2, <2>3
<1>4. AtClassifier(l)' = AtClassifier(l)
  BY <1>2, <1>3 DEF AtClassifier
<1>5. Line(l)' = Line(l)
  BY <1>2, <1>3, <1>4, SameParts
<1> QED
  BY <1>3, <1>4, <1>5

LEMMA LeafLines ==
  ASSUME TypeOK, PlaceInv, LabelInv, NEW k \in Leaves, LeafThreads(k), NEW l \in Leaves
  PROVE  Line(l)' = Line(l)
<1>1. CASE l # k
  <2>1. answers'[l] = answers[l] /\ examples'[l] = examples[l] /\ classifier'[l] = classifier[l]
    BY <1>1, OtherLeaf
  <2>2. Ghost' = Ghost /\ AtDetector(l)' = AtDetector(l) /\ AtSampler(l)' = AtSampler(l)
    BY LeafRest
  <2>3. AtClassifier(l)' = AtClassifier(l)
    BY <2>1, <2>2 DEF AtClassifier
  <2> QED
    BY <2>1, <2>2, <2>3, SameParts
<1>2. CASE l = k
  BY <1>2, ReceiveLine, IdentifyLine, QuietLeaf DEF LeafThreads, Classifier
<1> QED
  BY <1>1, <1>2

-----------------------------------------------------------------------------
\* The slot of an example that is out: a slot that is being filled may match
\* too, but comes later.
LEMMA SlotFound ==
  ASSUME TypeOK, PlaceInv, HeldInv, StaleInv,
         NEW l \in Leaves, NEW x \in Out(l)
  PROVE  \E s \in Slots :
           /\ Holds(s, l, x)
           /\ \A t \in Slots : slots[t] = l /\ table[t].id = x =>
                t = s \/ (Filling(t) /\ s < t)
<1>1. PICK s \in Slots : Holds(s, l, x)
  BY DEF HeldInv
<1>2. slots[s] = l /\ table[s].id = x /\ ~ Filling(s)
  BY <1>1 DEF Holds
<1>3. ASSUME NEW t \in Slots, slots[t] = l, table[t].id = x, t # s
      PROVE  Filling(t) /\ s < t
  <2>1. Filling(t)
    BY <1>2, <1>3 DEF HeldInv
  <2>2. sampler.pc = "fill" /\ t = sampler.slot
    BY <2>1 DEF Filling
  <2>3. table[t].id = 0 /\ t # 1
    BY <2>2, <1>3 DEF StaleInv
  <2>4. l # 0
    BY Constants
  <2>5. s = 1
    BY <2>3, <2>4, <1>2, <1>3 DEF StaleInv
  <2>6. t \in Nat /\ t # 0
    BY Constants
  <2> QED
    BY <2>1, <2>3, <2>5, <2>6
<1> QED
  BY <1>1, <1>3

LEMMA LookUpFinds ==
  ASSUME TypeOK, LineInv, PlaceInv, HeldInv, StaleInv, LabelInv,
         detector.pc = "find", SlotsOfAnswer # {}
  PROVE  /\ Value(detector.answer, Ghost) = detector.answer.id
         /\ detector.from \in Leaves
         /\ Min(SlotsOfAnswer) \in Slots
         /\ Holds(Min(SlotsOfAnswer), detector.from, detector.answer.id)
<1> DEFINE l == detector.from
           x == detector.answer.id
           v == Value(detector.answer, Ghost)
<1>1. l \in Leaves /\ x \in Nat
  BY DEF PlaceInv, TypeOK, Answer
<1>2. AtDetector(l) = <<v>>
  BY DEF AtDetector, Handling
<1>3. v \in Nat
  BY <1>1, PartTypes, ValueType
<1>4. /\ Line(l) = <<v>> \o Rest(l) /\ Rest(l) \in Seq(Nat) /\ Line(l) \in Seq(Nat)
      /\ Increasing(Line(l))
  BY <1>1, <1>2, LineParts, PartTypes DEF LineInv
<1>5. Line(l) # <<>> /\ Head(Line(l)) = v /\ Tail(Line(l)) = Rest(l)
  BY <1>3, <1>4, ConcatMoves
<1>6. v \in Elements(Line(l)) /\ \A y \in Elements(Rest(l)) : v < y /\ y \in Elements(Line(l))
  <2> DEFINE s == Line(l)
  <2>1. s \in Seq(Nat) /\ Increasing(s) /\ s # <<>> /\ Head(s) = v /\ Tail(s) = Rest(l)
    BY <1>4, <1>5
  <2> HIDE DEF s, v
  <2>2. v \in Elements(s) /\ \A y \in Elements(Rest(l)) : v < y /\ y \in Elements(s)
    BY <2>1, IncreasingTail
  <2> QED
    BY <2>2 DEF s
<1>7. v = x
  <2> SUFFICES ASSUME v # x
               PROVE  FALSE
    OBVIOUS
  <2>1. detector.answer.label # "eos"
    BY Constants DEF LabelInv
  <2>2. v = End /\ x = Ghost
    BY <2>1 DEF Value
  <2>3. MarkerErased
    BY <2>2, <1>1 DEF Ghost
  <2>4. sampler.pc # "fill"
    BY <2>3 DEF MarkerErased
  <2>5. \A y \in Elements(Line(l)) : y <= End
    <3>1. sampler.id \in Nat /\ sampler.id <= End /\ End \in Nat
      BY <1>1, PartTypes, Constants
    <3>2. \A y \in Elements(Line(l)) : y \in 0..(sampler.id - 1) \/ y = End
      BY <1>1 DEF LineInv
    <3> QED
      BY <3>1, <3>2
  <2>6. Elements(Rest(l)) = {}
    <3>1. \A y \in Elements(Rest(l)) : y \in Nat
      BY <1>4 DEF Elements
    <3> QED
      BY <3>1, <2>2, <2>5, <1>6, Constants
  <2>7. Elements(Line(l)) = {End}
    BY <2>2, <2>6, <1>1, <1>2, LineParts, ElementsOne
  <2>8. Out(l) = {}
    BY <2>7 DEF Out
  <2>9. PICK s \in Slots : slots[s] = l /\ table[s].id = x
    BY DEF SlotsOfAnswer
  <2>10. ~ Filling(s)
    BY <2>4 DEF Filling
  <2> QED
    BY <2>8, <2>9, <2>10, <1>1 DEF HeldInv
<1>8. x \in Out(l)
  <2>1. x # End
    <3>1. v \in 0..(sampler.id - 1) \/ v = End
      BY <1>1, <1>6 DEF LineInv
    <3>2. PICK s \in Slots : slots[s] = l /\ table[s].id = x
      BY DEF SlotsOfAnswer
    <3>3. table[s].id < sampler.id \/ table[s].id = 0
      BY DEF StaleInv
    <3>4. sampler.id \in Nat /\ sampler.id <= End /\ End \in Nat \ {0}
      BY <1>1, PartTypes, Constants
    <3> QED
      BY <3>2, <3>3, <3>4, <1>1
  <2> QED
    BY <2>1, <1>6, <1>7 DEF Out
<1>9. PICK s \in Slots :
        /\ Holds(s, l, x)
        /\ \A t \in Slots : slots[t] = l /\ table[t].id = x =>
             t = s \/ (Filling(t) /\ s < t)
  BY <1>1, <1>8, SlotFound
<1>10. s \in SlotsOfAnswer /\ SlotsOfAnswer \subseteq Slots /\ Slots \subseteq Nat
  BY <1>9, Constants DEF SlotsOfAnswer, Holds
<1>11. Min(SlotsOfAnswer) \in SlotsOfAnswer /\ Min(SlotsOfAnswer) <= s
  BY <1>10, MinFacts
<1>12. Min(SlotsOfAnswer) = s
  <2> DEFINE t == Min(SlotsOfAnswer)
  <2>1. t \in Slots /\ slots[t] = l /\ table[t].id = x
    BY <1>11 DEF SlotsOfAnswer
  <2>2. t = s \/ s < t
    BY <2>1, <1>9
  <2>3. t \in Nat /\ s \in Nat
    BY <1>10, <2>1
  <2> QED
    BY <2>2, <2>3, <1>11
<1> QED
  BY <1>1, <1>7, <1>9, <1>12

LEMMA DetectorRest ==
  ASSUME Detector
  PROVE  /\ UNCHANGED <<sampler, examples, leafVars, endVars>>
         /\ Ghost' = Ghost /\ MarkerErased' = MarkerErased
         /\ \A l \in Leaves : /\ MarkerSent(l)' = MarkerSent(l)
                              /\ AtClassifier(l)' = AtClassifier(l)
                              /\ AtSampler(l)' = AtSampler(l)
         /\ \A s \in Slots : Filling(s)' = Filling(s)
<1>1. UNCHANGED detectorRest
  BY DEF Detector, Take, LookUp, AwaitChange, SetLabel, PrintAnswer, SortAnswer,
         CastNew, FreeSlot, PostSlot, CastEos
<1>2. UNCHANGED <<sampler, examples, leafVars, endVars>>
  BY <1>1 DEF detectorRest
<1>3. MarkerErased' = MarkerErased
  BY <1>2 DEF MarkerErased
<1>4. Ghost' = Ghost
  BY <1>2, <1>3 DEF Ghost
<1> QED
  BY <1>2, <1>3, <1>4 DEF MarkerSent, AtClassifier, AtSampler, leafVars, Filling

LEMMA QuietDetector ==
  ASSUME TypeOK, LineInv, PlaceInv, HeldInv, StaleInv, LabelInv, NEW l \in Leaves,
         \/ LookUp \/ AwaitChange \/ SetLabel \/ PrintAnswer \/ SortAnswer
         \/ CastNew \/ PostSlot \/ CastEos
  PROVE  Line(l)' = Line(l) /\ answers' = answers
<1>1. Detector
  BY DEF Detector
<1>2. /\ UNCHANGED <<sampler, examples, leafVars, endVars>>
      /\ Ghost' = Ghost /\ AtClassifier(l)' = AtClassifier(l) /\ AtSampler(l)' = AtSampler(l)
  BY <1>1, DetectorRest
<1>3. answers' = answers
  BY DEF LookUp, AwaitChange, SetLabel, PrintAnswer, SortAnswer, CastNew, PostSlot, CastEos
<1>4. AtDetector(l)' = AtDetector(l)
  <2>0. DOMAIN detector = {"pc", "from", "answer", "slot", "streams", "id",
                           "lastNDCheck", "unknowns", "cast"}
    BY DEF TypeOK
  <2>1. CASE LookUp
    <3>1. CASE SlotsOfAnswer = {}
      <4>1. detector.pc = "find" /\ detector' = [detector EXCEPT !.pc = "wait"]
        BY <2>1, <3>1 DEF LookUp, DetectorGoes
      <4>2. /\ detector'.pc = "wait" /\ detector'.from = detector.from
            /\ detector'.answer = detector.answer
        BY <4>1, <2>0
      <4> QED
        BY <4>1, <4>2, <1>2 DEF AtDetector, Handling
    <3>2. CASE SlotsOfAnswer # {}
      <4>1. detector.pc = "find"
            /\ detector' = [detector EXCEPT !.pc = "label", !.slot = Min(SlotsOfAnswer)]
        BY <2>1, <3>2 DEF LookUp
      <4>2. /\ detector'.pc = "label" /\ detector'.from = detector.from
            /\ detector'.answer = detector.answer
        BY <4>1, <2>0
      <4>3. Value(detector.answer, Ghost) = detector.answer.id
        BY <4>1, <3>2, LookUpFinds
      <4> QED
        BY <4>1, <4>2, <4>3 DEF AtDetector, Handling
    <3> QED
      BY <3>1, <3>2
  <2>2. CASE AwaitChange
    <3>1. /\ detector.pc = "wait" /\ detector'.pc = "find"
          /\ detector'.from = detector.from /\ detector'.answer = detector.answer
      BY <2>2, <2>0 DEF AwaitChange, DetectorGoes
    <3> QED
      BY <3>1, <1>2 DEF AtDetector, Handling
  <2>3. CASE SetLabel \/ PrintAnswer \/ SortAnswer \/ CastNew
    <3>1. /\ detector.pc \in Handling /\ detector'.pc \in Handling
          /\ detector'.from = detector.from /\ detector'.answer = detector.answer
      <4>1. CASE SetLabel
        BY <4>1, <2>0 DEF SetLabel, DetectorGoes, Handling
      <4>2. CASE PrintAnswer
        BY <4>2, <2>0 DEF PrintAnswer, DetectorGoes, Handling
      <4>3. CASE SortAnswer
        BY <4>3, <2>0 DEF SortAnswer, Handling
      <4>4. CASE CastNew
        BY <4>4, <2>0 DEF CastNew, DetectorGoes, Handling
      <4> QED
        BY <2>3, <4>1, <4>2, <4>3, <4>4
    <3> QED
      BY <3>1 DEF AtDetector
  <2>4. CASE PostSlot \/ CastEos
    <3>1. /\ detector.pc \notin Handling \cup {"find", "wait"}
          /\ detector'.pc \notin Handling \cup {"find", "wait"}
      BY <2>4, <2>0 DEF PostSlot, CastEos, DetectorGoes, Handling
    <3> QED
      BY <3>1 DEF AtDetector
  <2> QED
    BY <2>1, <2>2, <2>3, <2>4
<1> QED
  BY <1>2, <1>3, <1>4, SameParts

LEMMA TakeLine ==
  ASSUME TypeOK, PlaceInv, NEW k \in Leaves, Take(k), NEW l \in Leaves
  PROVE  /\ Head(answers[k]) \in Answer /\ answers[k] # <<>>
         /\ answers'[l] = IF l = k THEN Tail(answers[k]) ELSE answers[l]
         /\ Head(answers[k]).label # "eos" =>
              /\ Line(l)' = Line(l)
              /\ detector' = [detector EXCEPT !.pc = "find", !.from = k,
                                              !.answer = Head(answers[k])]
         /\ Head(answers[k]).label = "eos" =>
              /\ l # k => Line(l)' = Line(l)
              /\ l = k => /\ Line(l) # <<>> /\ Head(Line(l)) = End
                          /\ Line(l)' = Tail(Line(l))
              /\ detector' = [detector EXCEPT !.streams = @ - 1]
<1>1. Detector
  BY DEF Detector
<1>2. /\ UNCHANGED <<sampler, examples, leafVars, endVars>>
      /\ Ghost' = Ghost /\ AtClassifier(l)' = AtClassifier(l) /\ AtSampler(l)' = AtSampler(l)
  BY <1>1, DetectorRest
<1> DEFINE h == Head(answers[k])
           v == Value(h, Ghost)
<1>3. /\ detector.pc = "take" /\ answers[k] # <<>>
      /\ answers'[l] = IF l = k THEN Tail(answers[k]) ELSE answers[l]
      /\ h.label = "eos" => detector' = [detector EXCEPT !.streams = @ - 1]
      /\ h.label # "eos" => detector' = [detector EXCEPT !.pc = "find", !.from = k,
                                                         !.answer = h]
  BY LeafDomains DEF Take
<1>4. DOMAIN detector = {"pc", "from", "answer", "slot", "streams", "id",
                         "lastNDCheck", "unknowns", "cast"}
  BY DEF TypeOK
<1>5. answers[k] \in Seq(Answer)
  BY PartTypes
<1>6. /\ h \in Answer /\ Tail(answers[k]) \in Seq(Answer)
      /\ <<v>> \o Values(Tail(answers[k]), Ghost) = Values(answers[k], Ghost)
  BY <1>3, <1>5, ValuesHead
<1>7. v \in Nat /\ Values(Tail(answers[k]), Ghost) \in Seq(Nat)
  BY <1>6, ValueType, ValuesType
<1>8. AtDetector(l) = <<>>
  BY <1>3 DEF AtDetector, Handling
<1>9. AtDetector(l)' = IF l = k /\ h.label # "eos" THEN <<v>> ELSE <<>>
  <2>1. CASE h.label = "eos"
    <3>1. detector'.pc = "take"
      BY <2>1, <1>3, <1>4
    <3> QED
      BY <2>1, <3>1 DEF AtDetector, Handling
  <2>2. CASE h.label # "eos"
    <3>1. detector'.pc = "find" /\ detector'.from = k /\ detector'.answer = h
      BY <2>2, <1>3, <1>4
    <3> QED
      BY <2>2, <3>1, <1>2 DEF AtDetector, Handling
  <2> QED
    BY <2>1, <2>2
<1>10. CASE l # k
  <2>1. Line(l)' = Line(l)
    BY <1>10, <1>2, <1>3, <1>8, <1>9, SameParts
  <2> QED
    BY <2>1, <1>3, <1>6, <1>10
<1>11. CASE l = k
  <2> DEFINE a == Values(Tail(answers[k]), Ghost)
             r == AtClassifier(l) \o (Values(examples[l], Ghost) \o AtSampler(l))
  <2>1. Values(examples[l], Ghost) \o AtSampler(l) \in Seq(Nat)
    BY PartTypes, ElementsConcat
  <2>2. r \in Seq(Nat) /\ a \in Seq(Nat)
    BY <2>1, <1>7, PartTypes, ElementsConcat
  <2>3. Line(l) = (<<>> \o (<<v>> \o a)) \o r
    BY <1>6, <1>8, <1>11 DEF Line
  <2>4. Line(l)' = (AtDetector(l)' \o a) \o r
    BY <1>2, <1>3, <1>11 DEF Line
  <2> HIDE DEF a, r
  <2>5. <<v>> \o a \in Seq(Nat) /\ <<v>> \in Seq(Nat)
    BY <1>7, <2>2, ElementsConcat
  <2>6. Line(l) = (<<v>> \o a) \o r
    BY <2>3, <2>5, ConcatEmptySeq
  <2>7. CASE h.label # "eos"
    <3>1. Line(l)' = Line(l)
      BY <2>4, <2>6, <2>7, <1>9, <1>11
    <3> QED
      BY <3>1, <2>7, <1>3, <1>6, <1>11
  <2>8. CASE h.label = "eos"
    <3>1. v = End
      BY <2>8 DEF Value
    <3>0. AtDetector(l)' = <<>> /\ <<>> \o a = a
      BY <2>2, <2>8, <1>9, ConcatEmptySeq
    <3>2. Line(l)' = a \o r /\ a \o r \in Seq(Nat)
      BY <3>0, <2>2, <2>4, ElementsConcat
    <3>3. Line(l) = <<v>> \o (a \o r)
      <4> HIDE DEF v
      <4>1. (<<v>> \o a) \o r = <<v>> \o (a \o r)
        BY <2>2, <2>5, ConcatAssociative
      <4> QED
        BY <4>1, <2>6
    <3>4. Line(l) # <<>> /\ Head(Line(l)) = v /\ Tail(Line(l)) = a \o r
      <4> HIDE DEF v
      <4> QED
        BY <3>2, <3>3, <1>7, ConcatHead
    <3> QED
      BY <3>1, <3>2, <3>4, <2>8, <1>3, <1>6, <1>11
  <2> QED
    BY <2>7, <2>8
<1> QED
  BY <1>10, <1>11

LEMMA FreeLine ==
  ASSUME TypeOK, PlaceInv, FreeSlot, NEW l \in Leaves
  PROVE  /\ detector.from \in Leaves /\ answers' = answers
         /\ detector'.pc = "post" /\ detector'.from = detector.from
         /\ l # detector.from => Line(l)' = Line(l)
         /\ l = detector.from => /\ Line(l) # <<>> /\ Head(Line(l)) = detector.answer.id
                                 /\ Line(l)' = Tail(Line(l))
<1>1. Detector
  BY DEF Detector
<1>2. /\ UNCHANGED <<sampler, examples, leafVars, endVars>>
      /\ Ghost' = Ghost /\ AtClassifier(l)' = AtClassifier(l) /\ AtSampler(l)' = AtSampler(l)
  BY <1>1, DetectorRest
<1>3. /\ detector.pc = "free" /\ detector'.pc = "post" /\ detector'.from = detector.from
      /\ answers' = answers
  BY DEF FreeSlot, DetectorGoes, TypeOK
<1>4. detector.from \in Leaves
  BY <1>3 DEF PlaceInv, Handling
<1> DEFINE v == detector.answer.id
<1>5. /\ AtDetector(l) = IF l = detector.from THEN <<v>> ELSE <<>>
      /\ AtDetector(l)' = <<>>
  BY <1>3 DEF AtDetector, Handling
<1>6. CASE l # detector.from
  BY <1>2, <1>3, <1>4, <1>5, <1>6, SameParts
<1>7. CASE l = detector.from
  <2>1. Rest(l)' = Rest(l)
    BY <1>2, <1>3 DEF Rest
  <2>2. Line(l) = <<v>> \o Rest(l) /\ Rest(l) \in Seq(Nat) /\ v \in Nat
    BY <1>5, <1>7, LineParts, PartTypes DEF Answer
  <2>3. Line(l)' = Rest(l)
    <3> DEFINE a == Values(answers[l], Ghost)
               r == AtClassifier(l) \o (Values(examples[l], Ghost) \o AtSampler(l))
    <3>1. Line(l)' = (<<>> \o a) \o r /\ Rest(l) = a \o r
      BY <1>2, <1>3, <1>5 DEF Line, Rest
    <3>2. a \in Seq(Nat)
      BY PartTypes
    <3> QED
      BY <3>1, <3>2, ConcatEmptySeq
  <2>4. Line(l) # <<>> /\ Head(Line(l)) = v /\ Tail(Line(l)) = Rest(l)
    BY <2>2, ConcatMoves
  <2> QED
    BY <2>3, <2>4, <1>3, <1>4, <1>7
<1> QED
  BY <1>6, <1>7

-----------------------------------------------------------------------------
\* Types.
SamplerType == [pc : {"read", "find", "wait", "fill", "send", "mark", "pack", "eos", "done"},
                id : 0..MaxExamples, dest : 0..NLeaves, slot : 0..NSlots, marker : Example]
DetectorPlaces == {"take", "find", "wait", "label", "print", "sort",
                   "cast", "free", "post", "end", "done", "failed"}
DetectorType == [pc : DetectorPlaces,
                 from : 0..NLeaves, answer : Answer, slot : 0..NSlots,
                 streams : 0..NLeaves, id : Nat, lastNDCheck : Nat,
                 unknowns : SUBSET Nat, cast : Nat]

\* The next slot for a leaf, and the leaf of a freed slot.
LEMMA FreeSlotFacts ==
  ASSUME TypeOK, NEW d \in Leaves, FreeSlots(d) # {}
  PROVE  /\ Min(FreeSlots(d)) \in FreeSlots(d) /\ Min(FreeSlots(d)) \in Slots
         /\ \A s \in FreeSlots(d) : Min(FreeSlots(d)) <= s
<1>1. FreeSlots(d) \subseteq Slots /\ FreeSlots(d) \in SUBSET Nat
  BY Constants DEF FreeSlots
<1> QED
  BY <1>1, MinFacts

LEMMA NextDest ==
  ASSUME TypeOK
  PROVE  (sampler.dest % NLeaves) + 1 \in Leaves
<1>1. sampler.dest \in Nat /\ NLeaves \in Nat /\ NLeaves > 0
  BY Constants DEF TypeOK
<1>2. sampler.dest % NLeaves \in 0..(NLeaves - 1)
  BY <1>1
<1> QED
  BY <1>1, <1>2 DEF Leaves

\* One field of a record at a time.
LEMMA SamplerSets ==
  ASSUME NEW P, NEW I, NEW D, NEW S, NEW M,
         NEW r \in [pc : P, id : I, dest : D, slot : S, marker : M], NEW p \in P
  PROVE  /\ [r EXCEPT !.pc = p] \in [pc : P, id : I, dest : D, slot : S, marker : M]
         /\ \A i \in I : [r EXCEPT !.pc = p, !.id = i]
                             \in [pc : P, id : I, dest : D, slot : S, marker : M]
         /\ \A d \in D : [r EXCEPT !.pc = p, !.dest = d]
                             \in [pc : P, id : I, dest : D, slot : S, marker : M]
         /\ \A d \in D : [r EXCEPT !.dest = d]
                             \in [pc : P, id : I, dest : D, slot : S, marker : M]
         /\ \A d \in D, t \in S : [r EXCEPT !.pc = p, !.dest = d, !.slot = t]
                             \in [pc : P, id : I, dest : D, slot : S, marker : M]
         /\ \A m \in M : [r EXCEPT !.pc = p, !.marker = m]
                             \in [pc : P, id : I, dest : D, slot : S, marker : M]
OBVIOUS

LEMMA SamplerSteps ==
  ASSUME sampler \in SamplerType,
         NEW p \in {"read", "find", "wait", "fill", "send", "mark", "pack", "eos", "done"}
  PROVE  /\ [sampler EXCEPT !.pc = p] \in SamplerType
         /\ \A i \in 0..MaxExamples : [sampler EXCEPT !.pc = p, !.id = i] \in SamplerType
         /\ \A d \in 0..NLeaves : [sampler EXCEPT !.pc = p, !.dest = d] \in SamplerType
         /\ \A d \in 0..NLeaves : [sampler EXCEPT !.dest = d] \in SamplerType
         /\ \A d \in 0..NLeaves, t \in 0..NSlots :
              [sampler EXCEPT !.pc = p, !.dest = d, !.slot = t] \in SamplerType
         /\ \A m \in Example : [sampler EXCEPT !.pc = p, !.marker = m] \in SamplerType
BY SamplerSets DEF SamplerType

LEMMA SamplerTypes ==
  ASSUME TypeOK, PlaceInv, Sampler
  PROVE  TypeOK'
<1>0. /\ sampler \in SamplerType
      /\ slots \in [Slots -> 0..(2 * NLeaves + 1)] /\ table \in [Slots -> Example]
      /\ slotFree \in Nat /\ size \in 0..MaxClusters
      /\ examples \in [Leaves -> Seq(Example)]
      /\ casts \in [Leaves -> Seq(ClusterIds \cup {EosCast})]
  BY DEF TypeOK, SamplerType
<1>1. UNCHANGED samplerRest
  BY DEF Sampler, ReadCluster, ReadExample, FindSlot, AwaitSlot, FillSlot, SendExample,
         EndOfInput, MarkLast, PackMarker, SendMarker
<1> SUFFICES /\ sampler' \in SamplerType
             /\ slots' \in [Slots -> 0..(2 * NLeaves + 1)] /\ table' \in [Slots -> Example]
             /\ slotFree' \in Nat /\ size' \in 0..MaxClusters
             /\ examples' \in [Leaves -> Seq(Example)]
             /\ casts' \in [Leaves -> Seq(ClusterIds \cup {EosCast})]
  BY <1>1 DEF TypeOK, SamplerType, samplerRest, leafVars, endVars
<1>2. CASE ReadCluster
  <2>1. /\ size' = size + 1 /\ size < MaxLines
        /\ casts' = [l \in Leaves |-> Append(casts[l], size)]
        /\ UNCHANGED <<sampler, examples, tableVars>>
    BY <1>2 DEF ReadCluster, Broadcast
  <2>2. size \in ClusterIds /\ size' \in 0..MaxClusters
    BY <2>1, <1>0, Constants DEF ClusterIds
  <2>3. casts' \in [Leaves -> Seq(ClusterIds \cup {EosCast})]
    BY <2>1, <2>2, <1>0
  <2> QED
    BY <2>1, <2>2, <2>3, <1>0 DEF tableVars
<1>s. \A p \in {"read", "find", "wait", "fill", "send", "mark", "pack", "eos", "done"} :
        /\ [sampler EXCEPT !.pc = p] \in SamplerType
        /\ \A i \in 0..MaxExamples : [sampler EXCEPT !.pc = p, !.id = i] \in SamplerType
        /\ \A d \in 0..NLeaves : [sampler EXCEPT !.pc = p, !.dest = d] \in SamplerType
        /\ \A d \in 0..NLeaves : [sampler EXCEPT !.dest = d] \in SamplerType
        /\ \A d \in 0..NLeaves, t \in 0..NSlots :
             [sampler EXCEPT !.pc = p, !.dest = d, !.slot = t] \in SamplerType
        /\ \A m \in Example : [sampler EXCEPT !.pc = p, !.marker = m] \in SamplerType
  BY <1>0, SamplerSteps
<1>f. sampler.id \in 0..MaxExamples /\ sampler.dest \in 0..NLeaves /\ sampler.slot \in 0..NSlots
      /\ sampler.marker \in Example
  BY <1>0 DEF SamplerType
<1>3. CASE ReadExample \/ EndOfInput
  <2>1. sampler' = [sampler EXCEPT !.pc = "find"]
        \/ sampler' = [sampler EXCEPT !.pc = "mark", !.dest = 1]
    BY <1>3 DEF ReadExample, EndOfInput, SamplerGoes
  <2>2. 1 \in 0..NLeaves
    BY Constants
  <2>3. sampler' \in SamplerType
    <3>1. [sampler EXCEPT !.pc = "mark", !.dest = 1] \in SamplerType
      BY <2>2, <1>s
    <3>2. [sampler EXCEPT !.pc = "find"] \in SamplerType
      BY <1>s
    <3> QED
      BY <2>1, <3>1, <3>2
  <2> QED
    BY <2>3, <1>0, <1>3 DEF ReadExample, EndOfInput, tableVars
<1>4. CASE FindSlot
  <2> DEFINE d == (sampler.dest % NLeaves) + 1
  <2>1. d \in Leaves /\ d \in 0..NLeaves /\ d \in 0..(2 * NLeaves + 1)
    BY NextDest, Constants DEF Leaves
  <2> HIDE DEF d
  <2>2. IF FreeSlots(d) = {}
          THEN /\ sampler' = [sampler EXCEPT !.pc = "wait", !.dest = d]
               /\ UNCHANGED slots
          ELSE /\ sampler' = [sampler EXCEPT !.pc = "fill", !.dest = d,
                                             !.slot = Min(FreeSlots(d))]
               /\ slots' = [slots EXCEPT ![Min(FreeSlots(d))] = d]
    BY <1>4 DEF FindSlot, d
  <2>3. CASE FreeSlots(d) = {}
    <3>1. [sampler EXCEPT !.pc = "wait", !.dest = d] \in SamplerType
      BY <2>1, <1>s
    <3>2. sampler' \in SamplerType
      BY <3>1, <2>2, <2>3
    <3> QED
      BY <3>2, <2>2, <2>3, <1>0, <1>4 DEF FindSlot
  <2>4. CASE FreeSlots(d) # {}
    <3>1. Min(FreeSlots(d)) \in Slots /\ Min(FreeSlots(d)) \in 0..NSlots
      BY <2>1, <2>4, FreeSlotFacts, Constants DEF Slots
    <3> DEFINE m == Min(FreeSlots(d))
    <3> HIDE DEF m
    <3>5. [sampler EXCEPT !.pc = "fill", !.dest = d, !.slot = m] \in SamplerType
      BY <2>1, <3>1, <1>s DEF m
    <3>2. sampler' \in SamplerType
      BY <2>2, <2>4, <3>5 DEF m
    <3>3. slots' \in [Slots -> 0..(2 * NLeaves + 1)]
      BY <2>1, <2>2, <2>4, <3>1, <1>0
    <3> QED
      BY <3>2, <3>3, <1>0, <1>4 DEF FindSlot
  <2> QED
    BY <2>3, <2>4
<1>5. CASE AwaitSlot
  <2>1. sampler' \in SamplerType
    BY <1>5, <1>s DEF AwaitSlot, SamplerGoes
  <2>2. slotFree' \in Nat
    BY <1>5, <1>0 DEF AwaitSlot
  <2> QED
    BY <2>1, <2>2, <1>0, <1>5 DEF AwaitSlot
<1>6. CASE FillSlot
  <2>1. /\ sampler.id \in 0..MaxExamples /\ sampler.id < MaxExamples /\ sampler.slot \in Slots
        /\ MaxExamples \in Nat
    BY <1>f, <1>6, Constants DEF FillSlot, PlaceInv
  <2>2. sampler.id + 1 \in 0..MaxExamples /\ sampler.id \in Nat
    BY <2>1
  <2>3. table' \in [Slots -> Example]
    BY <2>1, <2>2, <1>0, <1>6 DEF FillSlot, Example
  <2>4. sampler' \in SamplerType
    <3>1. sampler' = [sampler EXCEPT !.pc = "send", !.id = sampler.id + 1]
      BY <1>6 DEF FillSlot
    <3> QED
      BY <3>1, <2>2, <1>s
  <2> QED
    BY <2>3, <2>4, <1>0, <1>6 DEF FillSlot
<1>7. CASE SendExample
  <2>1. sampler.slot \in Slots /\ sampler.dest \in Leaves
    BY <1>7, <1>f, Constants DEF SendExample, PlaceInv
  <2>2. table[sampler.slot] \in Example
    BY <2>1, <1>0
  <2> QED
    <3>1. sampler' \in SamplerType
      BY <1>7, <1>s DEF SendExample, SamplerGoes
    <3>2. examples' \in [Leaves -> Seq(Example)]
      <4>1. examples[sampler.dest] \in Seq(Example)
        BY <2>1, <1>0
      <4>2. Append(examples[sampler.dest], table[sampler.slot]) \in Seq(Example)
        BY <4>1, <2>2
      <4>3. examples' = [examples EXCEPT ![sampler.dest] =
                           Append(examples[sampler.dest], table[sampler.slot])]
        BY <1>7 DEF SendExample
      <4> QED
        BY <4>2, <4>3, <1>0
    <3> QED
      BY <3>1, <3>2, <1>0, <1>7 DEF SendExample, tableVars
<1>8. CASE MarkLast
  <2>1. sampler' \in SamplerType
    BY <1>8, <1>s DEF MarkLast, SamplerGoes
  <2>2. table' \in [Slots -> Example]
    <3>1. table' = [table EXCEPT ![sampler.slot].label = "eos"]
      BY <1>8 DEF MarkLast
    <3>2. "eos" \in Labels
      BY DEF Labels
    <3> QED
      BY <3>1, <3>2, <1>0 DEF Example
  <2> QED
    BY <2>1, <2>2, <1>0, <1>8 DEF MarkLast
<1>9. CASE PackMarker
  <2>1. sampler.slot \in Slots
    BY <1>9, <1>f, Constants DEF PackMarker, PlaceInv
  <2>2. sampler' = [sampler EXCEPT !.pc = "eos", !.marker = table[sampler.slot]]
        /\ table[sampler.slot] \in Example
    BY <2>1, <1>0, <1>9 DEF PackMarker
  <2>3. sampler' \in SamplerType
    BY <2>2, <1>s
  <2> QED
    BY <2>3, <1>0, <1>9 DEF PackMarker, tableVars
<1>10. CASE SendMarker
  <2>1. sampler.dest \in Leaves /\ sampler.marker \in Example /\ NLeaves \in Nat
    BY <1>10, <1>f, Constants DEF SendMarker, PlaceInv
  <2>2. sampler.dest # NLeaves => sampler.dest + 1 \in 0..NLeaves
    BY <2>1 DEF Leaves
  <2>3. sampler' \in SamplerType
    <3>1. CASE sampler.dest = NLeaves
      BY <3>1, <1>10, <1>s DEF SendMarker
    <3>2. CASE sampler.dest # NLeaves
      <4>1. sampler' = [sampler EXCEPT !.dest = sampler.dest + 1]
        BY <3>2, <1>10 DEF SendMarker
      <4> QED
        BY <4>1, <3>2, <2>2, <1>s
    <3> QED
      BY <3>1, <3>2
  <2>4. examples' \in [Leaves -> Seq(Example)]
    <3>1. Append(examples[sampler.dest], sampler.marker) \in Seq(Example)
      BY <2>1, <1>0
    <3>2. examples' = [examples EXCEPT ![sampler.dest] =
                         Append(examples[sampler.dest], sampler.marker)]
      BY <1>10 DEF SendMarker
    <3> QED
      BY <3>1, <3>2, <1>0
  <2> QED
    BY <2>3, <2>4, <1>0, <1>10 DEF SendMarker, tableVars
<1> QED
  BY <1>2, <1>3, <1>4, <1>5, <1>6, <1>7, <1>8, <1>9, <1>10 DEF Sampler

ClassifierType == [pc : {"receive", "check", "wait", "identify", "done"}, example : Example]
ReceiverType == [pc : {"hear", "add", "done", "failed"}, cluster : 0..MaxClusters]

LEMMA LeafTypes ==
  ASSUME TypeOK, PlaceInv, CastInv, NEW l \in Leaves, LeafThreads(l)
  PROVE  TypeOK'
<1>0. /\ examples \in [Leaves -> Seq(Example)] /\ answers \in [Leaves -> Seq(Answer)]
      /\ casts \in [Leaves -> Seq(ClusterIds \cup {EosCast})]
      /\ leafSize \in [Leaves -> 0..MaxClusters] /\ ready \in [Leaves -> 0..1]
      /\ classifier \in [Leaves -> ClassifierType]
      /\ receiver \in [Leaves -> ReceiverType]
      /\ used \in [Leaves -> [ClusterIds -> Nat]]
  BY DEF TypeOK, ClassifierType, ReceiverType
<1>1. UNCHANGED <<tableVars, size, sampler, detector, output, endVars>>
  BY LeafRest
<1> SUFFICES /\ examples' \in [Leaves -> Seq(Example)] /\ answers' \in [Leaves -> Seq(Answer)]
             /\ casts' \in [Leaves -> Seq(ClusterIds \cup {EosCast})]
             /\ leafSize' \in [Leaves -> 0..MaxClusters] /\ ready' \in [Leaves -> 0..1]
             /\ classifier' \in [Leaves -> ClassifierType]
             /\ receiver' \in [Leaves -> ReceiverType]
             /\ used' \in [Leaves -> [ClusterIds -> Nat]]
  BY <1>1 DEF TypeOK, tableVars, endVars, ClassifierType, ReceiverType
<1>c. /\ classifier[l] \in ClassifierType /\ receiver[l] \in ReceiverType
      /\ \A p \in {"receive", "check", "wait", "identify", "done"} :
           /\ [classifier[l] EXCEPT !.pc = p] \in ClassifierType
           /\ [classifier EXCEPT ![l].pc = p] = [classifier EXCEPT ![l] = [classifier[l] EXCEPT !.pc = p]]
      /\ \A p \in {"hear", "add", "done", "failed"} :
           /\ [receiver[l] EXCEPT !.pc = p] \in ReceiverType
           /\ [receiver EXCEPT ![l].pc = p] = [receiver EXCEPT ![l] = [receiver[l] EXCEPT !.pc = p]]
  <2>1. classifier[l] \in ClassifierType /\ receiver[l] \in ReceiverType
    BY <1>0
  <2>2. ASSUME NEW p \in {"receive", "check", "wait", "identify", "done"}
        PROVE  [classifier[l] EXCEPT !.pc = p] \in ClassifierType
    BY <2>1 DEF ClassifierType
  <2>3. ASSUME NEW p \in {"hear", "add", "done", "failed"}
        PROVE  [receiver[l] EXCEPT !.pc = p] \in ReceiverType
    BY <2>1 DEF ReceiverType
  <2> QED
    BY <2>1, <2>2, <2>3
<1>d. ASSUME NEW p \in {"receive", "check", "wait", "identify", "done"}
      PROVE  [classifier EXCEPT ![l].pc = p] \in [Leaves -> ClassifierType]
  BY <1>0, <1>c
<1>e. ASSUME NEW p \in {"hear", "add", "done", "failed"}
      PROVE  [receiver EXCEPT ![l].pc = p] \in [Leaves -> ReceiverType]
  BY <1>0, <1>c
<1>2. CASE Receive(l)
  <2>1. /\ examples[l] \in Seq(Example) /\ examples[l] # <<>>
        /\ Example = Answer /\ answers[l] \in Seq(Answer)
    BY <1>0, <1>2 DEF Receive, Example, Answer
  <2> DEFINE h == Head(examples[l])
             t == Tail(examples[l])
  <2>2. h \in Example /\ t \in Seq(Example)
    BY <2>1
  <2> HIDE DEF h, t
  <2>3. examples' \in [Leaves -> Seq(Example)]
    <3>1. examples' = [examples EXCEPT ![l] = t]
      BY <1>2 DEF Receive, t
    <3> QED
      BY <3>1, <2>2, <1>0
  <2>4. answers' \in [Leaves -> Seq(Answer)]
    <3>1. answers' = [answers EXCEPT ![l] = Append(answers[l], h)] \/ answers' = answers
      BY <1>2 DEF Receive, h
    <3>2. Append(answers[l], h) \in Seq(Answer)
      BY <2>1, <2>2
    <3> QED
      BY <3>1, <3>2, <1>0
  <2>5. classifier' \in [Leaves -> ClassifierType]
    <3>1. classifier' = [classifier EXCEPT ![l].pc = "done"]
          \/ classifier' = [classifier EXCEPT ![l] = [pc |-> "check", example |-> h]]
      BY <1>2 DEF Receive, h
    <3>2. [pc |-> "check", example |-> h] \in ClassifierType
      BY <2>2 DEF ClassifierType
    <3>3. [classifier EXCEPT ![l] = [pc |-> "check", example |-> h]] \in [Leaves -> ClassifierType]
      BY <3>2, <1>0
    <3>4. [classifier EXCEPT ![l].pc = "done"] \in [Leaves -> ClassifierType]
      BY <1>d
    <3> QED
      BY <3>1, <3>3, <3>4
  <2> QED
    BY <2>3, <2>4, <2>5, <1>0, <1>2 DEF Receive
<1>3. CASE CheckModel(l)
  <2>1. classifier' = [classifier EXCEPT ![l].pc = "wait"]
        \/ classifier' = [classifier EXCEPT ![l].pc = "identify"]
    BY <1>3 DEF CheckModel
  <2>2. /\ [classifier EXCEPT ![l].pc = "wait"] \in [Leaves -> ClassifierType]
        /\ [classifier EXCEPT ![l].pc = "identify"] \in [Leaves -> ClassifierType]
    BY <1>d
  <2>3. classifier' \in [Leaves -> ClassifierType]
    BY <2>1, <2>2
  <2> QED
    BY <2>3, <1>0, <1>3 DEF CheckModel
<1>4. CASE AwaitModel(l)
  <2>1. classifier' = [classifier EXCEPT ![l].pc = "check"]
        /\ ready' = [ready EXCEPT ![l] = ready[l] - 1] /\ ready[l] > 0
    BY <1>4 DEF AwaitModel
  <2>2. [classifier EXCEPT ![l].pc = "check"] \in [Leaves -> ClassifierType]
    BY <1>d
  <2>3. ready[l] - 1 \in 0..1
    BY <2>1, <1>0
  <2>4. ready' \in [Leaves -> 0..1]
    BY <2>1, <2>3, <1>0
  <2> QED
    BY <2>1, <2>2, <2>4, <1>0, <1>4 DEF AwaitModel
<1>5. CASE IdentifyAndSend(l)
  <2>1. PICK c \in 0..(leafSize[l] - 1), label \in Answers :
          /\ used' = [used EXCEPT ![l][c] = @ + 1]
          /\ answers' = [answers EXCEPT ![l] =
                           Append(@, [id |-> classifier[l].example.id, label |-> label])]
    BY <1>5 DEF IdentifyAndSend
  <2>2. c \in ClusterIds
    <3>1. leafSize[l] \in 0..MaxClusters /\ MaxClusters \in Nat
      BY <1>0, Constants
    <3> QED
      BY <3>1 DEF ClusterIds
  <2>3. used' \in [Leaves -> [ClusterIds -> Nat]]
    <3>1. used[l] \in [ClusterIds -> Nat]
      BY <1>0
    <3>2. [used[l] EXCEPT ![c] = used[l][c] + 1] \in [ClusterIds -> Nat]
      BY <3>1, <2>2
    <3>3. used' = [used EXCEPT ![l] = [used[l] EXCEPT ![c] = used[l][c] + 1]]
      BY <2>1
    <3> QED
      BY <3>2, <3>3, <1>0
  <2>4. [id |-> classifier[l].example.id, label |-> label] \in Answer
    <3>1. classifier[l].example \in Example
      BY <1>c DEF ClassifierType
    <3>2. classifier[l].example.id \in Nat
      BY <3>1 DEF Example
    <3>3. label \in Labels
      BY Constants DEF Labels
    <3> QED
      BY <3>2, <3>3 DEF Answer
  <2>5. answers' \in [Leaves -> Seq(Answer)]
    <3> DEFINE e == [id |-> classifier[l].example.id, label |-> label]
    <3>1. answers' = [answers EXCEPT ![l] = Append(answers[l], e)]
      BY <2>1
    <3> HIDE DEF e
    <3>2. Append(answers[l], e) \in Seq(Answer)
      BY <2>4, <1>0 DEF e
    <3> QED
      BY <3>1, <3>2, <1>0
  <2>6. classifier' \in [Leaves -> ClassifierType]
    <3>1. classifier' = [classifier EXCEPT ![l].pc = "receive"]
      BY <1>5 DEF IdentifyAndSend
    <3> QED
      BY <3>1, <1>d
  <2> QED
    BY <2>3, <2>5, <2>6, <1>0, <1>5 DEF IdentifyAndSend
<1>6. CASE Hear(l)
  <2>0. casts[l] \in Seq(ClusterIds \cup {EosCast}) /\ casts[l] # <<>>
    BY <1>0, <1>6 DEF Hear
  <2> DEFINE h == Head(casts[l])
             t == Tail(casts[l])
  <2>1. h \in ClusterIds \cup {EosCast} /\ t \in Seq(ClusterIds \cup {EosCast})
    BY <2>0
  <2> HIDE DEF h, t
  <2>2. h # EosCast => h \in 0..MaxClusters
    BY <2>1, Constants DEF ClusterIds
  <2>3. casts' \in [Leaves -> Seq(ClusterIds \cup {EosCast})]
    <3>1. casts' = [casts EXCEPT ![l] = t]
      BY <1>6 DEF Hear, t
    <3> QED
      BY <3>1, <2>1, <1>0
  <2>4. receiver' \in [Leaves -> ReceiverType]
    <3>1. receiver' = [receiver EXCEPT ![l] =
                         IF h = EosCast THEN [receiver[l] EXCEPT !.pc = "done"]
                         ELSE [pc |-> "add", cluster |-> h]]
      BY <1>6 DEF Hear, h
    <3>2. [receiver[l] EXCEPT !.pc = "done"] \in ReceiverType
      BY <1>c
    <3>3. h # EosCast => [pc |-> "add", cluster |-> h] \in ReceiverType
      BY <2>2 DEF ReceiverType
    <3>4. (IF h = EosCast THEN [receiver[l] EXCEPT !.pc = "done"]
           ELSE [pc |-> "add", cluster |-> h]) \in ReceiverType
      BY <3>2, <3>3
    <3> QED
      BY <3>1, <3>4, <1>0
  <2> QED
    BY <2>3, <2>4, <1>0, <1>6 DEF Hear
<1>7. CASE AddHeard(l)
  <2>1. /\ receiver[l].cluster = leafSize[l] /\ leafSize[l] < size
        /\ leafSize[l] < K => ready[l] = 0
    BY <1>7 DEF AddHeard, CastInv
  <2>2. leafSize[l] + 1 \in 0..MaxClusters /\ leafSize[l] \in Nat
    <3>1. leafSize[l] \in 0..MaxClusters /\ size \in 0..MaxClusters /\ MaxClusters \in Nat
      BY <1>0, Constants DEF TypeOK
    <3> QED
      BY <3>1, <2>1
  <2>3. (IF Completes(leafSize[l] + 1) THEN ready[l] + 1 ELSE ready[l]) \in 0..1
    BY <2>1, <2>2, <1>0, Constants DEF Completes
  <2>4. /\ receiver' = [receiver EXCEPT ![l].pc = "hear"]
        /\ leafSize' = [leafSize EXCEPT ![l] = leafSize[l] + 1]
        /\ ready' = [ready EXCEPT ![l] =
                       IF Completes(leafSize[l] + 1) THEN ready[l] + 1 ELSE ready[l]]
    BY <2>1, <1>7 DEF AddHeard
  <2>5. receiver' \in [Leaves -> ReceiverType]
    BY <2>4, <1>e
  <2>6. leafSize' \in [Leaves -> 0..MaxClusters]
    BY <2>2, <2>4, <1>0
  <2>7. ready' \in [Leaves -> 0..1]
    BY <2>3, <2>4, <1>0
  <2> QED
    BY <2>5, <2>6, <2>7, <1>0, <1>7 DEF AddHeard
<1> QED
  BY <1>2, <1>3, <1>4, <1>5, <1>6, <1>7 DEF LeafThreads, Classifier

LEMMA DetectorSets ==
  ASSUME NEW P, NEW F, NEW A, NEW S, NEW T, NEW I, NEW L, NEW U, NEW C,
         NEW r \in [pc : P, from : F, answer : A, slot : S, streams : T, id : I,
                    lastNDCheck : L, unknowns : U, cast : C]
  PROVE  /\ \A t \in T : [r EXCEPT !.streams = t] \in
              [pc : P, from : F, answer : A, slot : S, streams : T, id : I,
               lastNDCheck : L, unknowns : U, cast : C]
         /\ \A p \in P : [r EXCEPT !.pc = p] \in
              [pc : P, from : F, answer : A, slot : S, streams : T, id : I,
               lastNDCheck : L, unknowns : U, cast : C]
         /\ \A c \in C : [r EXCEPT !.cast = c] \in
              [pc : P, from : F, answer : A, slot : S, streams : T, id : I,
               lastNDCheck : L, unknowns : U, cast : C]
         /\ \A p \in P, x \in S : [r EXCEPT !.pc = p, !.slot = x] \in
              [pc : P, from : F, answer : A, slot : S, streams : T, id : I,
               lastNDCheck : L, unknowns : U, cast : C]
         /\ \A p \in P, f \in F, a \in A : [r EXCEPT !.pc = p, !.from = f, !.answer = a] \in
              [pc : P, from : F, answer : A, slot : S, streams : T, id : I,
               lastNDCheck : L, unknowns : U, cast : C]
         /\ \A p \in P, i \in I, u \in U, l \in L, c \in C :
              [r EXCEPT !.pc = p, !.id = i, !.unknowns = u, !.lastNDCheck = l, !.cast = c] \in
              [pc : P, from : F, answer : A, slot : S, streams : T, id : I,
               lastNDCheck : L, unknowns : U, cast : C]
OBVIOUS

LEMMA DetectorSteps ==
  ASSUME detector \in DetectorType
  PROVE  /\ \A t \in 0..NLeaves : [detector EXCEPT !.streams = t] \in DetectorType
         /\ \A p \in DetectorPlaces : [detector EXCEPT !.pc = p] \in DetectorType
         /\ \A c \in Nat : [detector EXCEPT !.cast = c] \in DetectorType
         /\ \A p \in DetectorPlaces, x \in 0..NSlots :
              [detector EXCEPT !.pc = p, !.slot = x] \in DetectorType
         /\ \A p \in DetectorPlaces, f \in 0..NLeaves, a \in Answer :
              [detector EXCEPT !.pc = p, !.from = f, !.answer = a] \in DetectorType
         /\ \A p \in DetectorPlaces, i \in Nat, u \in SUBSET Nat, l \in Nat, c \in Nat :
              [detector EXCEPT !.pc = p, !.id = i, !.unknowns = u, !.lastNDCheck = l, !.cast = c]
                 \in DetectorType
<1>1. detector \in [pc : DetectorPlaces, from : 0..NLeaves, answer : Answer,
                     slot : 0..NSlots, streams : 0..NLeaves, id : Nat,
                     lastNDCheck : Nat, unknowns : SUBSET Nat, cast : Nat]
  BY DEF DetectorType
<1> DEFINE F == 0..NLeaves
           S == 0..NSlots
           N == Nat
           U == SUBSET Nat
<1>2. detector \in [pc : DetectorPlaces, from : F, answer : Answer, slot : S, streams : F,
                     id : N, lastNDCheck : N, unknowns : U, cast : N]
  BY <1>1
<1>3. DetectorType = [pc : DetectorPlaces, from : F, answer : Answer, slot : S, streams : F,
                      id : N, lastNDCheck : N, unknowns : U, cast : N]
  BY DEF DetectorType
<1> HIDE DEF F, S, N, U
<1>4. /\ \A t \in F : [detector EXCEPT !.streams = t] \in DetectorType
      /\ \A p \in DetectorPlaces : [detector EXCEPT !.pc = p] \in DetectorType
      /\ \A c \in N : [detector EXCEPT !.cast = c] \in DetectorType
  BY <1>2, <1>3, DetectorSets
<1>5. \A p \in DetectorPlaces, x \in S : [detector EXCEPT !.pc = p, !.slot = x] \in DetectorType
  BY <1>2, <1>3, DetectorSets
<1>6. \A p \in DetectorPlaces, f \in F, a \in Answer :
        [detector EXCEPT !.pc = p, !.from = f, !.answer = a] \in DetectorType
  BY <1>2, <1>3, DetectorSets
<1>7. \A p \in DetectorPlaces, i \in N, u \in U, l \in N, c \in N :
        [detector EXCEPT !.pc = p, !.id = i, !.unknowns = u, !.lastNDCheck = l, !.cast = c]
          \in DetectorType
  BY <1>2, <1>3, DetectorSets
<1> QED
  BY <1>4, <1>5, <1>6, <1>7 DEF F, S, N, U

\* What handling an answer does to the detector, whatever comes of it.
LEMMA SortStep ==
  ASSUME TypeOK, PlaceInv, SortAnswer
  PROVE  /\ detector.slot \in Slots /\ table[detector.slot].id \in Nat
         /\ Latest(table[detector.slot].id) \in Nat
         /\ \E p \in {"free", "failed", "cast"}, u \in SUBSET Nat, l \in Nat, c \in Nat :
              /\ detector' = [detector EXCEPT
                                !.pc = p, !.id = Latest(table[detector.slot].id),
                                !.unknowns = u, !.lastNDCheck = l, !.cast = c]
              /\ size' \in 0..MaxClusters /\ size' >= size
              /\ p = "cast" => c = size
              /\ p # "cast" => size' = size
<1>1. detector.slot \in Slots /\ detector.pc = "sort"
  BY DEF SortAnswer, PlaceInv, Handling
<1>2. table[detector.slot] \in Example /\ detector.id \in Nat /\ detector.unknowns \in SUBSET Nat
      /\ detector.lastNDCheck \in Nat /\ size \in 0..MaxClusters /\ size \in Nat /\ MaxClusters \in Nat
  <2>1. detector \in DetectorType /\ table \in [Slots -> Example] /\ size \in 0..MaxClusters
        /\ MaxClusters \in Nat
    BY Constants DEF TypeOK, DetectorType, DetectorPlaces
  <2>2. detector.id \in Nat /\ detector.unknowns \in SUBSET Nat /\ detector.lastNDCheck \in Nat
    BY <2>1 DEF DetectorType
  <2> QED
    BY <1>1, <2>1, <2>2
<1> DEFINE x == table[detector.slot].id
           latest == Latest(x)
           unknowns == detector.unknowns \cup {x}
<1>3. x \in Nat
  BY <1>2 DEF Example
<1>4. latest \in Nat
  BY <1>2, <1>3, MaxFacts DEF Latest
<1>5. unknowns \in SUBSET Nat
  BY <1>2, <1>3
<1>6. \/ /\ detector' = [detector EXCEPT !.pc = "free", !.id = latest,
                           !.unknowns = detector.unknowns,
                           !.lastNDCheck = detector.lastNDCheck, !.cast = 0]
         /\ size' = size
      \/ /\ detector' = [detector EXCEPT !.pc = "failed", !.id = latest,
                           !.unknowns = unknowns,
                           !.lastNDCheck = detector.lastNDCheck, !.cast = 0]
         /\ size' = size
      \/ /\ detector' = [detector EXCEPT !.pc = "free", !.id = latest,
                           !.unknowns = unknowns,
                           !.lastNDCheck = detector.lastNDCheck, !.cast = 0]
         /\ size' = size
      \/ \E new \in 1..(MaxClusters - size),
            left \in ND!Leftovers(unknowns, detector.lastNDCheck) :
           /\ size' = size + new
           /\ detector' = [detector EXCEPT !.pc = "cast", !.id = latest,
                             !.unknowns = left, !.lastNDCheck = latest, !.cast = size]
  BY DEF SortAnswer
<1>7. \A left \in ND!Leftovers(unknowns, detector.lastNDCheck) : left \in SUBSET Nat
  BY <1>5 DEF ND!Leftovers
<1> HIDE DEF x, latest, unknowns
<1> DEFINE Is(p, u, l, c) ==
             detector' = [detector EXCEPT !.pc = p, !.id = latest, !.unknowns = u,
                                          !.lastNDCheck = l, !.cast = c]
<1> HIDE DEF Is
<1>8. \E p \in {"free", "failed", "cast"}, u \in SUBSET Nat, l \in Nat, c \in Nat :
        /\ Is(p, u, l, c)
        /\ size' \in 0..MaxClusters /\ size' >= size
        /\ p = "cast" => c = size
        /\ p # "cast" => size' = size
  <2>1. CASE /\ Is("free", detector.unknowns, detector.lastNDCheck, 0)
             /\ size' = size
    BY <2>1, <1>2
  <2>2. CASE /\ Is("failed", unknowns, detector.lastNDCheck, 0)
             /\ size' = size
    BY <2>2, <1>2, <1>5
  <2>3. CASE /\ Is("free", unknowns, detector.lastNDCheck, 0)
             /\ size' = size
    BY <2>3, <1>2, <1>5
  <2>4. CASE \E new \in 1..(MaxClusters - size),
                left \in ND!Leftovers(unknowns, detector.lastNDCheck) :
               size' = size + new /\ Is("cast", left, latest, size)
    <3>1. PICK new \in 1..(MaxClusters - size),
               left \in ND!Leftovers(unknowns, detector.lastNDCheck) :
               size' = size + new /\ Is("cast", left, latest, size)
      BY <2>4
    <3>2. left \in SUBSET Nat /\ size' \in 0..MaxClusters /\ size' >= size
      BY <3>1, <1>2, <1>7
    <3> QED
      BY <3>1, <3>2, <1>2, <1>4
  <2> QED
    BY <1>6, <2>1, <2>2, <2>3, <2>4 DEF Is
<1> QED
  BY <1>1, <1>3, <1>4, <1>8 DEF Is, x, latest

LEMMA DetectorTypes ==
  ASSUME TypeOK, LineInv, PlaceInv, HeldInv, StaleInv, LabelInv, CastInv, Detector
  PROVE  TypeOK'
<1>0. /\ detector \in DetectorType
      /\ slots \in [Slots -> 0..(2 * NLeaves + 1)] /\ table \in [Slots -> Example]
      /\ slotFree \in Nat /\ size \in 0..MaxClusters /\ output \in Seq(Answer)
      /\ answers \in [Leaves -> Seq(Answer)]
      /\ casts \in [Leaves -> Seq(ClusterIds \cup {EosCast})]
  BY DEF TypeOK, DetectorType, DetectorPlaces
<1>f. /\ detector.streams \in 0..NLeaves /\ detector.answer \in Answer /\ detector.cast \in Nat
  BY <1>0 DEF DetectorType
<1>1. UNCHANGED <<sampler, examples, leafVars, endVars>>
  BY DetectorRest
<1> SUFFICES /\ detector' \in DetectorType
             /\ slots' \in [Slots -> 0..(2 * NLeaves + 1)] /\ table' \in [Slots -> Example]
             /\ slotFree' \in Nat /\ size' \in 0..MaxClusters /\ output' \in Seq(Answer)
             /\ answers' \in [Leaves -> Seq(Answer)]
             /\ casts' \in [Leaves -> Seq(ClusterIds \cup {EosCast})]
  BY <1>1 DEF TypeOK, DetectorType, DetectorPlaces, leafVars, endVars
<1>g. ASSUME NEW p \in DetectorPlaces
      PROVE  [detector EXCEPT !.pc = p] \in DetectorType
  BY <1>0, DetectorSteps
<1>2. ASSUME NEW k \in Leaves, Take(k) PROVE
             /\ detector' \in DetectorType /\ answers' \in [Leaves -> Seq(Answer)]
             /\ UNCHANGED <<tableVars, size, output, casts>>
  <2>1. answers[k] \in Seq(Answer) /\ answers[k] # <<>>
    BY <1>0, <1>2 DEF Take
  <2> DEFINE h == Head(answers[k])
             t == Tail(answers[k])
  <2>2. h \in Answer /\ t \in Seq(Answer)
    BY <2>1
  <2> HIDE DEF h, t
  <2>3. answers' = [answers EXCEPT ![k] = t]
    BY <1>2 DEF Take, t
  <2>4. detector' = [detector EXCEPT !.streams = detector.streams - 1]
        \/ detector' = [detector EXCEPT !.pc = "find", !.from = k, !.answer = h]
    BY <1>2 DEF Take, h
  <2>5. detector.streams - 1 \in 0..NLeaves /\ k \in 0..NLeaves /\ "find" \in DetectorPlaces
    BY <1>2, <1>f, Constants DEF Take, Leaves, DetectorPlaces
  <2>6. [detector EXCEPT !.streams = detector.streams - 1] \in DetectorType
    BY <2>5, <1>0, DetectorSteps
  <2>7. [detector EXCEPT !.pc = "find", !.from = k, !.answer = h] \in DetectorType
    BY <2>5, <2>2, <1>0, DetectorSteps
  <2> QED
    BY <2>2, <2>3, <2>4, <2>6, <2>7, <1>0, <1>2 DEF Take, tableVars
<1>3. CASE LookUp
  <2>1. CASE SlotsOfAnswer = {}
    BY <2>1, <1>g, <1>0, <1>3 DEF LookUp, DetectorGoes, DetectorPlaces, tableVars
  <2>2. CASE SlotsOfAnswer # {}
    <3> DEFINE m == Min(SlotsOfAnswer)
    <3>1. m \in Slots
      BY <2>2, <1>3, LookUpFinds DEF LookUp
    <3>2. m \in 0..NSlots /\ "label" \in DetectorPlaces
      BY <3>1, Constants DEF Slots, DetectorPlaces
    <3> HIDE DEF m
    <3>3. [detector EXCEPT !.pc = "label", !.slot = m] \in DetectorType
      BY <3>2, <1>0, DetectorSteps
    <3>4. detector' = [detector EXCEPT !.pc = "label", !.slot = m]
      BY <2>2, <1>3 DEF LookUp, m
    <3> QED
      BY <3>3, <3>4, <1>0, <1>3 DEF LookUp, tableVars
  <2> QED
    BY <2>1, <2>2
<1>4. CASE AwaitChange
  <2>1. slotFree' \in Nat
    BY <1>0, <1>4 DEF AwaitChange
  <2> QED
    BY <2>1, <1>g, <1>0, <1>4 DEF AwaitChange, DetectorGoes, DetectorPlaces
<1>5. CASE SetLabel
  <2>1. table' \in [Slots -> Example]
    <3>1. detector.answer.label \in Labels
      BY <1>f DEF Answer
    <3>2. table' = [table EXCEPT ![detector.slot].label = detector.answer.label]
      BY <1>5 DEF SetLabel
    <3> QED
      BY <3>1, <3>2, <1>0 DEF Example
  <2> QED
    BY <2>1, <1>g, <1>0, <1>5 DEF SetLabel, DetectorGoes, DetectorPlaces
<1>6. CASE PrintAnswer
  <2>1. detector.slot \in Slots
    BY <1>6 DEF PrintAnswer, PlaceInv, Handling
  <2>2. table[detector.slot] \in Answer
    BY <2>1, <1>0 DEF Example, Answer
  <2>3. output' \in Seq(Answer)
    BY <2>2, <1>0, <1>6 DEF PrintAnswer
  <2> QED
    BY <2>3, <1>g, <1>0, <1>6 DEF PrintAnswer, DetectorGoes, DetectorPlaces, tableVars
<1>7. CASE SortAnswer
  <2> DEFINE latest == Latest(table[detector.slot].id)
  <2>0. latest \in Nat
    BY <1>7, SortStep
  <2>1. PICK p \in {"free", "failed", "cast"}, u \in SUBSET Nat, l \in Nat, c \in Nat :
              /\ detector' = [detector EXCEPT
                                !.pc = p, !.id = latest,
                                !.unknowns = u, !.lastNDCheck = l, !.cast = c]
              /\ size' \in 0..MaxClusters
    BY <1>7, SortStep
  <2> HIDE DEF latest
  <2>2. p \in DetectorPlaces
    BY DEF DetectorPlaces
  <2>3. [detector EXCEPT !.pc = p, !.id = latest, !.unknowns = u, !.lastNDCheck = l, !.cast = c]
            \in DetectorType
    BY <2>0, <2>2, <1>0, DetectorSteps
  <2>4. UNCHANGED <<output, answers, casts, slots, table, slotFree>>
    BY <1>7 DEF SortAnswer, tableVars
  <2> QED
    BY <2>1, <2>3, <2>4, <1>0
<1>8. CASE CastNew
  <2>1. CASE detector.cast < size
    <3>1. /\ detector' = [detector EXCEPT !.cast = detector.cast + 1]
          /\ casts' = [l \in Leaves |-> Append(casts[l], detector.cast)]
      BY <2>1, <1>8 DEF CastNew, Broadcast
    <3>2. detector.cast \in ClusterIds /\ detector.cast + 1 \in Nat
      BY <2>1, <1>0, <1>f, Constants DEF ClusterIds
    <3>3. [detector EXCEPT !.cast = detector.cast + 1] \in DetectorType
      BY <3>2, <1>0, DetectorSteps
    <3>4. casts' \in [Leaves -> Seq(ClusterIds \cup {EosCast})]
      BY <3>1, <3>2, <1>0
    <3> QED
      BY <3>1, <3>3, <3>4, <1>0, <1>8 DEF CastNew, tableVars
  <2>2. CASE ~ (detector.cast < size)
    BY <2>2, <1>g, <1>0, <1>8 DEF CastNew, DetectorGoes, DetectorPlaces, tableVars
  <2> QED
    BY <2>1, <2>2
<1>9. CASE FreeSlot
  <2>1. detector.slot \in Slots /\ detector.from \in Leaves /\ slots[detector.slot] = detector.from
    BY <1>9 DEF FreeSlot, PlaceInv, HeldInv, Holds, Handling
  <2>2. slots[detector.slot] + MpiSize \in 0..(2 * NLeaves + 1)
    BY <2>1, Constants DEF Leaves
  <2>3. slots' \in [Slots -> 0..(2 * NLeaves + 1)]
    BY <2>2, <1>0, <1>9 DEF FreeSlot
  <2> QED
    BY <2>3, <1>g, <1>0, <1>9 DEF FreeSlot, DetectorGoes, DetectorPlaces
<1>10. CASE PostSlot
  <2>1. slotFree' \in Nat
    BY <1>0, <1>10 DEF PostSlot
  <2> QED
    BY <2>1, <1>g, <1>0, <1>10 DEF PostSlot, DetectorGoes, DetectorPlaces
<1>11. CASE CastEos
  <2>1. casts' \in [Leaves -> Seq(ClusterIds \cup {EosCast})]
    BY <1>0, <1>11 DEF CastEos, Broadcast
  <2> QED
    BY <2>1, <1>g, <1>0, <1>11 DEF CastEos, DetectorGoes, DetectorPlaces, tableVars
<1> QED
  BY <1>0, <1>2, <1>3, <1>4, <1>5, <1>6, <1>7, <1>8, <1>9, <1>10, <1>11 DEF Detector, tableVars

\* The end: reports are told and heard in the order of the clusters.
LEMMA ReportTypes ==
  ASSUME TypeOK, CountInv, NEW l \in Leaves, Tell(l) \/ HearReport(l)
  PROVE  TypeOK'
<1>0. /\ told \in [Leaves -> 0..MaxClusters] /\ heard \in [Leaves -> 0..MaxClusters]
      /\ total \in [ClusterIds -> Nat] /\ leafSize \in [Leaves -> 0..MaxClusters]
      /\ used \in [Leaves -> [ClusterIds -> Nat]] /\ MaxClusters \in Nat
  BY Constants DEF TypeOK
<1>1. UNCHANGED <<size, sampler, detector, output, examples, answers, casts, leafVars, tableVars>>
  BY DEF Tell, HearReport
<1> SUFFICES /\ told' \in [Leaves -> 0..MaxClusters] /\ heard' \in [Leaves -> 0..MaxClusters]
             /\ total' \in [ClusterIds -> Nat]
  BY <1>1 DEF TypeOK, leafVars, tableVars
<1>2. CASE Tell(l)
  <2>1. told[l] + 1 \in 0..MaxClusters
    BY <1>0, <1>2 DEF Tell
  <2> QED
    BY <2>1, <1>0, <1>2 DEF Tell
<1>3. CASE HearReport(l)
  <2>1. heard[l] < told[l] /\ told[l] \in 0..MaxClusters /\ heard[l] \in 0..MaxClusters
    BY <1>0, <1>3 DEF HearReport
  <2>2. heard[l] + 1 \in 0..MaxClusters /\ heard[l] \in ClusterIds
    BY <2>1, <1>0 DEF ClusterIds
  <2>3. total' \in [ClusterIds -> Nat]
    <3>1. used[l][heard[l]] \in Nat /\ total[heard[l]] \in Nat
      BY <2>2, <1>0
    <3>2. total' = [total EXCEPT ![heard[l]] = total[heard[l]] + used[l][heard[l]]]
      <4>1. total' = AddReport(l)
        BY <1>3 DEF HearReport
      <4> QED
        BY <4>1 DEF AddReport
    <3> DEFINE h == heard[l]
               t == total[heard[l]] + used[l][heard[l]]
    <3>3. t \in Nat /\ total' = [total EXCEPT ![h] = t]
      BY <3>1, <3>2
    <3> HIDE DEF h, t
    <3> QED
      BY <3>3, <1>0
  <2> QED
    BY <2>2, <2>3, <1>0, <1>3 DEF HearReport
<1> QED
  BY <1>2, <1>3

-----------------------------------------------------------------------------
\* Where a step takes a thread of rank 0.
SamplerAt(pc, id, dest, slot, marker) ==
  /\ sampler'.pc = pc /\ sampler'.id = id /\ sampler'.dest = dest
  /\ sampler'.slot = slot /\ sampler'.marker = marker

LEMMA SamplerFields ==
  ASSUME TypeOK
  PROVE
  /\ ReadCluster => sampler.pc = "read" /\ sampler.id = 0 /\ sampler' = sampler
  /\ ReadExample => /\ sampler.pc = "read" /\ sampler.id < MaxExamples /\ size >= MaxLines
                    /\ SamplerAt("find", sampler.id, sampler.dest, sampler.slot, sampler.marker)
  /\ AwaitSlot => /\ sampler.pc = "wait"
                  /\ SamplerAt("find", sampler.id, sampler.dest, sampler.slot, sampler.marker)
  /\ FillSlot => /\ sampler.pc = "fill"
                 /\ SamplerAt("send", sampler.id + 1, sampler.dest, sampler.slot, sampler.marker)
  /\ SendExample => /\ sampler.pc = "send"
                    /\ SamplerAt("read", sampler.id, sampler.dest, sampler.slot, sampler.marker)
  /\ EndOfInput => /\ sampler.pc = "read" /\ sampler.id > 0
                   /\ SamplerAt("mark", sampler.id, 1, sampler.slot, sampler.marker)
  /\ MarkLast => /\ sampler.pc = "mark"
                 /\ SamplerAt("pack", sampler.id, sampler.dest, sampler.slot, sampler.marker)
  /\ PackMarker => /\ sampler.pc = "pack"
                   /\ SamplerAt("eos", sampler.id, sampler.dest, sampler.slot, table[sampler.slot])
  /\ SendMarker => /\ sampler.pc = "eos"
                   /\ \/ SamplerAt("done", sampler.id, sampler.dest, sampler.slot, sampler.marker)
                      \/ /\ sampler.dest # NLeaves
                         /\ SamplerAt("eos", sampler.id, sampler.dest + 1, sampler.slot,
                                      sampler.marker)
<1>1. sampler \in SamplerType
  BY DEF TypeOK, SamplerType
<1>2. ReadCluster => sampler.pc = "read" /\ sampler.id = 0 /\ sampler' = sampler
  BY DEF ReadCluster
<1>3. ReadExample => /\ sampler.pc = "read" /\ sampler.id < MaxExamples /\ size >= MaxLines
                     /\ SamplerAt("find", sampler.id, sampler.dest, sampler.slot, sampler.marker)
  BY <1>1 DEF ReadExample, SamplerGoes, SamplerAt, SamplerType
<1>4. AwaitSlot => /\ sampler.pc = "wait"
                   /\ SamplerAt("find", sampler.id, sampler.dest, sampler.slot, sampler.marker)
  BY <1>1 DEF AwaitSlot, SamplerGoes, SamplerAt, SamplerType
<1>5. FillSlot => /\ sampler.pc = "fill"
                  /\ SamplerAt("send", sampler.id + 1, sampler.dest, sampler.slot, sampler.marker)
  BY <1>1 DEF FillSlot, SamplerAt, SamplerType
<1>6. SendExample => /\ sampler.pc = "send"
                     /\ SamplerAt("read", sampler.id, sampler.dest, sampler.slot, sampler.marker)
  BY <1>1 DEF SendExample, SamplerGoes, SamplerAt, SamplerType
<1>7. EndOfInput => /\ sampler.pc = "read" /\ sampler.id > 0
                    /\ SamplerAt("mark", sampler.id, 1, sampler.slot, sampler.marker)
  BY <1>1 DEF EndOfInput, SamplerAt, SamplerType
<1>8. MarkLast => /\ sampler.pc = "mark"
                  /\ SamplerAt("pack", sampler.id, sampler.dest, sampler.slot, sampler.marker)
  BY <1>1 DEF MarkLast, SamplerGoes, SamplerAt, SamplerType
<1>9. PackMarker => /\ sampler.pc = "pack"
                    /\ SamplerAt("eos", sampler.id, sampler.dest, sampler.slot, table[sampler.slot])
  BY <1>1 DEF PackMarker, SamplerAt, SamplerType
<1>10. SendMarker => /\ sampler.pc = "eos"
                     /\ \/ SamplerAt("done", sampler.id, sampler.dest, sampler.slot, sampler.marker)
                        \/ /\ sampler.dest # NLeaves
                           /\ SamplerAt("eos", sampler.id, sampler.dest + 1, sampler.slot,
                                        sampler.marker)
  <2>1. CASE sampler.dest = NLeaves
    BY <2>1, <1>1 DEF SendMarker, SamplerAt, SamplerType
  <2>2. CASE sampler.dest # NLeaves
    BY <2>2, <1>1 DEF SendMarker, SamplerAt, SamplerType
  <2> QED
    BY <2>1, <2>2
<1> QED
  BY <1>2, <1>3, <1>4, <1>5, <1>6, <1>7, <1>8, <1>9, <1>10

\* A slot is found for a leaf, or the sampler waits.
LEMMA FindFields ==
  ASSUME TypeOK, FindSlot
  PROVE  /\ sampler.pc = "find" /\ UNCHANGED <<table, slotFree>>
         /\ \/ /\ slots' = slots
               /\ \E d \in Leaves :
                    /\ FreeSlots(d) = {}
                    /\ SamplerAt("wait", sampler.id, d, sampler.slot, sampler.marker)
            \/ \E d \in Leaves, m \in Slots :
                 /\ SamplerAt("fill", sampler.id, d, m, sampler.marker)
                 /\ m \in FreeSlots(d) /\ \A s \in FreeSlots(d) : m <= s
                 /\ slots' = [slots EXCEPT ![m] = d]
<1>1. sampler \in SamplerType
  BY DEF TypeOK, SamplerType
<1> DEFINE d == (sampler.dest % NLeaves) + 1
<1>2. d \in Leaves
  BY NextDest
<1>3. /\ sampler.pc = "find" /\ UNCHANGED <<table, slotFree>>
      /\ FreeSlots(d) = {} => sampler' = [sampler EXCEPT !.pc = "wait", !.dest = d] /\ slots' = slots
      /\ FreeSlots(d) # {} =>
           /\ sampler' = [sampler EXCEPT !.pc = "fill", !.dest = d, !.slot = Min(FreeSlots(d))]
           /\ slots' = [slots EXCEPT ![Min(FreeSlots(d))] = d]
  BY DEF FindSlot
<1> HIDE DEF d
<1>4. CASE FreeSlots(d) = {}
  <2>1. SamplerAt("wait", sampler.id, d, sampler.slot, sampler.marker)
    BY <1>1, <1>3, <1>4 DEF SamplerAt, SamplerType
  <2> QED
    BY <2>1, <1>2, <1>3, <1>4
<1>5. CASE FreeSlots(d) # {}
  <2> DEFINE m == Min(FreeSlots(d))
  <2>1. m \in FreeSlots(d) /\ m \in Slots /\ \A s \in FreeSlots(d) : m <= s
    BY <1>2, <1>5, FreeSlotFacts
  <2>2. sampler' = [sampler EXCEPT !.pc = "fill", !.dest = d, !.slot = m]
        /\ slots' = [slots EXCEPT ![m] = d]
    BY <1>3, <1>5
  <2> HIDE DEF m
  <2>3. SamplerAt("fill", sampler.id, d, m, sampler.marker)
    BY <1>1, <2>2 DEF SamplerAt, SamplerType
  <2> QED
    BY <2>1, <2>2, <2>3, <1>2, <1>3
<1> QED
  BY <1>4, <1>5

DetectorAt(pc, from, answer, slot, streams) ==
  /\ detector'.pc = pc /\ detector'.from = from /\ detector'.answer = answer
  /\ detector'.slot = slot /\ detector'.streams = streams

LEMMA DetectorFields ==
  ASSUME TypeOK, LineInv, PlaceInv, HeldInv, StaleInv, LabelInv
  PROVE
  /\ LookUp => /\ detector.pc = "find"
               /\ \/ DetectorAt("wait", detector.from, detector.answer, detector.slot,
                                detector.streams)
                  \/ \E m \in Slots :
                       /\ DetectorAt("label", detector.from, detector.answer, m, detector.streams)
                       /\ Holds(m, detector.from, detector.answer.id)
  /\ AwaitChange => /\ detector.pc = "wait"
                    /\ DetectorAt("find", detector.from, detector.answer, detector.slot,
                                  detector.streams)
  /\ SetLabel => /\ detector.pc = "label"
                 /\ DetectorAt("print", detector.from, detector.answer, detector.slot,
                               detector.streams)
  /\ PrintAnswer => /\ detector.pc = "print"
                    /\ DetectorAt("sort", detector.from, detector.answer, detector.slot,
                                  detector.streams)
  /\ SortAnswer => /\ detector.pc = "sort"
                   /\ \E p \in {"free", "failed", "cast"} :
                        DetectorAt(p, detector.from, detector.answer, detector.slot,
                                   detector.streams)
  /\ CastNew => /\ detector.pc = "cast"
                /\ \E p \in {"free", "cast"} :
                     DetectorAt(p, detector.from, detector.answer, detector.slot,
                                detector.streams)
  /\ FreeSlot => /\ detector.pc = "free"
                 /\ DetectorAt("post", detector.from, detector.answer, detector.slot,
                               detector.streams)
  /\ PostSlot => /\ detector.pc = "post"
                 /\ DetectorAt("take", detector.from, detector.answer, detector.slot,
                               detector.streams)
  /\ CastEos => /\ detector.pc = "take" /\ detector.streams = 0
                /\ DetectorAt("done", detector.from, detector.answer, detector.slot,
                              detector.streams)
<1>1. detector \in DetectorType
  BY DEF TypeOK, DetectorType, DetectorPlaces
<1>2. ASSUME NEW p \in DetectorPlaces, DetectorGoes(p)
      PROVE  DetectorAt(p, detector.from, detector.answer, detector.slot, detector.streams)
  BY <1>1, <1>2 DEF DetectorGoes, DetectorAt, DetectorType
<1>3. LookUp => /\ detector.pc = "find"
                /\ \/ DetectorAt("wait", detector.from, detector.answer, detector.slot,
                                 detector.streams)
                   \/ \E m \in Slots :
                        /\ DetectorAt("label", detector.from, detector.answer, m, detector.streams)
                        /\ Holds(m, detector.from, detector.answer.id)
  <2> HAVE LookUp
  <2>1. CASE SlotsOfAnswer = {}
    BY <2>1, <1>2 DEF LookUp, DetectorPlaces
  <2>2. CASE SlotsOfAnswer # {}
    <3> DEFINE m == Min(SlotsOfAnswer)
    <3>1. m \in Slots /\ Holds(m, detector.from, detector.answer.id) /\ detector.pc = "find"
      BY <2>2, LookUpFinds DEF LookUp
    <3>2. detector' = [detector EXCEPT !.pc = "label", !.slot = m]
      BY <2>2 DEF LookUp
    <3> HIDE DEF m
    <3>3. DetectorAt("label", detector.from, detector.answer, m, detector.streams)
      BY <3>2, <1>1 DEF DetectorAt, DetectorType
    <3> QED
      BY <3>1, <3>3
  <2> QED
    BY <2>1, <2>2
<1>4. AwaitChange => /\ detector.pc = "wait"
                     /\ DetectorAt("find", detector.from, detector.answer, detector.slot,
                                   detector.streams)
  BY <1>2 DEF AwaitChange, DetectorPlaces
<1>5. SetLabel => /\ detector.pc = "label"
                  /\ DetectorAt("print", detector.from, detector.answer, detector.slot,
                                detector.streams)
  BY <1>2 DEF SetLabel, DetectorPlaces
<1>6. PrintAnswer => /\ detector.pc = "print"
                     /\ DetectorAt("sort", detector.from, detector.answer, detector.slot,
                                   detector.streams)
  BY <1>2 DEF PrintAnswer, DetectorPlaces
<1>7. SortAnswer => /\ detector.pc = "sort"
                    /\ \E p \in {"free", "failed", "cast"} :
                         DetectorAt(p, detector.from, detector.answer, detector.slot,
                                    detector.streams)
  <2> HAVE SortAnswer
  <2> DEFINE latest == Latest(table[detector.slot].id)
  <2>1. PICK p \in {"free", "failed", "cast"}, u \in SUBSET Nat, l \in Nat, c \in Nat :
              detector' = [detector EXCEPT !.pc = p, !.id = latest, !.unknowns = u,
                                           !.lastNDCheck = l, !.cast = c]
    BY SortStep
  <2> HIDE DEF latest
  <2>2. DetectorAt(p, detector.from, detector.answer, detector.slot, detector.streams)
    BY <2>1, <1>1 DEF DetectorAt, DetectorType
  <2> QED
    BY <2>2 DEF SortAnswer
<1>8. CastNew => /\ detector.pc = "cast"
                 /\ \E p \in {"free", "cast"} :
                      DetectorAt(p, detector.from, detector.answer, detector.slot,
                                 detector.streams)
  <2> HAVE CastNew
  <2>1. CASE detector.cast < size
    <3>1. detector' = [detector EXCEPT !.cast = detector.cast + 1] /\ detector.pc = "cast"
      BY <2>1 DEF CastNew
    <3>2. DetectorAt("cast", detector.from, detector.answer, detector.slot, detector.streams)
      BY <3>1, <1>1 DEF DetectorAt, DetectorType
    <3> QED
      BY <3>1, <3>2
  <2>2. CASE ~ (detector.cast < size)
    BY <2>2, <1>2 DEF CastNew, DetectorPlaces
  <2> QED
    BY <2>1, <2>2
<1>9. FreeSlot => /\ detector.pc = "free"
                  /\ DetectorAt("post", detector.from, detector.answer, detector.slot,
                                detector.streams)
  BY <1>2 DEF FreeSlot, DetectorPlaces
<1>10. PostSlot => /\ detector.pc = "post"
                   /\ DetectorAt("take", detector.from, detector.answer, detector.slot,
                                 detector.streams)
  BY <1>2 DEF PostSlot, DetectorPlaces
<1>11. CastEos => /\ detector.pc = "take" /\ detector.streams = 0
                  /\ DetectorAt("done", detector.from, detector.answer, detector.slot,
                                detector.streams)
  BY <1>2 DEF CastEos, DetectorPlaces
<1> QED
  BY <1>3, <1>4, <1>5, <1>6, <1>7, <1>8, <1>9, <1>10, <1>11

\* An answer is taken, or the end of a stream.
LEMMA TakeFields ==
  ASSUME TypeOK, NEW k \in Leaves, Take(k)
  PROVE  /\ detector.pc = "take" /\ detector.streams > 0
         /\ Head(answers[k]).label = "eos" =>
              DetectorAt("take", detector.from, detector.answer, detector.slot,
                         detector.streams - 1)
         /\ Head(answers[k]).label # "eos" =>
              DetectorAt("find", k, Head(answers[k]), detector.slot, detector.streams)
<1>1. detector \in DetectorType
  BY DEF TypeOK, DetectorType, DetectorPlaces
<1> DEFINE h == Head(answers[k])
<1>2. /\ detector.pc = "take" /\ detector.streams > 0
      /\ h.label = "eos" => detector' = [detector EXCEPT !.streams = detector.streams - 1]
      /\ h.label # "eos" => detector' = [detector EXCEPT !.pc = "find", !.from = k, !.answer = h]
  BY DEF Take
<1> HIDE DEF h
<1>3. /\ h.label = "eos" => DetectorAt("take", detector.from, detector.answer, detector.slot,
                                       detector.streams - 1)
      /\ h.label # "eos" => DetectorAt("find", k, h, detector.slot, detector.streams)
  BY <1>1, <1>2 DEF DetectorAt, DetectorType
<1> QED
  BY <1>2, <1>3 DEF h

-----------------------------------------------------------------------------
\* Lines, and what is out, after each step.
LEMMA OutFacts ==
  ASSUME TypeOK, PlaceInv, LineInv, NEW l \in Leaves
  PROVE  /\ Line(l) \in Seq(Nat) /\ Increasing(Line(l))
         /\ sampler.id \in Nat /\ sampler.id <= End /\ End \in Nat
         /\ Out(l) \subseteq 0..(sampler.id - 1) /\ End \notin Out(l)
         /\ Out(l) \subseteq Nat
         /\ \A x \in Elements(Line(l)) : x \in 0..(sampler.id - 1) \/ (x = End /\ MarkerSent(l))
<1>1. Line(l) \in Seq(Nat) /\ sampler.id \in Nat /\ sampler.id <= End /\ End \in Nat
  BY PartTypes, Constants
<1>2. /\ Increasing(Line(l))
      /\ \A x \in Elements(Line(l)) : x \in 0..(sampler.id - 1) \/ (x = End /\ MarkerSent(l))
  BY DEF LineInv
<1>3. Out(l) \subseteq 0..(sampler.id - 1) /\ End \notin Out(l)
  BY <1>2 DEF Out
<1>4. 0..(sampler.id - 1) \subseteq Nat
  BY <1>1
<1> QED
  BY <1>1, <1>2, <1>3, <1>4

LEMMA SameLine ==
  ASSUME TypeOK, PlaceInv, LineInv, NEW l \in Leaves, Line(l)' = Line(l),
         sampler'.id = sampler.id, MarkerSent(l) => MarkerSent(l)'
  PROVE  /\ Out(l)' = Out(l) /\ Increasing(Line(l))'
         /\ \A x \in Elements(Line(l))' : x \in 0..(sampler'.id - 1) \/ (x = End /\ MarkerSent(l)')
<1>1. Elements(Line(l))' = Elements(Line(l))
  BY DEF Elements
<1>2. Out(l)' = Out(l)
  BY <1>1 DEF Out, End
<1>3. Increasing(Line(l))'
  BY OutFacts DEF Increasing
<1> QED
  BY <1>1, <1>2, <1>3, OutFacts

LEMMA LineGains ==
  ASSUME TypeOK, PlaceInv, LineInv, NEW l \in Leaves, NEW v \in Nat,
         Line(l)' = Append(Line(l), v), \A x \in Elements(Line(l)) : x < v
  PROVE  Increasing(Line(l))' /\ Elements(Line(l))' = Elements(Line(l)) \cup {v}
<1> DEFINE q == Line(l)
           a == Append(q, v)
<1>1. q \in Seq(Nat) /\ Increasing(q)
  BY OutFacts
<1>2. Line(l)' = a
  OBVIOUS
<1>3. Increasing(Line(l))' <=> Increasing(a)
  BY <1>2 DEF Increasing
<1>4. Elements(Line(l))' = Elements(a)
  BY <1>2 DEF Elements
<1> HIDE DEF q
<1>5. Increasing(a) /\ Elements(a) = Elements(q) \cup {v}
  BY <1>1, IncreasingAppend, ElementsFacts DEF q
<1> QED
  BY <1>3, <1>4, <1>5 DEF q

LEMMA LineLoses ==
  ASSUME TypeOK, PlaceInv, LineInv, NEW l \in Leaves,
         Line(l) # <<>>, Line(l)' = Tail(Line(l))
  PROVE  /\ Increasing(Line(l))' /\ Elements(Line(l))' = Elements(Line(l)) \ {Head(Line(l))}
         /\ Head(Line(l)) \in Elements(Line(l))
<1> DEFINE q == Line(l)
           a == Tail(q)
<1>1. q \in Seq(Nat) /\ Increasing(q) /\ q # <<>>
  BY OutFacts
<1>3. Increasing(Line(l))' <=> Increasing(a)
  BY DEF Increasing
<1>4. Elements(Line(l))' = Elements(a)
  BY DEF Elements
<1> HIDE DEF q
<1>5. Increasing(a) /\ Elements(a) = Elements(q) \ {Head(q)} /\ Head(q) \in Elements(q)
  BY <1>1, IncreasingTail
<1> QED
  BY <1>3, <1>4, <1>5 DEF q

LEMMA SamplerOut ==
  ASSUME TypeOK, PlaceInv, LineInv, StaleInv, LabelInv, Sampler, NEW l \in Leaves
  PROVE  /\ Out(l)' = IF sampler.pc = "fill" /\ l = sampler.dest
                        THEN Out(l) \cup {sampler.id} ELSE Out(l)
         /\ Increasing(Line(l))'
         /\ \A x \in Elements(Line(l))' : x \in 0..(sampler'.id - 1) \/ (x = End /\ MarkerSent(l)')
<1>0. /\ Line(l) \in Seq(Nat) /\ Increasing(Line(l))
      /\ sampler.id \in Nat /\ sampler.id <= End /\ End \in Nat
      /\ \A x \in Elements(Line(l)) : x \in 0..(sampler.id - 1) \/ (x = End /\ MarkerSent(l))
  BY OutFacts
<1>1. CASE ReadCluster \/ ReadExample \/ FindSlot \/ AwaitSlot \/ EndOfInput \/ MarkLast
  <2>1. Line(l)' = Line(l) /\ sampler'.id = sampler.id /\ MarkerSent(l)' = MarkerSent(l)
    BY <1>1, QuietSampler
  <2>2. sampler.pc # "fill"
    BY <1>1 DEF ReadCluster, ReadExample, FindSlot, AwaitSlot, EndOfInput, MarkLast
  <2> QED
    BY <2>1, <2>2, SameLine
<1>2. CASE FillSlot
  <2>1. /\ Line(l)' = IF l = sampler.dest THEN Append(Line(l), sampler.id) ELSE Line(l)
        /\ sampler'.id = sampler.id + 1 /\ MarkerSent(l)' = MarkerSent(l) /\ ~ MarkerSent(l)
    BY <1>2, FillLine
  <2>2. sampler.pc = "fill" /\ sampler.id < End
    BY <1>2, Constants DEF FillSlot, PlaceInv
  <2>3. \A x \in Elements(Line(l)) : x < sampler.id
    BY <2>1, <1>0
  <2>4. CASE l = sampler.dest
    <3>1. Increasing(Line(l))' /\ Elements(Line(l))' = Elements(Line(l)) \cup {sampler.id}
      BY <2>1, <2>3, <2>4, <1>0, LineGains
    <3>2. Out(l)' = Out(l) \cup {sampler.id}
      BY <3>1, <2>2, <1>0 DEF Out, End
    <3>3. \A x \in Elements(Line(l))' : x \in 0..(sampler'.id - 1)
      BY <3>1, <2>1, <2>3, <1>0
    <3> QED
      BY <3>1, <3>2, <3>3, <2>2, <2>4
  <2>5. CASE l # sampler.dest
    <3>1. Elements(Line(l))' = Elements(Line(l)) /\ Increasing(Line(l))'
      BY <2>1, <2>5, <1>0 DEF Elements, Increasing
    <3>2. Out(l)' = Out(l)
      BY <3>1 DEF Out, End
    <3>3. \A x \in Elements(Line(l))' : x \in 0..(sampler'.id - 1)
      BY <3>1, <2>1, <2>3, <1>0
    <3> QED
      BY <3>1, <3>2, <3>3, <2>5
  <2> QED
    BY <2>4, <2>5
<1>3. CASE SendExample
  <2>1. Line(l)' = Line(l) /\ sampler'.id = sampler.id /\ ~ MarkerSent(l)
    BY <1>3, SendLine
  <2>2. sampler.pc # "fill"
    BY <1>3 DEF SendExample
  <2> QED
    BY <2>1, <2>2, SameLine
<1>4. CASE PackMarker
  <2>1. Line(l)' = Line(l) /\ sampler'.id = sampler.id /\ ~ MarkerSent(l)
    BY <1>4, PackLine
  <2>2. sampler.pc # "fill"
    BY <1>4 DEF PackMarker
  <2> QED
    BY <2>1, <2>2, SameLine
<1>5. CASE SendMarker
  <2>1. /\ Line(l)' = IF l = sampler.dest THEN Append(Line(l), End) ELSE Line(l)
        /\ sampler'.id = sampler.id /\ MarkerSent(l)' = (MarkerSent(l) \/ l = sampler.dest)
        /\ ~ MarkerSent(sampler.dest)
    BY <1>5, MarkerLine
  <2>2. sampler.pc # "fill"
    BY <1>5 DEF SendMarker
  <2>3. CASE l = sampler.dest
    <3>1. \A x \in Elements(Line(l)) : x < End /\ x \in 0..(sampler.id - 1)
      BY <2>1, <2>3, <1>0
    <3>2. Increasing(Line(l))' /\ Elements(Line(l))' = Elements(Line(l)) \cup {End}
      BY <2>1, <2>3, <3>1, <1>0, LineGains
    <3>3. Out(l)' = Out(l)
      BY <3>2 DEF Out, End
    <3> QED
      BY <3>1, <3>2, <3>3, <2>1, <2>2, <2>3
  <2>4. CASE l # sampler.dest
    BY <2>1, <2>2, <2>4, SameLine
  <2> QED
    BY <2>3, <2>4
<1> QED
  BY <1>1, <1>2, <1>3, <1>4, <1>5 DEF Sampler

LEMMA LeafOut ==
  ASSUME TypeOK, PlaceInv, LineInv, LabelInv, NEW k \in Leaves, LeafThreads(k), NEW l \in Leaves
  PROVE  /\ Out(l)' = Out(l) /\ Increasing(Line(l))'
         /\ \A x \in Elements(Line(l))' : x \in 0..(sampler'.id - 1) \/ (x = End /\ MarkerSent(l)')
<1>1. Line(l)' = Line(l)
  BY LeafLines
<1>2. sampler' = sampler /\ MarkerSent(l)' = MarkerSent(l)
  BY LeafRest
<1> QED
  BY <1>1, <1>2, SameLine

\* One id is out with one leaf only.
LEMMA OneLeaf ==
  ASSUME HeldInv, NEW k \in Leaves, NEW l \in Leaves, NEW x \in Out(k), x \in Out(l)
  PROVE  k = l
<1>1. PICK s \in Slots : Holds(s, k, x)
  BY DEF HeldInv
<1>2. PICK t \in Slots : Holds(t, l, x)
  BY DEF HeldInv
<1>3. s = t
  BY <1>1, <1>2 DEF HeldInv, Holds
<1> QED
  BY <1>1, <1>2, <1>3 DEF Holds

\* What the detector handles is out, and held by one slot.
LEMMA HandledIsOut ==
  ASSUME PlaceInv, HeldInv, detector.pc \in Handling
  PROVE  /\ detector.from \in Leaves /\ detector.slot \in Slots
         /\ slots[detector.slot] = detector.from /\ ~ Filling(detector.slot)
         /\ table[detector.slot].id = detector.answer.id
         /\ detector.answer.id \in Out(detector.from)
BY DEF PlaceInv, HeldInv, Holds

LEMMA DetectorOut ==
  ASSUME TypeOK, LineInv, PlaceInv, HeldInv, StaleInv, LabelInv, Detector, NEW l \in Leaves
  PROVE  /\ Out(l)' = IF detector.pc = "free" THEN Out(l) \ {detector.answer.id} ELSE Out(l)
         /\ Increasing(Line(l))'
         /\ \A x \in Elements(Line(l))' : x \in 0..(sampler'.id - 1) \/ (x = End /\ MarkerSent(l)')
<1>0. sampler' = sampler /\ MarkerSent(l)' = MarkerSent(l)
  BY DetectorRest
<1>1. CASE \/ LookUp \/ AwaitChange \/ SetLabel \/ PrintAnswer \/ SortAnswer
           \/ CastNew \/ PostSlot \/ CastEos
  <2>1. Line(l)' = Line(l)
    BY <1>1, QuietDetector
  <2>2. detector.pc # "free"
    BY <1>1 DEF LookUp, AwaitChange, SetLabel, PrintAnswer, SortAnswer, CastNew, PostSlot, CastEos
  <2> QED
    BY <2>1, <2>2, <1>0, SameLine
<1>2. ASSUME NEW k \in Leaves, Take(k)
      PROVE  /\ Out(l)' = Out(l) /\ detector.pc # "free" /\ Increasing(Line(l))'
             /\ \A x \in Elements(Line(l))' : x \in 0..(sampler'.id - 1) \/ (x = End /\ MarkerSent(l)')
  <2>0. detector.pc # "free"
    BY <1>2 DEF Take
  <2>1. \/ Line(l)' = Line(l)
        \/ Line(l) # <<>> /\ Head(Line(l)) = End /\ Line(l)' = Tail(Line(l))
    BY <1>2, TakeLine
  <2>2. CASE Line(l)' = Line(l)
    BY <2>0, <2>2, <1>0, SameLine
  <2>3. CASE Line(l) # <<>> /\ Head(Line(l)) = End /\ Line(l)' = Tail(Line(l))
    <3>1. Increasing(Line(l))' /\ Elements(Line(l))' = Elements(Line(l)) \ {End}
      BY <2>3, LineLoses
    <3>2. Out(l)' = Out(l)
      BY <3>1 DEF Out, End
    <3> QED
      BY <3>1, <3>2, <2>0, <1>0, OutFacts
  <2> QED
    BY <2>1, <2>2, <2>3
<1>3. CASE FreeSlot
  <2>0. detector.pc = "free" /\ detector.pc \in Handling
    BY <1>3 DEF FreeSlot, Handling
  <2>1. /\ l # detector.from => Line(l)' = Line(l)
        /\ l = detector.from => /\ Line(l) # <<>> /\ Head(Line(l)) = detector.answer.id
                                /\ Line(l)' = Tail(Line(l))
    BY <1>3, FreeLine
  <2>2. CASE l = detector.from
    <3>1. Increasing(Line(l))' /\ Elements(Line(l))' = Elements(Line(l)) \ {detector.answer.id}
      BY <2>1, <2>2, LineLoses
    <3>2. Out(l)' = Out(l) \ {detector.answer.id}
      BY <3>1 DEF Out, End
    <3> QED
      BY <3>1, <3>2, <2>0, <1>0, OutFacts
  <2>3. CASE l # detector.from
    <3>1. detector.answer.id \notin Out(l)
      BY <2>0, <2>3, HandledIsOut, OneLeaf
    <3> QED
      BY <3>1, <2>0, <2>1, <2>3, <1>0, SameLine
  <2> QED
    BY <2>2, <2>3
<1> QED
  BY <1>1, <1>2, <1>3 DEF Detector

LEMMA LineStep ==
  ASSUME TypeOK, LineInv, PlaceInv, HeldInv, StaleInv, LabelInv,
         Sampler \/ Detector \/ \E k \in Leaves : LeafThreads(k)
  PROVE  LineInv'
<1> SUFFICES ASSUME NEW l \in Leaves
             PROVE  /\ Increasing(Line(l))'
                    /\ \A x \in Elements(Line(l))' :
                         x \in 0..(sampler'.id - 1) \/ (x = End /\ MarkerSent(l)')
  BY DEF LineInv, End
<1>1. CASE Sampler
  BY <1>1, SamplerOut
<1>2. CASE Detector
  BY <1>2, DetectorOut
<1>3. CASE \E k \in Leaves : LeafThreads(k)
  BY <1>3, LeafOut
<1> QED
  BY <1>1, <1>2, <1>3

-----------------------------------------------------------------------------
\* Rank 0 is where it can be.
LEMMA SamplerPlace ==
  ASSUME TypeOK, PlaceInv, StaleInv, Sampler
  PROVE  PlaceInv'
<1>0. /\ sampler \in SamplerType /\ size \in Nat /\ sampler.id \in Nat /\ sampler.dest \in 0..NLeaves
      /\ MaxExamples \in Nat /\ NLeaves \in Nat \ {0}
  BY Constants DEF TypeOK, SamplerType
<1>1. detector' = detector /\ output' = output
  BY DEF Sampler, ReadCluster, ReadExample, FindSlot, AwaitSlot, FillSlot, SendExample,
         EndOfInput, MarkLast, PackMarker, SendMarker, samplerRest
<1>2. CASE ReadCluster
  <2>1. sampler' = sampler /\ size' = size + 1
    BY <1>2 DEF ReadCluster
  <2> QED
    BY <2>1, <1>0, <1>1, Constants DEF PlaceInv
<1>3. CASE ~ ReadCluster
  <2>1. size' = size
    BY <1>3 DEF Sampler, ReadCluster, ReadExample, FindSlot, AwaitSlot, FillSlot, SendExample,
         EndOfInput, MarkLast, PackMarker, SendMarker, tableVars
  <2>2. CASE ReadExample
    <3>1. /\ sampler.pc = "read" /\ sampler.id < MaxExamples /\ size >= MaxLines
          /\ SamplerAt("find", sampler.id, sampler.dest, sampler.slot, sampler.marker)
      BY <2>2, SamplerFields
    <3> QED
      BY <3>1, <2>1, <1>1 DEF PlaceInv, SamplerAt
  <2>3. CASE AwaitSlot
    <3>1. /\ sampler.pc = "wait"
          /\ SamplerAt("find", sampler.id, sampler.dest, sampler.slot, sampler.marker)
      BY <2>3, SamplerFields
    <3> QED
      BY <3>1, <2>1, <1>1 DEF PlaceInv, SamplerAt
  <2>4. CASE FindSlot
    <3>1. /\ sampler.pc = "find"
          /\ \E d \in Leaves :
               \/ /\ FreeSlots(d) = {}
                  /\ SamplerAt("wait", sampler.id, d, sampler.slot, sampler.marker)
               \/ \E m \in Slots : SamplerAt("fill", sampler.id, d, m, sampler.marker)
      BY <2>4, FindFields
    <3>2. PICK d \in Leaves :
            \/ /\ FreeSlots(d) = {}
               /\ SamplerAt("wait", sampler.id, d, sampler.slot, sampler.marker)
            \/ \E m \in Slots : SamplerAt("fill", sampler.id, d, m, sampler.marker)
      BY <3>1
    <3>3. FreeSlots(d) = {} => sampler.id # 0
      BY <3>1, Constants DEF StaleInv, FreeSlots, Filling
    <3> QED
      BY <3>1, <3>2, <3>3, <2>1, <1>0, <1>1 DEF PlaceInv, SamplerAt
  <2>5. CASE FillSlot
    <3>1. /\ sampler.pc = "fill"
          /\ SamplerAt("send", sampler.id + 1, sampler.dest, sampler.slot, sampler.marker)
      BY <2>5, SamplerFields
    <3>2. sampler.id + 1 > 0
      BY <1>0
    <3> QED
      BY <3>1, <3>2, <2>1, <1>0, <1>1 DEF PlaceInv, SamplerAt
  <2>6. CASE SendExample
    <3>1. /\ sampler.pc = "send"
          /\ SamplerAt("read", sampler.id, sampler.dest, sampler.slot, sampler.marker)
      BY <2>6, SamplerFields
    <3> QED
      BY <3>1, <2>1, <1>1 DEF PlaceInv, SamplerAt
  <2>7. CASE EndOfInput
    <3>1. /\ sampler.pc = "read" /\ sampler.id > 0
          /\ SamplerAt("mark", sampler.id, 1, sampler.slot, sampler.marker)
      BY <2>7, SamplerFields
    <3> QED
      BY <3>1, <2>1, <1>0, <1>1 DEF PlaceInv, SamplerAt
  <2>8. CASE MarkLast
    <3>1. /\ sampler.pc = "mark"
          /\ SamplerAt("pack", sampler.id, sampler.dest, sampler.slot, sampler.marker)
      BY <2>8, SamplerFields
    <3> QED
      BY <3>1, <2>1, <1>1 DEF PlaceInv, SamplerAt
  <2>9. CASE PackMarker
    <3>1. /\ sampler.pc = "pack"
          /\ SamplerAt("eos", sampler.id, sampler.dest, sampler.slot, table[sampler.slot])
      BY <2>9, SamplerFields
    <3>2. table[sampler.slot].id = sampler.id - 1
      BY <3>1, <1>0 DEF PlaceInv, StaleInv
    <3> QED
      BY <3>1, <3>2, <2>1, <1>1, Constants DEF PlaceInv, SamplerAt
  <2>10. CASE SendMarker
    <3>1. /\ sampler.pc = "eos"
          /\ \/ SamplerAt("done", sampler.id, sampler.dest, sampler.slot, sampler.marker)
             \/ /\ sampler.dest # NLeaves
                /\ SamplerAt("eos", sampler.id, sampler.dest + 1, sampler.slot,
                             sampler.marker)
      BY <2>10, SamplerFields
    <3>2. sampler.dest # NLeaves => sampler.dest + 1 \in Leaves
      BY <1>0 DEF Leaves
    <3> QED
      BY <3>1, <3>2, <2>1, <1>1 DEF PlaceInv, SamplerAt
  <2> QED
    BY <1>3, <2>2, <2>3, <2>4, <2>5, <2>6, <2>7, <2>8, <2>9, <2>10 DEF Sampler
<1> QED
  BY <1>2, <1>3

LEMMA DetectorPlace ==
  ASSUME TypeOK, LineInv, PlaceInv, HeldInv, StaleInv, LabelInv, Detector
  PROVE  PlaceInv'
<1>0. sampler' = sampler /\ size \in Nat /\ sampler.id \in Nat /\ NLeaves \in Nat \ {0}
      /\ detector.streams \in 0..NLeaves /\ output \in Seq(Answer)
  BY DetectorRest, Constants DEF TypeOK
<1>1. ASSUME NEW k \in Leaves, Take(k)
      PROVE  PlaceInv'
  <2>1. /\ detector.pc = "take" /\ detector.streams > 0
        /\ Head(answers[k]).label = "eos" =>
             DetectorAt("take", detector.from, detector.answer, detector.slot,
                        detector.streams - 1)
        /\ Head(answers[k]).label # "eos" =>
             DetectorAt("find", k, Head(answers[k]), detector.slot, detector.streams)
    BY <1>1, TakeFields
  <2>2. size' = size /\ output' = output
    BY <1>1 DEF Take, tableVars
  <2>3. CASE Head(answers[k]).label = "eos"
    <3>1. Line(k) # <<>> /\ Head(Line(k)) = End /\ Line(k)' = Tail(Line(k))
      BY <1>1, <2>3, TakeLine
    <3>2. End \in Elements(Line(k))
      BY <3>1, LineLoses
    <3>3. sampler.pc \in {"eos", "done"}
      BY <3>2, OutFacts DEF MarkerSent
    <3>4. sampler.id > 0
      BY <3>3 DEF PlaceInv
    <3> QED
      BY <2>1, <2>2, <2>3, <3>4, <1>0 DEF PlaceInv, DetectorAt, Handling
  <2>4. CASE Head(answers[k]).label # "eos"
    BY <2>1, <2>2, <2>4, <1>0 DEF PlaceInv, DetectorAt, Handling
  <2> QED
    BY <2>3, <2>4
<1>2. CASE LookUp
  <2>1. /\ detector.pc = "find"
        /\ \/ DetectorAt("wait", detector.from, detector.answer, detector.slot,
                         detector.streams)
           \/ \E m \in Slots :
                DetectorAt("label", detector.from, detector.answer, m, detector.streams)
    BY <1>2, DetectorFields
  <2>2. size' = size /\ output' = output
    BY <1>2 DEF LookUp, tableVars
  <2> QED
    BY <2>1, <2>2, <1>0 DEF PlaceInv, DetectorAt, Handling
<1>3. CASE AwaitChange
  <2>1. /\ detector.pc = "wait"
        /\ DetectorAt("find", detector.from, detector.answer, detector.slot, detector.streams)
    BY <1>3, DetectorFields
  <2>2. size' = size /\ output' = output
    BY <1>3 DEF AwaitChange
  <2> QED
    BY <2>1, <2>2, <1>0 DEF PlaceInv, DetectorAt, Handling
<1>4. CASE SetLabel
  <2>1. /\ detector.pc = "label"
        /\ DetectorAt("print", detector.from, detector.answer, detector.slot, detector.streams)
    BY <1>4, DetectorFields
  <2>2. size' = size /\ output' = output
    BY <1>4 DEF SetLabel
  <2> QED
    BY <2>1, <2>2, <1>0 DEF PlaceInv, DetectorAt, Handling
<1>5. CASE PrintAnswer
  <2>1. /\ detector.pc = "print"
        /\ DetectorAt("sort", detector.from, detector.answer, detector.slot, detector.streams)
    BY <1>5, DetectorFields
  <2>2. size' = size /\ output' = Append(output, table[detector.slot])
    BY <1>5 DEF PrintAnswer, tableVars
  <2>3. output' # <<>>
    BY <2>2, <1>0
  <2>4. size' = size /\ detector.slot \in Slots /\ detector.from \in Leaves
    BY <2>1, <2>2 DEF PlaceInv, Handling
  <2> QED
    BY <2>1, <2>3, <2>4, <1>0 DEF PlaceInv, DetectorAt, Handling
<1>6. CASE SortAnswer
  <2>1. /\ detector.pc = "sort"
        /\ \E p \in {"free", "failed", "cast"} :
             DetectorAt(p, detector.from, detector.answer, detector.slot, detector.streams)
    BY <1>6, DetectorFields
  <2>2. size' >= size /\ size' \in 0..MaxClusters
    BY <1>6, SortStep
  <2>3. output' = output
    BY <1>6 DEF SortAnswer
  <2>4. size >= MaxLines => size' >= MaxLines
    BY <2>2, <1>0, Constants
  <2> QED
    BY <2>1, <2>3, <2>4, <1>0 DEF PlaceInv, DetectorAt, Handling
<1>7. CASE CastNew
  <2>1. /\ detector.pc = "cast"
        /\ \E p \in {"free", "cast"} :
             DetectorAt(p, detector.from, detector.answer, detector.slot, detector.streams)
    BY <1>7, DetectorFields
  <2>2. size' = size /\ output' = output
    BY <1>7 DEF CastNew, tableVars
  <2> QED
    BY <2>1, <2>2, <1>0 DEF PlaceInv, DetectorAt, Handling
<1>8. CASE FreeSlot
  <2>1. /\ detector.pc = "free"
        /\ DetectorAt("post", detector.from, detector.answer, detector.slot, detector.streams)
    BY <1>8, DetectorFields
  <2>2. size' = size /\ output' = output
    BY <1>8 DEF FreeSlot
  <2> QED
    BY <2>1, <2>2, <1>0 DEF PlaceInv, DetectorAt, Handling
<1>9. CASE PostSlot
  <2>1. /\ detector.pc = "post"
        /\ DetectorAt("take", detector.from, detector.answer, detector.slot, detector.streams)
    BY <1>9, DetectorFields
  <2>2. size' = size /\ output' = output
    BY <1>9 DEF PostSlot
  <2> QED
    BY <2>1, <2>2, <1>0 DEF PlaceInv, DetectorAt, Handling
<1>10. CASE CastEos
  <2>1. /\ detector.pc = "take" /\ detector.streams = 0
        /\ DetectorAt("done", detector.from, detector.answer, detector.slot, detector.streams)
    BY <1>10, DetectorFields
  <2>2. size' = size /\ output' = output
    BY <1>10 DEF CastEos, tableVars
  <2> QED
    BY <2>1, <2>2, <1>0 DEF PlaceInv, DetectorAt, Handling
<1> QED
  BY <1>1, <1>2, <1>3, <1>4, <1>5, <1>6, <1>7, <1>8, <1>9, <1>10 DEF Detector

-----------------------------------------------------------------------------
\* Slots hold what is out.
LEMMA HeldSame ==
  ASSUME HeldInv, \A l \in Leaves : Out(l)' = Out(l), slots' = slots,
         \A s \in Slots : table'[s].id = table[s].id,
         \A s \in Slots : Filling(s)' <=> Filling(s),
         detector'.pc \in Handling =>
           /\ detector'.slot \in Slots
           /\ Holds(detector'.slot, detector'.from, detector'.answer.id)
  PROVE  HeldInv'
<1>1. \A s \in Slots : \A l, x : Holds(s, l, x)' <=> Holds(s, l, x)
  BY DEF Holds
<1>2. \A l \in Leaves, s \in Slots : slots'[s] = l /\ ~ Filling(s)' => table'[s].id \in Out(l)'
  BY DEF HeldInv
<1>3. \A l \in Leaves : \A x \in Out(l)' : \E s \in Slots : Holds(s, l, x)'
  BY <1>1 DEF HeldInv
<1>4. \A s, t \in Slots :
       /\ slots'[s] \in Leaves /\ ~ Filling(s)'
       /\ slots'[t] \in Leaves /\ ~ Filling(t)'
       /\ table'[s].id = table'[t].id
       => s = t
  BY DEF HeldInv
<1>5. detector'.pc \in Handling => Holds(detector.slot, detector.from, detector.answer.id)'
  BY DEF Holds
<1> QED
  BY <1>2, <1>3, <1>4, <1>5 DEF HeldInv, Leaves, Slots, Handling

LEMMA SamplerHeld ==
  ASSUME TypeOK, LineInv, PlaceInv, HeldInv, StaleInv, LabelInv, Sampler
  PROVE  HeldInv'
<1>0. /\ slots \in [Slots -> 0..(2 * NLeaves + 1)] /\ table \in [Slots -> Example]
      /\ NLeaves \in Nat
  BY Constants DEF TypeOK
<1>1. detector' = detector
  BY DEF Sampler, ReadCluster, ReadExample, FindSlot, AwaitSlot, FillSlot, SendExample,
         EndOfInput, MarkLast, PackMarker, SendMarker, samplerRest
<1>2. ASSUME NEW l \in Leaves
      PROVE  Out(l)' = IF sampler.pc = "fill" /\ l = sampler.dest
                         THEN Out(l) \cup {sampler.id} ELSE Out(l)
  BY SamplerOut
<1>3. detector.pc \in Handling =>
        /\ detector.slot \in Slots
        /\ Holds(detector.slot, detector.from, detector.answer.id)
  BY DEF HeldInv, PlaceInv
<1>4. CASE \/ ReadCluster \/ ReadExample \/ AwaitSlot \/ SendExample \/ EndOfInput
           \/ MarkLast \/ PackMarker \/ SendMarker
  <2>1. sampler.pc # "fill" /\ sampler'.pc # "fill"
    BY <1>4, SamplerFields DEF SamplerAt
  <2>2. slots' = slots /\ \A s \in Slots : table'[s].id = table[s].id
    <3>1. CASE MarkLast
      <4>1. slots' = slots /\ table' = [table EXCEPT ![sampler.slot].label = "eos"]
        BY <3>1 DEF MarkLast
      <4> QED
        BY <4>1, <1>0 DEF Example
    <3>2. CASE ~ MarkLast
      BY <3>2, <1>4 DEF ReadCluster, ReadExample, AwaitSlot, SendExample, EndOfInput,
                        PackMarker, SendMarker, tableVars
    <3> QED
      BY <3>1, <3>2
  <2>3. \A l \in Leaves : Out(l)' = Out(l)
    BY <2>1, <1>2
  <2>4. \A s \in Slots : Filling(s)' <=> Filling(s)
    BY <2>1 DEF Filling
  <2> QED
    BY <2>2, <2>3, <2>4, <1>1, <1>3, HeldSame
<1>5. CASE FindSlot
  <2>1. /\ sampler.pc = "find" /\ table' = table
        /\ \/ slots' = slots /\ sampler'.pc = "wait"
           \/ \E d \in Leaves, m \in Slots :
                /\ sampler'.pc = "fill" /\ sampler'.slot = m
                /\ m \in FreeSlots(d)
                /\ slots' = [slots EXCEPT ![m] = d]
    BY <1>5, FindFields DEF SamplerAt
  <2>2. \A l \in Leaves : Out(l)' = Out(l)
    BY <2>1, <1>2
  <2>3. CASE slots' = slots /\ sampler'.pc = "wait"
    <3>1. \A s \in Slots : Filling(s)' <=> Filling(s)
      BY <2>1, <2>3 DEF Filling
    <3> QED
      BY <2>1, <2>2, <2>3, <3>1, <1>1, <1>3, HeldSame
  <2>4. ASSUME NEW d \in Leaves, NEW m \in Slots,
               sampler'.pc = "fill", sampler'.slot = m,
               m \in FreeSlots(d), slots' = [slots EXCEPT ![m] = d]
        PROVE  HeldInv'
    <3>1. slots[m] \notin Leaves
      BY <2>4, <1>0, Constants DEF FreeSlots
    <3>2. \A s \in Slots : ~ Filling(s) /\ (Filling(s)' <=> s = m)
      BY <2>1, <2>4 DEF Filling
    <3>3. \A s \in Slots : s # m => slots'[s] = slots[s]
      BY <2>4, <1>0
    <3>4. \A s \in Slots : s # m => \A l, x : Holds(s, l, x)' <=> Holds(s, l, x)
      BY <2>1, <3>2, <3>3 DEF Holds
    <3>5. \A l \in Leaves : \A s \in Slots : \A x : Holds(s, l, x) => s # m
      BY <3>1 DEF Holds
    <3>6. \A l \in Leaves, s \in Slots : slots'[s] = l /\ ~ Filling(s)' => table'[s].id \in Out(l)'
      BY <2>1, <2>2, <3>2, <3>3 DEF HeldInv
    <3>7. \A l \in Leaves : \A x \in Out(l)' : \E s \in Slots : Holds(s, l, x)'
      BY <2>2, <3>4, <3>5 DEF HeldInv
    <3>8. \A s, t \in Slots :
           /\ slots'[s] \in Leaves /\ ~ Filling(s)'
           /\ slots'[t] \in Leaves /\ ~ Filling(t)'
           /\ table'[s].id = table'[t].id
           => s = t
      BY <2>1, <3>2, <3>3 DEF HeldInv
    <3>9. detector'.pc \in Handling => Holds(detector.slot, detector.from, detector.answer.id)'
      <4> HAVE detector'.pc \in Handling
      <4>1. detector.slot \in Slots /\ detector.from \in Leaves
            /\ Holds(detector.slot, detector.from, detector.answer.id)
        BY <1>1, <1>3 DEF PlaceInv
      <4>2. detector.slot # m
        BY <4>1, <3>5
      <4> QED
        BY <4>1, <4>2, <3>4, <1>1 DEF Holds
    <3> QED
      BY <3>6, <3>7, <3>8, <3>9 DEF HeldInv, Leaves, Slots, Handling
  <2> QED
    BY <2>1, <2>3, <2>4
<1>6. CASE FillSlot
  <2> DEFINE m == sampler.slot
             d == sampler.dest
             x0 == sampler.id
  <2>1. /\ sampler.pc = "fill" /\ sampler'.pc = "send"
        /\ m \in Slots /\ d \in Leaves /\ slots[m] = d
    BY <1>6, SamplerFields DEF SamplerAt, PlaceInv, StaleInv
  <2>2. slots' = slots /\ table' = [table EXCEPT ![m].id = x0]
    BY <1>6 DEF FillSlot
  <2>3. table'[m].id = x0 /\ \A s \in Slots : s # m => table'[s] = table[s]
    BY <2>1, <2>2, <1>0 DEF Example
  <2>4. \A s \in Slots : (Filling(s) <=> s = m) /\ ~ Filling(s)'
    BY <2>1 DEF Filling
  <2>5. \A l \in Leaves : Out(l)' = IF l = d THEN Out(l) \cup {x0} ELSE Out(l)
    BY <2>1, <1>2
  <2>6. \A l \in Leaves : x0 \notin Out(l)
    BY OutFacts
  <2> HIDE DEF m, d, x0
  <2>7. \A l \in Leaves, s \in Slots : slots'[s] = l /\ ~ Filling(s)' => table'[s].id \in Out(l)'
    <3> TAKE l \in Leaves, s \in Slots
    <3> HAVE slots'[s] = l /\ ~ Filling(s)'
    <3>1. CASE s = m
      BY <3>1, <2>1, <2>2, <2>3, <2>5
    <3>2. CASE s # m
      BY <3>2, <2>2, <2>3, <2>4, <2>5 DEF HeldInv
    <3> QED
      BY <3>1, <3>2
  <2>8. \A l \in Leaves : \A x \in Out(l)' : \E s \in Slots : Holds(s, l, x)'
    <3> TAKE l \in Leaves
    <3> TAKE x \in Out(l)'
    <3>1. CASE x \in Out(l)
      <4>1. PICK s \in Slots : Holds(s, l, x)
        BY <3>1 DEF HeldInv
      <4>2. s # m
        BY <4>1, <2>4 DEF Holds
      <4>3. Holds(s, l, x)'
        BY <4>1, <4>2, <2>2, <2>3, <2>4 DEF Holds
      <4> QED
        BY <4>3
    <3>2. CASE x \notin Out(l)
      <4>1. l = d /\ x = x0
        BY <3>2, <2>5
      <4>2. PICK s \in Slots : s = m
        BY <2>1
      <4>3. Holds(s, l, x)'
        BY <4>1, <4>2, <2>1, <2>2, <2>3, <2>4 DEF Holds
      <4> QED
        BY <4>3
    <3> QED
      BY <3>1, <3>2
  <2>9. \A s, t \in Slots :
         /\ slots'[s] \in Leaves /\ ~ Filling(s)'
         /\ slots'[t] \in Leaves /\ ~ Filling(t)'
         /\ table'[s].id = table'[t].id
         => s = t
    <3>1. \A s \in Slots : s # m /\ slots[s] \in Leaves => table'[s].id # x0
      <4> TAKE s \in Slots
      <4> HAVE s # m /\ slots[s] \in Leaves
      <4>1. table[s].id \in Out(slots[s])
        BY <2>4 DEF HeldInv
      <4> QED
        BY <4>1, <2>3, <2>6
    <3> QED
      BY <3>1, <2>2, <2>3, <2>4 DEF HeldInv
  <2>10. detector'.pc \in Handling => Holds(detector.slot, detector.from, detector.answer.id)'
    <3> HAVE detector'.pc \in Handling
    <3>1. detector.slot \in Slots /\ Holds(detector.slot, detector.from, detector.answer.id)
      BY <1>1, <1>3
    <3>2. detector.slot # m
      BY <3>1, <2>4 DEF Holds
    <3> QED
      BY <3>1, <3>2, <1>1, <2>2, <2>3, <2>4 DEF Holds
  <2> QED
    BY <2>7, <2>8, <2>9, <2>10 DEF HeldInv, Leaves, Slots, Handling
<1> QED
  BY <1>4, <1>5, <1>6 DEF Sampler

LEMMA DetectorHeld ==
  ASSUME TypeOK, LineInv, PlaceInv, HeldInv, StaleInv, LabelInv, Detector
  PROVE  HeldInv'
<1>0. /\ slots \in [Slots -> 0..(2 * NLeaves + 1)] /\ table \in [Slots -> Example]
      /\ NLeaves \in Nat
  BY Constants DEF TypeOK
<1>2. ASSUME NEW l \in Leaves
      PROVE  Out(l)' = IF detector.pc = "free" THEN Out(l) \ {detector.answer.id} ELSE Out(l)
  BY DetectorOut
<1>3. detector.pc \in Handling =>
        /\ detector.slot \in Slots /\ detector.from \in Leaves
        /\ Holds(detector.slot, detector.from, detector.answer.id)
  BY DEF HeldInv, PlaceInv
<1>4. \A s \in Slots : Filling(s)' <=> Filling(s)
  BY DetectorRest
<1>5. CASE ~ FreeSlot
  <2>1. slots' = slots /\ \A s \in Slots : table'[s].id = table[s].id
    <3>1. CASE SetLabel
      <4>1. slots' = slots /\ table' = [table EXCEPT ![detector.slot].label = detector.answer.label]
        BY <3>1 DEF SetLabel
      <4> QED
        BY <4>1, <1>0 DEF Example
    <3>2. CASE ~ SetLabel
      BY <3>2, <1>5 DEF Detector, Take, LookUp, AwaitChange, PrintAnswer, SortAnswer,
                        CastNew, PostSlot, CastEos, tableVars
    <3> QED
      BY <3>1, <3>2
  <2>2. detector.pc # "free"
    BY <1>5 DEF Detector, Take, LookUp, AwaitChange, SetLabel, PrintAnswer, SortAnswer,
                CastNew, PostSlot, CastEos
  <2>3. \A l \in Leaves : Out(l)' = Out(l)
    BY <2>2, <1>2
  <2>4. detector'.pc \in Handling =>
          /\ detector'.slot \in Slots
          /\ Holds(detector'.slot, detector'.from, detector'.answer.id)
    <3>1. ASSUME NEW k \in Leaves, Take(k) PROVE detector'.pc \notin Handling
      BY <3>1, TakeFields DEF DetectorAt, Handling
    <3>2. CASE LookUp
      <4>1. \/ detector'.pc = "wait"
            \/ \E m \in Slots :
                 /\ detector'.slot = m /\ detector'.from = detector.from
                 /\ detector'.answer = detector.answer
                 /\ Holds(m, detector.from, detector.answer.id)
        BY <3>2, DetectorFields DEF DetectorAt
      <4> QED
        BY <4>1 DEF Handling, Holds, Filling
    <3>3. CASE AwaitChange \/ PostSlot \/ CastEos
      BY <3>3, DetectorFields DEF DetectorAt, Handling
    <3>4. CASE SetLabel \/ PrintAnswer \/ SortAnswer \/ CastNew
      <4>1. /\ detector.pc \in Handling /\ detector'.from = detector.from
            /\ detector'.answer = detector.answer /\ detector'.slot = detector.slot
        BY <3>4, DetectorFields DEF DetectorAt, Handling
      <4> QED
        BY <4>1, <1>3 DEF Holds, Filling
    <3> QED
      BY <3>1, <3>2, <3>3, <3>4, <1>5 DEF Detector
  <2> QED
    BY <2>1, <2>3, <2>4, <1>4, HeldSame
<1>6. CASE FreeSlot
  <2> DEFINE m == detector.slot
             d == detector.from
             x0 == detector.answer.id
  <2>1. /\ detector.pc = "free" /\ detector'.pc = "post"
        /\ m \in Slots /\ d \in Leaves /\ Holds(m, d, x0)
    BY <1>6, <1>3, DetectorFields DEF DetectorAt, Handling
  <2>2. table' = table /\ slots' = [slots EXCEPT ![m] = slots[m] + MpiSize]
    BY <1>6 DEF FreeSlot
  <2>3. slots'[m] = d + MpiSize /\ \A s \in Slots : s # m => slots'[s] = slots[s]
    BY <2>1, <2>2, <1>0 DEF Holds
  <2>4. \A l \in Leaves : Out(l)' = Out(l) \ {x0}
    BY <2>1, <1>2
  <2> HIDE DEF m, d, x0
  <2>5. slots'[m] \notin Leaves
    BY <2>1, <2>3, Constants DEF Leaves
  <2>6. \A s \in Slots : slots'[s] \in Leaves => s # m /\ slots[s] = slots'[s]
    BY <2>3, <2>5
  <2>7. \A s \in Slots : slots'[s] \in Leaves /\ ~ Filling(s)' => table[s].id # x0
    <3> TAKE s \in Slots
    <3> HAVE slots'[s] \in Leaves /\ ~ Filling(s)'
    <3>1. s # m /\ slots[s] \in Leaves /\ ~ Filling(s)
      BY <2>6, <1>4
    <3> QED
      BY <3>1, <2>1 DEF HeldInv, Holds
  <2>8. \A l \in Leaves, s \in Slots : slots'[s] = l /\ ~ Filling(s)' => table'[s].id \in Out(l)'
    BY <2>2, <2>4, <2>6, <2>7, <1>4 DEF HeldInv
  <2>9. \A l \in Leaves : \A x \in Out(l)' : \E s \in Slots : Holds(s, l, x)'
    <3> TAKE l \in Leaves
    <3> TAKE x \in Out(l)'
    <3>1. x \in Out(l) /\ x # x0
      BY <2>4
    <3>2. PICK s \in Slots : Holds(s, l, x)
      BY <3>1 DEF HeldInv
    <3>3. s # m
      BY <3>1, <3>2, <2>1 DEF Holds
    <3>4. Holds(s, l, x)'
      BY <3>2, <3>3, <2>2, <2>3, <1>4 DEF Holds
    <3> QED
      BY <3>4
  <2>10. \A s, t \in Slots :
          /\ slots'[s] \in Leaves /\ ~ Filling(s)'
          /\ slots'[t] \in Leaves /\ ~ Filling(t)'
          /\ table'[s].id = table'[t].id
          => s = t
    BY <2>2, <2>6, <1>4 DEF HeldInv
  <2>11. detector'.pc \notin Handling
    BY <2>1 DEF Handling
  <2> QED
    BY <2>8, <2>9, <2>10, <2>11 DEF HeldInv, Leaves, Slots, Handling
<1> QED
  BY <1>5, <1>6

-----------------------------------------------------------------------------
\* The other slots.
LEMMA SamplerStale ==
  ASSUME TypeOK, LineInv, PlaceInv, HeldInv, StaleInv, LabelInv, Sampler
  PROVE  StaleInv'
<1>0. /\ slots \in [Slots -> 0..(2 * NLeaves + 1)] /\ table \in [Slots -> Example]
      /\ NLeaves \in Nat /\ MpiSize = NLeaves + 1 /\ 1 \in Slots
      /\ 0 \notin Leaves /\ Leaves \subseteq Nat /\ \A l \in Leaves : l < MpiSize
  BY Constants DEF TypeOK
<1>a. sampler.id \in Nat
  <2>1. sampler \in SamplerType
    BY DEF TypeOK, SamplerType
  <2> QED
    BY <2>1, Constants DEF SamplerType
<1>b. \A s \in Slots : slots[s] \in Nat /\ table[s].id \in Nat
  BY <1>0 DEF Example
<1>2. ASSUME NEW l \in Leaves
      PROVE  Out(l)' = IF sampler.pc = "fill" /\ l = sampler.dest
                         THEN Out(l) \cup {sampler.id} ELSE Out(l)
  BY SamplerOut
<1>4. CASE \/ ReadCluster \/ ReadExample \/ AwaitSlot \/ SendExample \/ EndOfInput
           \/ MarkLast \/ PackMarker \/ SendMarker
  <2>1. /\ sampler.pc # "fill" /\ sampler'.pc \notin {"fill", "send"}
        /\ sampler'.id = sampler.id /\ sampler'.slot = sampler.slot
    BY <1>4, SamplerFields DEF SamplerAt
  <2>2. slots' = slots /\ \A s \in Slots : table'[s].id = table[s].id
    <3>1. CASE MarkLast
      <4>1. slots' = slots /\ table' = [table EXCEPT ![sampler.slot].label = "eos"]
        BY <3>1 DEF MarkLast
      <4> QED
        BY <4>1, <1>0 DEF Example
    <3>2. CASE ~ MarkLast
      BY <3>2, <1>4 DEF ReadCluster, ReadExample, AwaitSlot, SendExample, EndOfInput,
                        PackMarker, SendMarker, tableVars
    <3> QED
      BY <3>1, <3>2
  <2>3. \A l \in Leaves : Out(l)' = Out(l)
    BY <2>1, <1>2
  <2>4. \A s \in Slots : Filling(s)' <=> Filling(s)
    BY <2>1 DEF Filling
  <2>5. sampler.id > 0 => sampler.slot \in Slots
    BY DEF PlaceInv
  <2> QED
    BY <2>1, <2>2, <2>3, <2>4, <2>5 DEF StaleInv, Leaves, Slots, MpiSize
<1>5. CASE FindSlot
  <2>1. /\ sampler.pc = "find" /\ table' = table /\ sampler'.id = sampler.id
        /\ \/ slots' = slots /\ sampler'.pc = "wait" /\ sampler'.slot = sampler.slot
           \/ \E d \in Leaves, m \in Slots :
                /\ sampler'.pc = "fill" /\ sampler'.slot = m /\ sampler'.dest = d
                /\ m \in FreeSlots(d) /\ \A s \in FreeSlots(d) : m <= s
                /\ slots' = [slots EXCEPT ![m] = d]
    BY <1>5, FindFields DEF SamplerAt
  <2>2. \A l \in Leaves : Out(l)' = Out(l)
    BY <2>1, <1>2
  <2>3. CASE slots' = slots /\ sampler'.pc = "wait" /\ sampler'.slot = sampler.slot
    <3>1. \A s \in Slots : Filling(s)' <=> Filling(s)
      BY <2>1, <2>3 DEF Filling
    <3> QED
      BY <2>1, <2>2, <2>3, <3>1 DEF StaleInv, Leaves, Slots, MpiSize
  <2>4. ASSUME NEW d \in Leaves, NEW m \in Slots,
               sampler'.pc = "fill", sampler'.slot = m, sampler'.dest = d,
               m \in FreeSlots(d), \A s \in FreeSlots(d) : m <= s,
               slots' = [slots EXCEPT ![m] = d]
        PROVE  StaleInv'
    <3>1. slots[m] = 0 \/ slots[m] > MpiSize
      BY <2>4 DEF FreeSlots
    <3>2. \A s \in Slots : ~ Filling(s) /\ (Filling(s)' <=> s = m)
      BY <2>1, <2>4 DEF Filling
    <3>3. slots'[m] = d /\ \A s \in Slots : s # m => slots'[s] = slots[s]
      BY <2>4, <1>0
    <3>4. d # MpiSize /\ d # 0 /\ ~ (d > MpiSize) /\ d \in Nat /\ MpiSize \in Nat
      BY <1>0
    <3>c1. \A s \in Slots : slots'[s] # MpiSize
      BY <3>3, <3>4 DEF StaleInv
    <3>c2. \A s \in Slots : table'[s].id < sampler'.id \/ table'[s].id = 0
      BY <2>1 DEF StaleInv
    <3>c3. \A s \in Slots : slots'[s] > MpiSize => \A l \in Leaves : table'[s].id \notin Out(l)'
      BY <2>1, <2>2, <3>3, <3>4 DEF StaleInv
    <3>c4. \A s \in Slots : slots'[s] = 0 => table'[s].id = 0
      BY <2>1, <3>3, <3>4 DEF StaleInv
    <3>c5. \A s \in Slots : table'[s].id = 0 /\ s # 1 => slots'[s] = 0 \/ Filling(s)'
      BY <2>1, <3>2, <3>3 DEF StaleInv
    <3>c6. sampler'.id > 0 => slots'[1] # 0
      BY <2>1, <3>3, <3>4, <1>0 DEF StaleInv
    <3>c7. sampler'.id = 0 =>
             /\ \A s \in Slots : slots'[s] = 0 \/ Filling(s)'
             /\ sampler'.slot = 1
      <4> HAVE sampler'.id = 0
      <4>1. \A s \in Slots : slots[s] = 0
        BY <2>1, <3>2 DEF StaleInv
      <4>2. 1 \in FreeSlots(d)
        BY <4>1, <1>0 DEF FreeSlots
      <4>3. m <= 1 /\ m \in Nat \ {0}
        BY <4>2, <2>4, Constants
      <4> QED
        BY <4>1, <4>3, <3>2, <3>3, <2>4
    <3>c8. \/ \A l \in Leaves : table'[m].id \notin Out(l)'
           \/ table'[m].id = 0 /\ m # 1
      <4>1. CASE slots[m] > MpiSize
        BY <4>1, <2>1, <2>2 DEF StaleInv
      <4>2. CASE slots[m] = 0
        <5>1. table[m].id = 0
          BY <4>2 DEF StaleInv
        <5>2. CASE m = 1
          <6>1. ~ (sampler.id > 0)
            BY <5>2, <4>2 DEF StaleInv
          <6>2. sampler.id = 0
            BY <6>1, <1>a
          <6>3. \A l \in Leaves : Out(l) \subseteq 0..(-1)
            BY <6>2, OutFacts
          <6> QED
            BY <6>3, <2>2
        <5> QED
          BY <5>1, <5>2, <2>1
      <4> QED
        BY <3>1, <4>1, <4>2
    <3> QED
      BY <3>c1, <3>c2, <3>c3, <3>c4, <3>c5, <3>c6, <3>c7, <3>c8, <3>3, <2>4
      DEF StaleInv, Leaves, Slots, MpiSize
  <2> QED
    BY <2>1, <2>3, <2>4
<1>6. CASE FillSlot
  <2> DEFINE m == sampler.slot
             d == sampler.dest
             x0 == sampler.id
  <2>1. /\ sampler.pc = "fill" /\ sampler'.pc = "send" /\ sampler'.id = x0 + 1
        /\ sampler'.slot = m /\ sampler'.dest = d
        /\ m \in Slots /\ d \in Leaves /\ slots[m] = d /\ x0 \in Nat
    BY <1>6, <1>a, SamplerFields DEF SamplerAt, PlaceInv, StaleInv
  <2>2. slots' = slots /\ table' = [table EXCEPT ![m].id = x0]
    BY <1>6 DEF FillSlot
  <2>3. table'[m].id = x0 /\ \A s \in Slots : s # m => table'[s] = table[s]
    BY <2>1, <2>2, <1>0 DEF Example
  <2>4. \A s \in Slots : (Filling(s) <=> s = m) /\ ~ Filling(s)'
    BY <2>1 DEF Filling
  <2>5. \A l \in Leaves : Out(l)' \subseteq Out(l) \cup {x0}
    BY <2>1, <1>2
  <2>6. d # MpiSize /\ d # 0 /\ ~ (d > MpiSize) /\ d \in Nat /\ MpiSize \in Nat
    BY <2>1, <1>0
  <2>7. x0 = 0 => m = 1 /\ \A s \in Slots : slots[s] = 0 \/ Filling(s)
    BY <2>1 DEF StaleInv
  <2>8. \A s \in Slots : table[s].id < x0 \/ table[s].id = 0
    BY DEF StaleInv
  <2>9. x0 > 0 => slots[1] # 0
    BY DEF StaleInv
  <2> HIDE DEF m, d, x0
  <2>c1. \A s \in Slots : slots'[s] # MpiSize
    BY <2>2 DEF StaleInv
  <2>c2. \A s \in Slots : table'[s].id < sampler'.id \/ table'[s].id = 0
    <3> TAKE s \in Slots
    <3>1. CASE s = m
      BY <3>1, <2>1, <2>3
    <3>2. CASE s # m
      BY <3>2, <2>1, <2>3, <2>8, <1>b
    <3> QED
      BY <3>1, <3>2
  <2>c3. \A s \in Slots : slots'[s] > MpiSize => \A l \in Leaves : table'[s].id \notin Out(l)'
    <3> TAKE s \in Slots
    <3> HAVE slots'[s] > MpiSize
    <3> TAKE l \in Leaves
    <3>1. s # m /\ slots[s] > MpiSize
      BY <2>1, <2>2, <2>6
    <3>2. table'[s] = table[s] /\ table[s].id \notin Out(l)
      BY <3>1, <2>3 DEF StaleInv
    <3>3. x0 # 0
      <4>1. slots[s] # 0 /\ ~ Filling(s)
        BY <3>1, <2>4, <2>6
      <4> QED
        BY <4>1, <2>7
    <3>4. table[s].id # x0
      BY <3>3, <2>8, <1>b, <2>1
    <3> QED
      BY <3>2, <3>4, <2>5
  <2>c4. \A s \in Slots : slots'[s] = 0 => table'[s].id = 0
    BY <2>1, <2>2, <2>3, <2>6 DEF StaleInv
  <2>c5. \A s \in Slots : table'[s].id = 0 /\ s # 1 => slots'[s] = 0 \/ Filling(s)'
    BY <2>2, <2>3, <2>4, <2>7 DEF StaleInv
  <2>c6. slots'[1] # 0
    <3>1. x0 = 0 => slots[1] = d
      BY <2>1, <2>7
    <3> QED
      BY <3>1, <2>1, <2>2, <2>6, <2>9
  <2>c7. sampler'.id > 0 /\ sampler'.id # 0 /\ sampler'.id - 1 = x0
    BY <2>1
  <2>c8. slots'[m] = d
    BY <2>1, <2>2
  <2> QED
    BY <2>c1, <2>c2, <2>c3, <2>c4, <2>c5, <2>c6, <2>c7, <2>c8, <2>1, <2>3
    DEF StaleInv, Leaves, Slots, MpiSize
<1> QED
  BY <1>4, <1>5, <1>6 DEF Sampler

LEMMA DetectorStale ==
  ASSUME TypeOK, LineInv, PlaceInv, HeldInv, StaleInv, LabelInv, Detector
  PROVE  StaleInv'
<1>0. /\ slots \in [Slots -> 0..(2 * NLeaves + 1)] /\ table \in [Slots -> Example]
      /\ NLeaves \in Nat /\ MpiSize = NLeaves + 1 /\ 1 \in Slots
      /\ 0 \notin Leaves /\ Leaves \subseteq Nat /\ \A l \in Leaves : l < MpiSize
  BY Constants DEF TypeOK
<1>a. sampler.id \in Nat
  <2>1. sampler \in SamplerType
    BY DEF TypeOK, SamplerType
  <2> QED
    BY <2>1, Constants DEF SamplerType
<1>b. \A s \in Slots : slots[s] \in Nat /\ table[s].id \in Nat
  BY <1>0 DEF Example
<1>2. ASSUME NEW l \in Leaves
      PROVE  Out(l)' = IF detector.pc = "free" THEN Out(l) \ {detector.answer.id} ELSE Out(l)
  BY DetectorOut
<1>3. sampler' = sampler /\ \A s \in Slots : Filling(s)' <=> Filling(s)
  BY DetectorRest
<1>4. sampler.id > 0 \/ sampler.pc = "fill" => sampler.slot \in Slots
  BY DEF PlaceInv
<1>5. CASE ~ FreeSlot
  <2>1. slots' = slots /\ \A s \in Slots : table'[s].id = table[s].id
    <3>1. CASE SetLabel
      <4>1. slots' = slots /\ table' = [table EXCEPT ![detector.slot].label = detector.answer.label]
        BY <3>1 DEF SetLabel
      <4> QED
        BY <4>1, <1>0 DEF Example
    <3>2. CASE ~ SetLabel
      BY <3>2, <1>5 DEF Detector, Take, LookUp, AwaitChange, PrintAnswer, SortAnswer,
                        CastNew, PostSlot, CastEos, tableVars
    <3> QED
      BY <3>1, <3>2
  <2>2. detector.pc # "free"
    BY <1>5 DEF Detector, Take, LookUp, AwaitChange, SetLabel, PrintAnswer, SortAnswer,
                CastNew, PostSlot, CastEos
  <2>3. \A l \in Leaves : Out(l)' = Out(l)
    BY <2>2, <1>2
  <2> QED
    BY <2>1, <2>3, <1>3, <1>4 DEF StaleInv, Leaves, Slots, MpiSize
<1>6. CASE FreeSlot
  <2> DEFINE m == detector.slot
             d == detector.from
             x0 == detector.answer.id
  <2>1. /\ detector.pc = "free" /\ m \in Slots /\ d \in Leaves
        /\ slots[m] = d /\ ~ Filling(m) /\ table[m].id = x0 /\ x0 \in Out(d)
    BY <1>6, HandledIsOut DEF FreeSlot, Handling
  <2>2. table' = table /\ slots' = [slots EXCEPT ![m] = slots[m] + MpiSize]
    BY <1>6 DEF FreeSlot
  <2>3. slots'[m] = d + MpiSize /\ \A s \in Slots : s # m => slots'[s] = slots[s]
    BY <2>1, <2>2, <1>0
  <2>4. \A l \in Leaves : Out(l)' = Out(l) \ {x0}
    BY <2>1, <1>2
  <2>5. sampler.pc = "send" => sampler.slot # m
    <3> SUFFICES ASSUME sampler.pc = "send", sampler.slot = m
                 PROVE  FALSE
      OBVIOUS
    <3>1. sampler.dest = d
      BY <2>1 DEF StaleInv
    <3>2. sampler.id > 0
      BY DEF PlaceInv
    <3>3. x0 = sampler.id - 1
      BY <2>1, <3>2 DEF StaleInv
    <3>4. AtSampler(d) = <<x0>> /\ AtDetector(d) = <<x0>>
      BY <2>1, <3>1, <3>3 DEF AtSampler, AtDetector, Handling
    <3>5. Line(d) = <<x0>> \o Rest(d) /\ Rest(d) \in Seq(Nat) /\ x0 \in Elements(Rest(d))
      <4>1. Elements(AtSampler(d)) = {x0}
        BY <3>4, ElementsOne
      <4>2. Line(d) = AtDetector(d) \o Rest(d) /\ Rest(d) \in Seq(Nat)
            /\ Elements(AtSampler(d)) \subseteq Elements(Rest(d))
        BY <2>1, LineParts
      <4> QED
        BY <3>4, <4>1, <4>2
    <3>6. x0 \in Nat
      BY <2>1, <1>b
    <3> HIDE DEF x0, d, m
    <3>7. Line(d) # <<>> /\ Head(Line(d)) = x0 /\ Tail(Line(d)) = Rest(d)
      BY <3>5, <3>6, ConcatHead
    <3>8. Line(d) \in Seq(Nat) /\ Increasing(Line(d))
      BY <2>1, OutFacts
    <3>9. Elements(Tail(Line(d))) = Elements(Line(d)) \ {Head(Line(d))}
      BY <3>7, <3>8, IncreasingTail
    <3> QED
      BY <3>5, <3>7, <3>9
  <2>6. sampler.pc = "fill" => sampler.slot # m
    BY <2>1 DEF Filling
  <2> HIDE DEF m, d, x0
  <2>7. d + MpiSize # MpiSize /\ d + MpiSize # 0 /\ d + MpiSize > MpiSize /\ d # 0
    BY <2>1, <1>0
  <2>8. sampler.id # 0
    <3>1. slots[m] # 0 /\ ~ Filling(m)
      BY <2>1, <2>7
    <3> QED
      BY <2>1, <3>1 DEF StaleInv
  <2>c1. \A s \in Slots : slots'[s] # MpiSize
    BY <2>3, <2>7 DEF StaleInv
  <2>c3. \A s \in Slots : slots'[s] > MpiSize => \A l \in Leaves : table'[s].id \notin Out(l)'
    <3> TAKE s \in Slots
    <3>1. CASE s = m
      BY <3>1, <2>1, <2>2, <2>4
    <3>2. CASE s # m
      BY <3>2, <2>2, <2>3, <2>4 DEF StaleInv
    <3> QED
      BY <3>1, <3>2
  <2>c4. \A s \in Slots : slots'[s] = 0 => table'[s].id = 0
    BY <2>2, <2>3, <2>7 DEF StaleInv
  <2>c5. \A s \in Slots : table'[s].id = 0 /\ s # 1 => slots'[s] = 0 \/ Filling(s)'
    <3> TAKE s \in Slots
    <3>1. CASE s = m
      <4>1. slots[m] # 0 /\ ~ Filling(m)
        BY <2>1, <2>7
      <4> QED
        BY <3>1, <4>1, <2>2 DEF StaleInv
    <3>2. CASE s # m
      BY <3>2, <2>2, <2>3, <1>3 DEF StaleInv
    <3> QED
      BY <3>1, <3>2
  <2>c6. slots'[1] # 0
    <3>1. sampler.id > 0
      BY <2>8, <1>a
    <3> QED
      BY <3>1, <2>3, <2>7, <1>0 DEF StaleInv
  <2>c2. \A s \in Slots : table'[s].id < sampler'.id \/ table'[s].id = 0
    BY <2>2, <1>3 DEF StaleInv
  <2>c8. sampler'.pc = "fill" =>
           /\ slots'[sampler'.slot] = sampler'.dest
           /\ \/ \A l \in Leaves : table'[sampler'.slot].id \notin Out(l)'
              \/ table'[sampler'.slot].id = 0 /\ sampler'.slot # 1
    BY <2>2, <2>3, <2>4, <2>6, <1>3, <1>4 DEF StaleInv
  <2>c9. sampler'.pc = "send" => slots'[sampler'.slot] = sampler'.dest
    <3>1. sampler.pc = "send" => sampler.slot \in Slots /\ sampler.slot # m
      BY <2>5, <2>8, <1>a, <1>4
    <3> QED
      BY <3>1, <2>3, <1>3 DEF StaleInv
  <2>c10. sampler'.id > 0 /\ sampler'.pc # "fill" => table'[sampler'.slot].id = sampler'.id - 1
    BY <2>2, <1>3 DEF StaleInv
  <2> QED
    BY <2>c1, <2>c2, <2>c3, <2>c4, <2>c5, <2>c6, <2>8, <2>c8, <2>c9, <2>c10, <1>3
    DEF StaleInv, Leaves, Slots, MpiSize
<1> QED
  BY <1>5, <1>6

-----------------------------------------------------------------------------
\* Labels.
LEMMA SamplerLabel ==
  ASSUME TypeOK, LineInv, PlaceInv, HeldInv, StaleInv, LabelInv, Sampler
  PROVE  LabelInv'
<1>0. table \in [Slots -> Example]
  BY DEF TypeOK
<1>1. UNCHANGED <<detector, output, answers, classifier>>
  BY DEF Sampler, ReadCluster, ReadExample, FindSlot, AwaitSlot, FillSlot, SendExample,
         EndOfInput, MarkLast, PackMarker, SendMarker, samplerRest, leafVars
<1>2. detector.pc \in {"print", "sort"} => detector.slot \in Slots
  BY DEF PlaceInv, Handling
<1>3. CASE MarkLast
  <2>1. /\ sampler.pc = "mark" /\ sampler'.pc = "pack" /\ sampler'.id = sampler.id
        /\ sampler'.slot = sampler.slot
    BY <1>3, SamplerFields DEF SamplerAt
  <2>2. sampler.slot \in Slots
    BY <2>1 DEF PlaceInv
  <2>3. table' = [table EXCEPT ![sampler.slot].label = "eos"]
    BY <1>3 DEF MarkLast
  <2>4. /\ table'[sampler.slot].label = "eos"
        /\ \A s \in Slots : s # sampler.slot => table'[s] = table[s]
    BY <2>2, <2>3, <1>0 DEF Example
  <2>5. \A s \in Slots : table[s].label # "eos"
    BY <2>1 DEF LabelInv
  <2>6. \A s \in Slots : table'[s].label = "eos" => s = sampler.slot
    BY <2>4, <2>5
  <2>7. detector.pc \in {"print", "sort"} =>
          table'[detector.slot].label \in Answers \cup {"eos"}
    BY <2>4, <1>2 DEF LabelInv
  <2> QED
    BY <2>1, <2>4, <2>6, <2>7, <1>1 DEF LabelInv, Leaves, Slots, Busy
<1>4. CASE ~ MarkLast
  <2>1. \A s \in Slots : table'[s].label = table[s].label
    <3>1. CASE FillSlot
      <4>1. table' = [table EXCEPT ![sampler.slot].id = sampler.id]
        BY <3>1 DEF FillSlot
      <4> QED
        BY <4>1, <1>0 DEF Example
    <3>2. CASE ~ FillSlot
      BY <3>2, <1>4 DEF Sampler, ReadCluster, ReadExample, AwaitSlot, FindSlot, SendExample,
                        EndOfInput, PackMarker, SendMarker, tableVars
    <3> QED
      BY <3>1, <3>2
  <2>2. sampler'.pc # "pack"
        /\ (sampler.pc \in {"pack", "eos", "done"} =>
              /\ sampler'.pc \in {"eos", "done"} /\ sampler'.slot = sampler.slot
              /\ sampler'.id = sampler.id)
    <3>1. CASE ReadCluster \/ ReadExample \/ AwaitSlot \/ FillSlot \/ SendExample \/ EndOfInput
      BY <3>1, SamplerFields DEF SamplerAt
    <3>2. CASE FindSlot
      BY <3>2, FindFields DEF SamplerAt
    <3>3. CASE PackMarker \/ SendMarker
      BY <3>3, SamplerFields DEF SamplerAt
    <3> QED
      BY <3>1, <3>2, <3>3, <1>4 DEF Sampler
  <2>3. detector.pc \in {"print", "sort"} =>
          table'[detector.slot].label \in Answers \cup {"eos"}
    BY <2>1, <1>2 DEF LabelInv
  <2>4. \A s \in Slots : table'[s].label = "eos" =>
           sampler'.pc \in {"pack", "eos", "done"} /\ s = sampler'.slot
    BY <2>1, <2>2 DEF LabelInv
  <2>5. \A i \in 1..Len(output) :
           \/ output[i].label \in Answers
           \/ /\ output[i].label = "eos" /\ output[i].id = sampler'.id - 1
              /\ sampler'.pc \in {"pack", "eos", "done"}
    BY <2>2 DEF LabelInv
  <2> QED
    BY <2>2, <2>3, <2>4, <2>5, <1>1 DEF LabelInv, Leaves, Slots, Busy
<1> QED
  BY <1>3, <1>4

LEMMA LeafLabel ==
  ASSUME TypeOK, LineInv, PlaceInv, LabelInv, NEW k \in Leaves, LeafThreads(k)
  PROVE  LabelInv'
<1>1. /\ UNCHANGED <<table, sampler, detector, output>>
      /\ \A l \in Leaves : Out(l)' = Out(l)
  BY LeafRest, LeafOut DEF tableVars
<1>2. ASSUME NEW l \in Leaves, l # k
      PROVE  answers'[l] = answers[l] /\ classifier'[l] = classifier[l]
  BY <1>2, OtherLeaf
<1>3. /\ \A i \in 1..Len(answers'[k]) : answers'[k][i].label \in Answers \cup {"eos"}
      /\ classifier'[k].pc \in Busy => classifier'[k].example.label # "eos"
  <2>0. answers[k] \in Seq(Answer) /\ classifier[k] \in ClassifierType
    BY DEF TypeOK, ClassifierType
  <2>1. ASSUME NEW e, e.label \in Answers \cup {"eos"}, e \in Answer,
               answers'[k] = Append(answers[k], e)
        PROVE  \A i \in 1..Len(answers'[k]) : answers'[k][i].label \in Answers \cup {"eos"}
    <3> TAKE i \in 1..Len(answers'[k])
    <3>1. /\ Len(answers'[k]) = Len(answers[k]) + 1 /\ Len(answers[k]) \in Nat
          /\ answers'[k][Len(answers[k]) + 1] = e
          /\ \A j \in 1..Len(answers[k]) : answers'[k][j] = answers[k][j]
      BY <2>0, <2>1
    <3>2. CASE i = Len(answers[k]) + 1
      BY <3>1, <3>2, <2>1
    <3>3. CASE i # Len(answers[k]) + 1
      <4>1. i \in 1..Len(answers[k])
        BY <3>1, <3>3
      <4> QED
        BY <3>1, <4>1 DEF LabelInv
    <3> QED
      BY <3>2, <3>3
  <2>2. CASE Receive(k)
    <3> DEFINE h == Head(examples[k])
    <3>1. /\ h \in Answer
          /\ \/ /\ h.label = "eos" /\ answers'[k] = Append(answers[k], h)
                /\ classifier'[k] = [classifier[k] EXCEPT !.pc = "done"]
             \/ /\ h.label # "eos" /\ answers'[k] = answers[k]
                /\ classifier'[k] = [pc |-> "check", example |-> h]
      BY <2>2, ReceiveLine
    <3> HIDE DEF h
    <3>2. CASE /\ h.label = "eos" /\ answers'[k] = Append(answers[k], h)
               /\ classifier'[k] = [classifier[k] EXCEPT !.pc = "done"]
      <4>1. classifier'[k].pc \notin Busy
        BY <3>2, <2>0 DEF ClassifierType, Busy
      <4> QED
        BY <3>1, <3>2, <4>1, <2>1
    <3>3. CASE /\ h.label # "eos" /\ answers'[k] = answers[k]
               /\ classifier'[k] = [pc |-> "check", example |-> h]
      BY <3>3 DEF LabelInv
    <3> QED
      BY <3>1, <3>2, <3>3
  <2>3. CASE IdentifyAndSend(k)
    <3>1. classifier'[k].pc \notin Busy
      BY <2>3, IdentifyLine DEF Busy
    <3>2. PICK label \in Answers :
            answers'[k] = Append(answers[k], [id |-> classifier[k].example.id, label |-> label])
      BY <2>3, IdentifyLine
    <3> DEFINE e == [id |-> classifier[k].example.id, label |-> label]
    <3>3. e.label \in Answers \cup {"eos"}
      OBVIOUS
    <3>4. e \in Answer
      <4>1. classifier[k].example \in Answer
        BY PartTypes
      <4>2. classifier[k].example.id \in Nat /\ label \in Labels
        BY <4>1, Constants DEF Answer, Labels
      <4> QED
        BY <4>2 DEF Answer
    <3> HIDE DEF e
    <3> QED
      BY <3>1, <3>2, <3>3, <3>4, <2>1 DEF e
  <2>4. CASE CheckModel(k) \/ AwaitModel(k) \/ Hear(k) \/ AddHeard(k)
    <3>1. /\ answers' = answers /\ classifier'[k].example = classifier[k].example
          /\ classifier'[k].pc \in Busy => classifier[k].pc \in Busy
      BY <2>4, QuietLeaf
    <3> QED
      BY <3>1 DEF LabelInv
  <2> QED
    BY <2>2, <2>3, <2>4 DEF LeafThreads, Classifier
<1>4. \A l \in Leaves : \A i \in 1..Len(answers'[l]) : answers'[l][i].label \in Answers \cup {"eos"}
  BY <1>2, <1>3 DEF LabelInv
<1>5. \A l \in Leaves : classifier'[l].pc \in Busy => classifier'[l].example.label # "eos"
  BY <1>2, <1>3 DEF LabelInv
<1> QED
  BY <1>1, <1>4, <1>5 DEF LabelInv, Leaves, Slots, Busy, Handling

LEMMA DetectorLabel ==
  ASSUME TypeOK, LineInv, PlaceInv, HeldInv, StaleInv, LabelInv, Detector
  PROVE  LabelInv'
<1>0. /\ table \in [Slots -> Example] /\ output \in Seq(Answer)
  BY DEF TypeOK
<1>1. sampler' = sampler /\ classifier' = classifier
  BY DetectorRest DEF leafVars
<1>2. ASSUME NEW l \in Leaves
      PROVE  Out(l)' = IF detector.pc = "free" THEN Out(l) \ {detector.answer.id} ELSE Out(l)
  BY DetectorOut
<1>3. ASSUME NEW k \in Leaves, Take(k)
      PROVE  LabelInv'
  <2>1. /\ detector.pc = "take"
        /\ Head(answers[k]).label = "eos" => detector'.pc = "take"
        /\ Head(answers[k]).label # "eos" =>
             detector'.pc = "find" /\ detector'.answer = Head(answers[k])
    BY <1>3, TakeFields DEF DetectorAt
  <2>2. UNCHANGED <<table, output>> /\ answers[k] # <<>> /\ answers[k] \in Seq(Answer)
    BY <1>3 DEF Take, tableVars, TypeOK
  <2>3. \A l \in Leaves : answers'[l] = IF l = k THEN Tail(answers[k]) ELSE answers[l]
    BY <1>3, TakeLine
  <2>4. \A l \in Leaves : \A i \in 1..Len(answers'[l]) : answers'[l][i].label \in Answers \cup {"eos"}
    <3> TAKE l \in Leaves
    <3> TAKE i \in 1..Len(answers'[l])
    <3>1. CASE l = k
      <4> DEFINE q == answers[k]
      <4>1. q \in Seq(Answer) /\ q # <<>> /\ i \in 1..Len(Tail(q)) /\ answers'[l] = Tail(q)
        BY <3>1, <2>2, <2>3
      <4>2. \A j \in 1..Len(q) : q[j].label \in Answers \cup {"eos"}
        BY DEF LabelInv
      <4> HIDE DEF q
      <4>3. i + 1 \in 1..Len(q) /\ Tail(q)[i] = q[i + 1]
        BY <4>1
      <4> QED
        BY <4>1, <4>2, <4>3
    <3>2. CASE l # k
      BY <3>2, <2>3 DEF LabelInv
    <3> QED
      BY <3>1, <3>2
  <2>5. Head(answers[k]).label \in Answers \cup {"eos"}
    <3>1. 1 \in 1..Len(answers[k]) /\ Head(answers[k]) = answers[k][1]
      BY <2>2
    <3> QED
      BY <3>1 DEF LabelInv
  <2>6. detector'.pc \in {"find", "wait", "label"} => detector'.answer.label \in Answers
    BY <2>1, <2>5
  <2>7. sampler.pc = "pack" /\ table[sampler.slot].label # "eos" =>
          \A l \in Leaves : sampler.id - 1 \notin Out(l)'
    BY <2>1, <1>2 DEF LabelInv, Handling
  <2> QED
    BY <2>1, <2>2, <2>4, <2>6, <2>7, <1>1 DEF LabelInv, Leaves, Slots, Busy, Handling
<1>4. CASE SetLabel
  <2> DEFINE m == detector.slot
             d == detector.from
             x0 == detector.answer.id
  <2>1. /\ detector.pc = "label" /\ detector'.pc = "print" /\ detector'.slot = m
        /\ detector'.from = d /\ detector'.answer = detector.answer
    BY <1>4, DetectorFields DEF DetectorAt
  <2>2. /\ m \in Slots /\ d \in Leaves /\ table[m].id = x0 /\ x0 \in Out(d)
    BY <2>1, HandledIsOut DEF Handling
  <2>3. UNCHANGED <<output, answers>> /\ table' = [table EXCEPT ![m].label = detector.answer.label]
    BY <1>4 DEF SetLabel
  <2>4. /\ table'[m].label = detector.answer.label
        /\ \A s \in Slots : s # m => table'[s] = table[s]
    BY <2>2, <2>3, <1>0 DEF Example
  <2>5. detector.answer.label \in Answers /\ "eos" \notin Answers
    BY <2>1, Constants DEF LabelInv
  <2> HIDE DEF m, d, x0
  <2>6. \A s \in Slots : table'[s].label = "eos" =>
           sampler.pc \in {"pack", "eos", "done"} /\ s = sampler.slot
    BY <2>4, <2>5 DEF LabelInv
  <2>7. sampler.pc = "pack" /\ table'[sampler.slot].label # "eos" =>
          \A l \in Leaves : sampler.id - 1 \in Out(l)' =>
            /\ detector'.pc \in Handling \ {"label"} /\ detector'.from = l
            /\ detector'.answer.id = sampler.id - 1
    <3> HAVE sampler.pc = "pack" /\ table'[sampler.slot].label # "eos"
    <3> TAKE l \in Leaves
    <3> HAVE sampler.id - 1 \in Out(l)'
    <3>0. sampler.id > 0 /\ sampler.slot \in Slots
      BY DEF PlaceInv
    <3>1. sampler.id - 1 \in Out(l)
      BY <2>1, <1>2
    <3>2. CASE sampler.slot = m
      <4>1. x0 = sampler.id - 1
        BY <3>0, <3>2, <2>2 DEF StaleInv
      <4>2. l = d
        BY <3>1, <4>1, <2>2, OneLeaf
      <4> QED
        BY <4>1, <4>2, <2>1 DEF Handling, x0, d
    <3>3. CASE sampler.slot # m
      <4>1. table[sampler.slot].label # "eos"
        BY <3>0, <3>3, <2>4
      <4> QED
        BY <3>1, <4>1, <2>1 DEF LabelInv
    <3> QED
      BY <3>2, <3>3
  <2>8. table'[detector'.slot].label \in Answers \cup {"eos"}
    BY <2>1, <2>4, <2>5
  <2> QED
    BY <2>1, <2>3, <2>5, <2>6, <2>7, <2>8, <1>1 DEF LabelInv, Leaves, Slots, Busy, Handling
<1>5. CASE PrintAnswer
  <2> DEFINE m == detector.slot
             e == table[m]
  <2>1. /\ detector.pc = "print" /\ detector'.pc = "sort" /\ detector'.slot = m
        /\ detector'.from = detector.from /\ detector'.answer = detector.answer
    BY <1>5, DetectorFields DEF DetectorAt
  <2>2. m \in Slots /\ e \in Answer
    BY <2>1, <1>0 DEF PlaceInv, Handling, Example, Answer
  <2>3. UNCHANGED <<table, answers>> /\ output' = Append(output, e)
    BY <1>5 DEF PrintAnswer, tableVars
  <2>4. e.label \in Answers \cup {"eos"}
    BY <2>1 DEF LabelInv
  <2>5. e.label = "eos" => sampler.pc \in {"pack", "eos", "done"} /\ e.id = sampler.id - 1
    <3> HAVE e.label = "eos"
    <3>1. sampler.pc \in {"pack", "eos", "done"} /\ m = sampler.slot
      BY <2>2 DEF LabelInv
    <3>2. sampler.id > 0 /\ sampler.pc # "fill"
      BY <3>1 DEF PlaceInv
    <3> QED
      BY <3>1, <3>2 DEF StaleInv
  <2>8. table'[detector'.slot].label \in Answers \cup {"eos"}
    BY <2>1, <2>3, <2>4
  <2> HIDE DEF m, e
  <2>6. \A i \in 1..Len(output') :
           \/ output'[i].label \in Answers
           \/ /\ output'[i].label = "eos" /\ output'[i].id = sampler.id - 1
              /\ sampler.pc \in {"pack", "eos", "done"}
    <3> TAKE i \in 1..Len(output')
    <3>1. /\ Len(output') = Len(output) + 1 /\ Len(output) \in Nat
          /\ output'[Len(output) + 1] = e
          /\ \A j \in 1..Len(output) : output'[j] = output[j]
      BY <2>2, <2>3, <1>0
    <3>2. CASE i = Len(output) + 1
      BY <3>1, <3>2, <2>4, <2>5
    <3>3. CASE i # Len(output) + 1
      <4>1. i \in 1..Len(output)
        BY <3>1, <3>3
      <4> QED
        BY <3>1, <4>1 DEF LabelInv
    <3> QED
      BY <3>2, <3>3
  <2>7. sampler.pc = "pack" /\ table'[sampler.slot].label # "eos" =>
          \A l \in Leaves : sampler.id - 1 \in Out(l)' =>
            /\ detector'.pc \in Handling \ {"label"} /\ detector'.from = l
            /\ detector'.answer.id = sampler.id - 1
    BY <2>1, <2>3, <1>2 DEF LabelInv, Handling
  <2> QED
    BY <2>1, <2>3, <2>6, <2>7, <2>8, <1>1 DEF LabelInv, Leaves, Slots, Busy, Handling
<1>6. CASE \/ LookUp \/ AwaitChange \/ SortAnswer \/ CastNew \/ FreeSlot \/ PostSlot \/ CastEos
  <2>1. UNCHANGED <<table, answers, output>>
    BY <1>6 DEF LookUp, AwaitChange, SortAnswer, CastNew, FreeSlot, PostSlot, CastEos, tableVars
  <2>2. /\ detector'.pc \notin {"print", "sort"}
        /\ detector'.pc \in {"find", "wait", "label"} =>
             /\ detector.pc \in {"find", "wait", "label"} /\ detector'.answer = detector.answer
    <3>1. CASE LookUp
      BY <3>1, DetectorFields DEF DetectorAt
    <3>2. CASE AwaitChange \/ SortAnswer
      BY <3>2, DetectorFields DEF DetectorAt
    <3>3. CASE CastNew \/ FreeSlot \/ PostSlot \/ CastEos
      BY <3>3, DetectorFields DEF DetectorAt
    <3> QED
      BY <3>1, <3>2, <3>3, <1>6
  <2>3. sampler.pc = "pack" /\ table[sampler.slot].label # "eos" =>
          \A l \in Leaves : sampler.id - 1 \in Out(l)' =>
            /\ detector'.pc \in Handling \ {"label"} /\ detector'.from = l
            /\ detector'.answer.id = sampler.id - 1
    <3>1. CASE LookUp \/ AwaitChange \/ PostSlot \/ CastEos
      <4>1. detector.pc \notin Handling /\ detector.pc # "free"
        BY <3>1 DEF LookUp, AwaitChange, PostSlot, CastEos, Handling
      <4> QED
        BY <4>1, <1>2 DEF LabelInv
    <3>2. CASE SortAnswer \/ CastNew
      <4>1. /\ detector.pc # "free" /\ detector'.pc \in {"free", "failed", "cast"}
            /\ detector'.from = detector.from /\ detector'.answer = detector.answer
        BY <3>2, DetectorFields DEF DetectorAt
      <4> QED
        BY <4>1, <1>2 DEF LabelInv, Handling
    <3>3. CASE FreeSlot
      <4>1. detector.pc = "free"
        BY <3>3 DEF FreeSlot
      <4> QED
        BY <4>1, <1>2 DEF LabelInv
    <3> QED
      BY <3>1, <3>2, <3>3, <1>6
  <2> QED
    BY <2>1, <2>2, <2>3, <1>1 DEF LabelInv, Leaves, Slots, Busy, Handling
<1> QED
  BY <1>3, <1>4, <1>5, <1>6 DEF Detector

-----------------------------------------------------------------------------
\* Markers.
LEMMA IncreasingParts ==
  ASSUME NEW p \in Seq(Nat), NEW q \in Seq(Nat), Increasing(p \o q)
  PROVE  Increasing(p) /\ Increasing(q)
<1> DEFINE m == Len(p)
           n == Len(q)
           c == p \o q
<1>1. m \in Nat /\ n \in Nat /\ Len(c) = m + n
      /\ (\A i \in 1..m : c[i] = p[i]) /\ \A i \in 1..n : c[m + i] = q[i]
  OBVIOUS
<1>2. \A i, j \in 1..(m + n) : i < j => c[i] < c[j]
  BY <1>1 DEF Increasing
<1> HIDE DEF c
<1>3. Increasing(p)
  <2> SUFFICES ASSUME NEW i \in 1..m, NEW j \in 1..m, i < j
               PROVE  p[i] < p[j]
    BY DEF Increasing
  <2> HIDE DEF m, n
  <2>1. i \in 1..(m + n) /\ j \in 1..(m + n)
    BY <1>1
  <2>2. c[i] < c[j]
    BY <1>2, <2>1
  <2> QED
    BY <1>1, <2>2
<1>4. Increasing(q)
  <2> SUFFICES ASSUME NEW i \in 1..n, NEW j \in 1..n, i < j
               PROVE  q[i] < q[j]
    BY DEF Increasing
  <2> HIDE DEF m, n
  <2>1. m + i \in 1..(m + n) /\ m + j \in 1..(m + n) /\ m + i < m + j
    BY <1>1
  <2>2. c[m + i] < c[m + j]
    BY <1>2, <2>1
  <2> QED
    BY <1>1, <2>2
<1> QED
  BY <1>3, <1>4

\* Nothing follows an end marker.
LEMMA MarkerIsLast ==
  ASSUME TypeOK, PlaceInv, LineInv, NEW l \in Leaves,
         examples[l] # <<>>, Head(examples[l]).label = "eos"
  PROVE  Tail(examples[l]) = <<>>
<1> DEFINE q == examples[l]
           e == Values(q, Ghost)
           n == Len(q)
<1>1. /\ q \in Seq(Answer) /\ q # <<>> /\ e \in Seq(Nat) /\ AtSampler(l) \in Seq(Nat)
      /\ AtClassifier(l) \in Seq(Nat) /\ AtDetector(l) \in Seq(Nat)
      /\ Values(answers[l], Ghost) \in Seq(Nat)
  BY PartTypes
<1>2. n \in Nat /\ n > 0 /\ Len(e) = n /\ \A i \in 1..n : e[i] = Value(q[i], Ghost)
  BY <1>1, ValuesType
<1>3. e[1] = End
  <2>1. Head(q) = q[1] /\ 1 \in 1..n
    BY <1>1
  <2>2. Value(q[1], Ghost) = End
    BY <2>1 DEF Value
  <2> QED
    BY <1>2, <2>1, <2>2
<1>4. Increasing(e)
  <2> DEFINE d == AtDetector(l) \o Values(answers[l], Ghost)
             r == e \o AtSampler(l)
  <2>1. d \in Seq(Nat) /\ r \in Seq(Nat) /\ AtClassifier(l) \o r \in Seq(Nat)
    BY <1>1, ElementsConcat
  <2>2. Increasing(d \o (AtClassifier(l) \o r))
    BY OutFacts DEF Line
  <2>3. Increasing(AtClassifier(l) \o r)
    <3> HIDE DEF d, r
    <3> QED
      BY <2>1, <2>2, IncreasingParts
  <2>4. Increasing(r)
    <3> HIDE DEF d, r
    <3> QED
      BY <1>1, <2>1, <2>3, IncreasingParts
  <2> HIDE DEF e
  <2> QED
    BY <1>1, <2>4, IncreasingParts
<1>5. \A i \in 1..n : e[i] <= End
  <2>1. Elements(e) \subseteq Elements(Line(l))
    BY LineParts
  <2>2. \A x \in Elements(Line(l)) : x <= End
    BY OutFacts
  <2> QED
    BY <1>2, <2>1, <2>2 DEF Elements
<1> HIDE DEF e
<1>6. ~ (n >= 2)
  <2> SUFFICES ASSUME n >= 2
               PROVE  FALSE
    OBVIOUS
  <2>1. 1 \in 1..n /\ 2 \in 1..n
    BY <1>2
  <2>2. e[1] < e[2]
    BY <1>2, <1>4, <2>1 DEF Increasing
  <2>3. e[2] <= End /\ e[2] \in Nat /\ End \in Nat
    BY <1>1, <1>2, <1>5, <2>1, Constants
  <2> QED
    BY <1>3, <2>2, <2>3
<1> HIDE DEF q
<1>7. n = 1
  BY <1>2, <1>6
<1>8. Tail(q) = <<>>
  <2>1. Tail(q) \in Seq(Answer) /\ Len(Tail(q)) = n - 1
    BY <1>1
  <2>2. Len(Tail(q)) = 0
    BY <2>1, <1>7
  <2> QED
    BY <2>1, <2>2, EmptySeq
<1> QED
  BY <1>8 DEF q

LEMMA SamplerMarker ==
  ASSUME TypeOK, LineInv, PlaceInv, StaleInv, LabelInv, MarkerInv, Sampler
  PROVE  MarkerInv'
<1>1. UNCHANGED <<answers, classifier>>
  BY DEF Sampler, ReadCluster, ReadExample, FindSlot, AwaitSlot, FillSlot, SendExample,
         EndOfInput, MarkLast, PackMarker, SendMarker, samplerRest, leafVars
<1>2. ASSUME \A l \in Leaves : ~ MarkerSent(l) /\ ~ MarkerSent(l)',
             \A l \in Leaves : \A i \in 1..Len(examples'[l]) : examples'[l][i].label # "eos"
      PROVE  MarkerInv'
  BY <1>1, <1>2 DEF MarkerInv, Leaves
<1>3. ASSUME \A l \in Leaves : ~ MarkerSent(l) /\ ~ MarkerSent(l)', examples' = examples
      PROVE  MarkerInv'
  BY <1>2, <1>3 DEF MarkerInv
<1>4. CASE ReadCluster \/ ReadExample \/ FindSlot \/ AwaitSlot \/ EndOfInput \/ MarkLast
  <2>1. \A l \in Leaves :
          /\ sampler.pc \notin {"send", "eos", "done"} /\ sampler'.pc \notin {"send", "eos", "done"}
          /\ examples' = examples
    BY <1>4, QuietSampler
  <2>2. \A l \in Leaves : ~ MarkerSent(l) /\ ~ MarkerSent(l)'
    BY <2>1 DEF MarkerSent
  <2>3. examples' = examples
    BY <2>1, Constants
  <2> QED
    BY <2>2, <2>3, <1>3
<1>5. CASE FillSlot
  <2>1. \A l \in Leaves :
          ~ MarkerSent(l) /\ MarkerSent(l)' = MarkerSent(l) /\ examples' = examples
    BY <1>5, FillLine
  <2>2. examples' = examples
    BY <2>1, Constants
  <2> QED
    BY <2>1, <2>2, <1>3
<1>6. CASE PackMarker
  <2>1. \A l \in Leaves : ~ MarkerSent(l) /\ ~ MarkerSent(l)' /\ examples' = examples
    BY <1>6, PackLine
  <2>2. examples' = examples
    BY <2>1, Constants
  <2> QED
    BY <2>1, <2>2, <1>3
<1>7. CASE SendExample
  <2> DEFINE e == table[sampler.slot]
  <2>1. \A l \in Leaves :
         /\ ~ MarkerSent(l) /\ ~ MarkerSent(l)'
         /\ e.label # "eos" /\ e \in Answer
         /\ \/ examples'[l] = Append(examples[l], e)
            \/ examples'[l] = examples[l]
    BY <1>7, SendLine
  <2> HIDE DEF e
  <2>2. \A l \in Leaves : \A i \in 1..Len(examples'[l]) : examples'[l][i].label # "eos"
    <3> TAKE l \in Leaves
    <3>1. \A i \in 1..Len(examples[l]) : examples[l][i].label # "eos"
      BY <2>1 DEF MarkerInv
    <3>2. CASE examples'[l] = examples[l]
      BY <3>1, <3>2
    <3>3. CASE examples'[l] = Append(examples[l], e)
      <4> TAKE i \in 1..Len(examples'[l])
      <4>0. examples[l] \in Seq(Answer)
        BY PartTypes
      <4>1. /\ Len(examples'[l]) = Len(examples[l]) + 1 /\ Len(examples[l]) \in Nat
            /\ examples'[l][Len(examples[l]) + 1] = e
            /\ \A j \in 1..Len(examples[l]) : examples'[l][j] = examples[l][j]
        BY <3>3, <4>0, <2>1
      <4>2. CASE i = Len(examples[l]) + 1
        BY <4>1, <4>2, <2>1
      <4>3. CASE i # Len(examples[l]) + 1
        <5>1. i \in 1..Len(examples[l])
          BY <4>1, <4>3
        <5> QED
          BY <3>1, <4>1, <5>1
      <4> QED
        BY <4>2, <4>3
    <3> QED
      BY <2>1, <3>2, <3>3
  <2> QED
    BY <2>1, <2>2, <1>2
<1>8. CASE SendMarker
  <2> DEFINE e == sampler.marker
             d == sampler.dest
  <2>1. \A l \in Leaves :
         /\ e \in Answer /\ d \in Leaves
         /\ MarkerSent(l)' = (MarkerSent(l) \/ l = d) /\ ~ MarkerSent(d)
         /\ sampler'.marker = e
         /\ examples'[l] = IF l = d THEN Append(examples[l], e) ELSE examples[l]
    BY <1>8, MarkerLine
  <2>2. e \in Answer /\ d \in Leaves /\ ~ MarkerSent(d) /\ sampler'.marker = e
    BY <2>1, Constants
  <2>3. examples[d] \in Seq(Answer)
    BY <2>2, PartTypes
  <2>u. classifier[d].pc # "done"
    BY <2>2 DEF MarkerInv
  <2>m. \A l \in Leaves : \A i \in 1..Len(examples[l]) :
          examples[l][i].label = "eos" => MarkerSent(l) /\ e.label = "eos"
    BY DEF MarkerInv
  <2>l. \A l \in Leaves :
         MarkerSent(l) /\ e.label = "eos" /\ classifier[l].pc # "done"
         => examples[l] # <<>> /\ examples[l][Len(examples[l])].label = "eos"
    BY DEF MarkerInv
  <2>n. \A l \in Leaves : classifier[l].pc = "done" =>
          MarkerSent(l) /\ e.label = "eos" /\ examples[l] = <<>>
    BY DEF MarkerInv
  <2>w. \A l \in Leaves : \A i \in 1..Len(answers[l]) : answers[l][i].label = "eos" => MarkerSent(l)
    BY DEF MarkerInv
  <2> HIDE DEF e, d
  <2>4. /\ Append(examples[d], e) # <<>> /\ Len(Append(examples[d], e)) = Len(examples[d]) + 1
        /\ Append(examples[d], e)[Len(examples[d]) + 1] = e /\ Len(examples[d]) \in Nat
        /\ \A j \in 1..Len(examples[d]) : Append(examples[d], e)[j] = examples[d][j]
    BY <2>2, <2>3
  <2>5. \A l \in Leaves : \A i \in 1..Len(examples'[l]) :
          examples'[l][i].label = "eos" => MarkerSent(l)' /\ sampler'.marker.label = "eos"
    <3> TAKE l \in Leaves
    <3> TAKE i \in 1..Len(examples'[l])
    <3>1. CASE l # d
      BY <3>1, <2>1, <2>2, <2>m
    <3>2. CASE l = d /\ i = Len(examples[d]) + 1
      BY <3>2, <2>1, <2>2, <2>4
    <3>3. CASE l = d /\ i # Len(examples[d]) + 1
      <4>0. examples'[l] = Append(examples[d], e)
        BY <3>3, <2>1
      <4>1. i \in 1..Len(examples[d])
        BY <3>3, <4>0, <2>4
      <4>2. examples'[l][i] = examples[d][i]
        BY <4>0, <4>1, <2>4
      <4> QED
        BY <3>3, <4>1, <4>2, <2>1, <2>2, <2>m
    <3> QED
      BY <3>1, <3>2, <3>3
  <2>6. \A l \in Leaves : classifier[l].pc = "done" =>
          MarkerSent(l)' /\ sampler'.marker.label = "eos" /\ examples'[l] = <<>>
    BY <2>1, <2>2, <2>u, <2>n
  <2>7. \A l \in Leaves :
         MarkerSent(l)' /\ sampler'.marker.label = "eos" /\ classifier[l].pc # "done"
         => examples'[l] # <<>> /\ examples'[l][Len(examples'[l])].label = "eos"
    <3> TAKE l \in Leaves
    <3> HAVE MarkerSent(l)' /\ sampler'.marker.label = "eos" /\ classifier[l].pc # "done"
    <3>1. CASE l = d
      BY <3>1, <2>1, <2>2, <2>4
    <3>2. CASE l # d
      BY <3>2, <2>1, <2>2, <2>l
    <3> QED
      BY <3>1, <3>2
  <2>8. \A l \in Leaves : \A i \in 1..Len(answers[l]) : answers[l][i].label = "eos" => MarkerSent(l)'
    BY <2>1, <2>w
  <2> QED
    BY <2>5, <2>6, <2>7, <2>8, <1>1 DEF MarkerInv, Leaves
<1> QED
  BY <1>4, <1>5, <1>6, <1>7, <1>8 DEF Sampler

LEMMA LeafMarker ==
  ASSUME TypeOK, LineInv, PlaceInv, LabelInv, MarkerInv, NEW k \in Leaves, LeafThreads(k)
  PROVE  MarkerInv'
<1>1. sampler' = sampler /\ \A l \in Leaves : MarkerSent(l)' = MarkerSent(l)
  BY LeafRest
<1>2. ASSUME NEW l \in Leaves, l # k
      PROVE  answers'[l] = answers[l] /\ classifier'[l] = classifier[l] /\ examples'[l] = examples[l]
  BY <1>2, OtherLeaf
<1> DEFINE Good ==
      /\ \A i \in 1..Len(examples'[k]) : examples'[k][i].label = "eos" =>
           MarkerSent(k) /\ sampler.marker.label = "eos"
      /\ \A i \in 1..Len(answers'[k]) : answers'[k][i].label = "eos" => MarkerSent(k)
      /\ classifier'[k].pc = "done" =>
           /\ MarkerSent(k) /\ sampler.marker.label = "eos"
           /\ examples'[k] = <<>>
      /\ MarkerSent(k) /\ sampler.marker.label = "eos" /\ classifier'[k].pc # "done"
           => examples'[k] # <<>> /\ examples'[k][Len(examples'[k])].label = "eos"
<1>3. Good
  <2>0. /\ answers[k] \in Seq(Answer) /\ classifier[k] \in ClassifierType
        /\ examples[k] \in Seq(Answer)
    BY PartTypes DEF TypeOK, ClassifierType
  <2>1. ASSUME NEW e \in Answer, e.label = "eos" => MarkerSent(k),
               answers'[k] = Append(answers[k], e)
        PROVE  \A i \in 1..Len(answers'[k]) : answers'[k][i].label = "eos" => MarkerSent(k)
    <3> TAKE i \in 1..Len(answers'[k])
    <3>1. /\ Len(answers'[k]) = Len(answers[k]) + 1 /\ Len(answers[k]) \in Nat
          /\ answers'[k][Len(answers[k]) + 1] = e
          /\ \A j \in 1..Len(answers[k]) : answers'[k][j] = answers[k][j]
      BY <2>0, <2>1
    <3>2. CASE i = Len(answers[k]) + 1
      BY <3>1, <3>2, <2>1
    <3>3. CASE i # Len(answers[k]) + 1
      <4>1. i \in 1..Len(answers[k])
        BY <3>1, <3>3
      <4> QED
        BY <3>1, <4>1 DEF MarkerInv
    <3> QED
      BY <3>2, <3>3
  <2>2. CASE Receive(k)
    <3> DEFINE q == examples[k]
               h == Head(q)
    <3>1. /\ h \in Answer /\ examples'[k] = Tail(q) /\ q # <<>> /\ classifier[k].pc = "receive"
          /\ \/ /\ h.label = "eos" /\ answers'[k] = Append(answers[k], h)
                /\ classifier'[k] = [classifier[k] EXCEPT !.pc = "done"]
             \/ /\ h.label # "eos" /\ answers'[k] = answers[k]
                /\ classifier'[k] = [pc |-> "check", example |-> h]
      BY <2>2, ReceiveLine
    <3>2. /\ \A i \in 1..Len(q) : q[i].label = "eos" => MarkerSent(k) /\ sampler.marker.label = "eos"
          /\ MarkerSent(k) /\ sampler.marker.label = "eos" => q[Len(q)].label = "eos"
      BY <3>1 DEF MarkerInv
    <3>3. h.label = "eos" => Tail(q) = <<>>
      BY <3>1, MarkerIsLast
    <3> HIDE DEF q
    <3>4. /\ Len(q) \in Nat \ {0} /\ h = q[1] /\ Tail(q) \in Seq(Answer) /\ Len(Tail(q)) = Len(q) - 1
          /\ \A i \in 1..(Len(q) - 1) : Tail(q)[i] = q[i + 1]
      BY <2>0, <3>1 DEF q
    <3>5. 1 \in 1..Len(q)
      BY <3>4
    <3> HIDE DEF h
    <3>6. CASE /\ h.label = "eos" /\ answers'[k] = Append(answers[k], h)
               /\ classifier'[k] = [classifier[k] EXCEPT !.pc = "done"]
      <4>1. classifier'[k].pc = "done"
        BY <3>6, <2>0 DEF ClassifierType
      <4>2. MarkerSent(k) /\ sampler.marker.label = "eos"
        BY <3>2, <3>4, <3>5, <3>6
      <4>3. examples'[k] = <<>>
        BY <3>1, <3>3, <3>6
      <4>4. \A i \in 1..Len(answers'[k]) : answers'[k][i].label = "eos" => MarkerSent(k)
        BY <4>2
      <4>5. \A i \in 1..Len(examples'[k]) : examples'[k][i].label = "eos" =>
              MarkerSent(k) /\ sampler.marker.label = "eos"
        BY <4>2
      <4> QED
        BY <4>1, <4>2, <4>3, <4>4, <4>5
    <3>7. CASE /\ h.label # "eos" /\ answers'[k] = answers[k]
               /\ classifier'[k] = [pc |-> "check", example |-> h]
      <4>1. \A i \in 1..Len(examples'[k]) : examples'[k][i].label = "eos" =>
              MarkerSent(k) /\ sampler.marker.label = "eos"
        <5> TAKE i \in 1..Len(examples'[k])
        <5>1. i \in 1..(Len(q) - 1) /\ i + 1 \in 1..Len(q)
          BY <3>1, <3>4
        <5>2. examples'[k][i] = q[i + 1]
          BY <5>1, <3>1, <3>4
        <5> QED
          BY <5>1, <5>2, <3>2
      <4>2. MarkerSent(k) /\ sampler.marker.label = "eos" =>
              examples'[k] # <<>> /\ examples'[k][Len(examples'[k])].label = "eos"
        <5> HAVE MarkerSent(k) /\ sampler.marker.label = "eos"
        <5>1. q[Len(q)].label = "eos"
          BY <3>2
        <5>2. Len(q) # 1
          BY <5>1, <3>4, <3>7
        <5>3. Len(q) - 1 \in 1..(Len(q) - 1) /\ (Len(q) - 1) + 1 = Len(q) /\ Len(Tail(q)) # 0
          BY <5>2, <3>4
        <5>4. Tail(q)[Len(q) - 1] = q[Len(q)]
          BY <5>3, <3>4
        <5>5. Tail(q) # <<>>
          BY <5>3, <3>4
        <5> QED
          BY <5>1, <5>4, <5>5, <3>1, <3>4
      <4>3. classifier'[k].pc # "done"
        BY <3>7
      <4>4. \A i \in 1..Len(answers'[k]) : answers'[k][i].label = "eos" => MarkerSent(k)
        BY <3>7 DEF MarkerInv
      <4> QED
        BY <4>1, <4>2, <4>3, <4>4
    <3> QED
      BY <3>1, <3>6, <3>7
  <2>3. CASE IdentifyAndSend(k)
    <3>1. classifier'[k].pc = "receive" /\ classifier[k].pc = "identify" /\ examples'[k] = examples[k]
      BY <2>3, IdentifyLine
    <3>2. PICK label \in Answers :
            answers'[k] = Append(answers[k], [id |-> classifier[k].example.id, label |-> label])
      BY <2>3, IdentifyLine
    <3> DEFINE e == [id |-> classifier[k].example.id, label |-> label]
    <3>3. e.label # "eos" /\ label \in Labels
      BY Constants DEF Labels
    <3>4. e \in Answer
      <4>1. classifier[k].example \in Answer
        BY PartTypes
      <4> QED
        BY <3>3, <4>1 DEF Answer
    <3> HIDE DEF e
    <3>5. \A i \in 1..Len(answers'[k]) : answers'[k][i].label = "eos" => MarkerSent(k)
      BY <3>2, <3>3, <3>4, <2>1 DEF e
    <3> QED
      BY <3>1, <3>5 DEF MarkerInv
  <2>4. CASE CheckModel(k) \/ AwaitModel(k) \/ Hear(k) \/ AddHeard(k)
    <3>1. /\ answers' = answers /\ examples' = examples
          /\ classifier'[k].pc \in Busy <=> classifier[k].pc \in Busy
          /\ classifier'[k].pc \notin Busy => classifier'[k].pc = classifier[k].pc
      BY <2>4, QuietLeaf
    <3>2. classifier'[k].pc = "done" <=> classifier[k].pc = "done"
      BY <3>1 DEF Busy
    <3> QED
      BY <3>1, <3>2 DEF MarkerInv
  <2> QED
    BY <2>2, <2>3, <2>4 DEF LeafThreads, Classifier
<1>5. ASSUME NEW l \in Leaves PROVE
      /\ \A i \in 1..Len(examples'[l]) : examples'[l][i].label = "eos" =>
           MarkerSent(l)' /\ sampler'.marker.label = "eos"
      /\ \A i \in 1..Len(answers'[l]) : answers'[l][i].label = "eos" => MarkerSent(l)'
      /\ classifier'[l].pc = "done" =>
           /\ MarkerSent(l)' /\ sampler'.marker.label = "eos"
           /\ examples'[l] = <<>>
      /\ MarkerSent(l)' /\ sampler'.marker.label = "eos" /\ classifier'[l].pc # "done"
           => examples'[l] # <<>> /\ examples'[l][Len(examples'[l])].label = "eos"
  <2>1. CASE l = k
    BY <2>1, <1>1, <1>3
  <2>2. CASE l # k
    BY <2>2, <1>1, <1>2 DEF MarkerInv
  <2> QED
    BY <2>1, <2>2
<1> QED
  BY <1>5 DEF MarkerInv, Leaves

LEMMA DetectorMarker ==
  ASSUME TypeOK, PlaceInv, MarkerInv, Detector
  PROVE  MarkerInv'
<1>1. sampler' = sampler /\ classifier' = classifier /\ examples' = examples
      /\ \A l \in Leaves : MarkerSent(l)' = MarkerSent(l)
  BY DetectorRest DEF leafVars
<1>2. \A l \in Leaves : \A i \in 1..Len(answers'[l]) : answers'[l][i].label = "eos" => MarkerSent(l)'
  <2>1. ASSUME NEW k \in Leaves, Take(k), NEW l \in Leaves, NEW i \in 1..Len(answers'[l])
        PROVE  answers'[l][i].label = "eos" => MarkerSent(l)'
    <3>1. answers'[l] = (IF l = k THEN Tail(answers[k]) ELSE answers[l]) /\ answers[k] # <<>>
      BY <2>1, TakeLine
    <3>2. CASE l = k
      <4> DEFINE q == answers[k]
      <4>1. q \in Seq(Answer) /\ q # <<>> /\ i \in 1..Len(Tail(q)) /\ answers'[l] = Tail(q)
        BY <3>1, <3>2, PartTypes
      <4>2. \A j \in 1..Len(q) : q[j].label = "eos" => MarkerSent(k)
        BY DEF MarkerInv
      <4> HIDE DEF q
      <4>3. i + 1 \in 1..Len(q) /\ Tail(q)[i] = q[i + 1]
        BY <4>1
      <4> QED
        BY <3>2, <4>1, <4>2, <4>3, <1>1
    <3>3. CASE l # k
      BY <3>1, <3>3, <1>1 DEF MarkerInv
    <3> QED
      BY <3>2, <3>3
  <2>2. CASE ~ \E k \in Leaves : Take(k)
    <3>1. answers' = answers
      BY <2>2 DEF Detector, LookUp, AwaitChange, SetLabel, PrintAnswer, SortAnswer,
                  CastNew, FreeSlot, PostSlot, CastEos
    <3> QED
      BY <3>1, <1>1 DEF MarkerInv
  <2> QED
    BY <2>1, <2>2
<1> QED
  BY <1>1, <1>2 DEF MarkerInv, Leaves

-----------------------------------------------------------------------------
\* What was printed.
LEMMA SamplerPrint ==
  ASSUME TypeOK, LineInv, PlaceInv, HeldInv, StaleInv, LabelInv, PrintInv, Sampler
  PROVE  PrintInv'
<1>1. UNCHANGED <<detector, output>>
  BY DEF Sampler, ReadCluster, ReadExample, FindSlot, AwaitSlot, FillSlot, SendExample,
         EndOfInput, MarkLast, PackMarker, SendMarker, samplerRest
<1>2. \A l \in Leaves : Out(l)' = IF sampler.pc = "fill" /\ l = sampler.dest
                                    THEN Out(l) \cup {sampler.id} ELSE Out(l)
  BY SamplerOut
<1>3. /\ sampler'.id = IF sampler.pc = "fill" THEN sampler.id + 1 ELSE sampler.id
      /\ sampler.pc = "fill" => sampler.dest \in Leaves
  <2>1. CASE ReadCluster \/ ReadExample \/ AwaitSlot \/ FillSlot \/ SendExample \/ EndOfInput
    BY <2>1, SamplerFields DEF SamplerAt, PlaceInv
  <2>2. CASE FindSlot
    BY <2>2, FindFields DEF SamplerAt
  <2>3. CASE MarkLast \/ PackMarker \/ SendMarker
    BY <2>3, SamplerFields DEF SamplerAt
  <2> QED
    BY <2>1, <2>2, <2>3 DEF Sampler
<1>4. sampler.id \in Nat
  BY OutFacts, Constants
<1>5. \A i \in 1..Len(output) : output[i].id < sampler.id /\ output[i].id \in Nat
  <2>1. output \in Seq(Answer)
    BY DEF TypeOK
  <2>2. \A i \in 1..Len(output) : output[i] \in Answer
    BY <2>1
  <2> QED
    BY <2>2 DEF PrintInv, Answer
<1>6. \A i \in 1..Len(output) : output[i].id < sampler'.id
  BY <1>3, <1>4, <1>5
<1>7. \A i \in 1..Len(output) : \A l \in Leaves : output[i].id \in Out(l)' =>
        Current /\ output[i].id = detector.answer.id
  <2>1. \A i \in 1..Len(output) : output[i].id # sampler.id
    BY <1>4, <1>5
  <2> QED
    BY <2>1, <1>2 DEF PrintInv
<1>8. \A x \in 0..(sampler'.id - 1) :
        \/ \E i \in 1..Len(output) : output[i].id = x
        \/ \E l \in Leaves : x \in Out(l)'
  <2> TAKE x \in 0..(sampler'.id - 1)
  <2>1. CASE x \in 0..(sampler.id - 1)
    <3>1. \A l \in Leaves : Out(l) \subseteq Out(l)'
      BY <1>2
    <3> QED
      BY <2>1, <3>1 DEF PrintInv
  <2>2. CASE x \notin 0..(sampler.id - 1)
    <3>1. sampler.pc = "fill" /\ x = sampler.id
      BY <2>2, <1>3, <1>4
    <3>2. PICK l \in Leaves : l = sampler.dest
      BY <3>1, <1>3
    <3>3. x \in Out(l)'
      BY <3>1, <3>2, <1>2
    <3> QED
      BY <3>3
  <2> QED
    BY <2>1, <2>2
<1> QED
  BY <1>1, <1>6, <1>7, <1>8 DEF PrintInv, Current, Leaves

LEMMA DetectorPrint ==
  ASSUME TypeOK, LineInv, PlaceInv, HeldInv, StaleInv, LabelInv, PrintInv, Detector
  PROVE  PrintInv'
<1>0. output \in Seq(Answer) /\ table \in [Slots -> Example]
  BY DEF TypeOK
<1>1. sampler' = sampler
  BY DetectorRest
<1>2. \A l \in Leaves : Out(l)' = IF detector.pc = "free" THEN Out(l) \ {detector.answer.id}
                                  ELSE Out(l)
  BY DetectorOut
<1>3. CASE PrintAnswer
  <2> DEFINE m == detector.slot
             e == table[m]
             x0 == detector.answer.id
             n == Len(output)
  <2>1. /\ detector.pc = "print" /\ detector'.pc = "sort" /\ detector'.answer = detector.answer
    BY <1>3, DetectorFields DEF DetectorAt
  <2>2. /\ m \in Slots /\ detector.from \in Leaves /\ e.id = x0 /\ x0 \in Out(detector.from)
    BY <2>1, HandledIsOut DEF Handling
  <2>3. output' = Append(output, e) /\ e \in Answer
    BY <2>2, <1>0, <1>3 DEF PrintAnswer, Example, Answer
  <2>4. \A l \in Leaves : Out(l)' = Out(l)
    BY <2>1, <1>2
  <2>5. x0 \in 0..(sampler.id - 1)
    BY <2>2, OutFacts
  <2>6. ~ Current
    BY <2>1 DEF Current
  <2>7. detector'.answer.id = x0
    BY <2>1
  <2> HIDE DEF m, e, x0
  <2>8. /\ n \in Nat /\ Len(output') = n + 1 /\ output'[n + 1] = e
        /\ \A i \in 1..n : output'[i] = output[i]
    BY <2>3, <1>0
  <2> HIDE DEF n
  <2>9. \A i \in 1..n : \A l \in Leaves : output[i].id \notin Out(l)
    BY <2>6 DEF PrintInv, n
  <2>10. \A i \in 1..n : output[i].id # x0
    BY <2>2, <2>9
  <2>11. \A i \in 1..(n + 1) : (i = n + 1 /\ output'[i].id = x0)
                               \/ (i \in 1..n /\ output'[i].id = output[i].id)
    BY <2>2, <2>8
  <2>12. \A i, j \in 1..(n + 1) : output'[i].id = output'[j].id => i = j
    BY <2>10, <2>11 DEF PrintInv, n
  <2>13. \A i \in 1..(n + 1) : output'[i].id < sampler.id
    <3>1. x0 < sampler.id
      BY <2>5, OutFacts, Constants
    <3> QED
      BY <2>11, <3>1 DEF PrintInv, n
  <2>14. \A i \in 1..(n + 1) : \A l \in Leaves : output'[i].id \in Out(l)' => output'[i].id = x0
    BY <2>4, <2>9, <2>11
  <2>15. \A x \in 0..(sampler.id - 1) :
          \/ \E i \in 1..(n + 1) : output'[i].id = x
          \/ \E l \in Leaves : x \in Out(l)'
    <3> TAKE x \in 0..(sampler.id - 1)
    <3>1. CASE \E i \in 1..n : output[i].id = x
      <4>1. PICK i \in 1..n : output[i].id = x
        BY <3>1
      <4>2. i \in 1..(n + 1) /\ output'[i].id = x
        BY <4>1, <2>8
      <4> QED
        BY <4>2
    <3>2. CASE \E l \in Leaves : x \in Out(l)
      BY <3>2, <2>4
    <3> QED
      BY <3>1, <3>2 DEF PrintInv, n
  <2>16. n + 1 \in 1..(n + 1) /\ output'[n + 1].id = x0
    BY <2>2, <2>8
  <2> QED
    BY <2>1, <2>7, <2>8, <2>12, <2>13, <2>14, <2>15, <2>16, <1>1 DEF PrintInv, Current, Leaves
<1>4. CASE ~ PrintAnswer
  <2>1. output' = output
    BY <1>4 DEF Detector, Take, LookUp, AwaitChange, SetLabel, SortAnswer,
                CastNew, FreeSlot, PostSlot, CastEos
  <2>2. CASE detector.pc = "free"
    <3>1. FreeSlot
      BY <2>2 DEF Detector, Take, LookUp, AwaitChange, SetLabel, PrintAnswer, SortAnswer,
                  CastNew, FreeSlot, PostSlot, CastEos
    <3>2. detector'.pc = "post"
      BY <3>1, DetectorFields DEF DetectorAt
    <3>3. PICK x0 : x0 = detector.answer.id
      OBVIOUS
    <3>4. \E i \in 1..Len(output) : output[i].id = x0
      BY <2>2, <3>3 DEF PrintInv, Current
    <3>5. \A l \in Leaves : Out(l)' = Out(l) \ {x0}
      BY <2>2, <3>3, <1>2
    <3>6. \A i \in 1..Len(output) : \A l \in Leaves : output[i].id \notin Out(l)'
      BY <3>3, <3>5 DEF PrintInv
    <3>7. \A x \in 0..(sampler.id - 1) :
            \/ \E i \in 1..Len(output) : output[i].id = x
            \/ \E l \in Leaves : x \in Out(l)'
      BY <3>4, <3>5 DEF PrintInv
    <3> QED
      BY <2>1, <3>2, <3>6, <3>7, <1>1 DEF PrintInv, Current, Leaves
  <2>3. CASE detector.pc # "free"
    <3>1. \A l \in Leaves : Out(l)' = Out(l)
      BY <2>3, <1>2
    <3>2. /\ detector'.pc # "sort"
          /\ (Current' <=> Current) /\ (Current => detector'.answer = detector.answer)
      <4>1. ASSUME NEW k \in Leaves, Take(k) PROVE ~ Current /\ ~ Current' /\ detector'.pc # "sort"
        BY <4>1, TakeFields DEF DetectorAt, Current
      <4>2. CASE LookUp
        BY <4>2, DetectorFields DEF DetectorAt, Current
      <4>3. CASE AwaitChange \/ SetLabel \/ PostSlot \/ CastEos
        BY <4>3, DetectorFields DEF DetectorAt, Current
      <4>4. CASE SortAnswer \/ CastNew
        BY <4>4, DetectorFields DEF DetectorAt, Current
      <4>5. CASE FreeSlot
        BY <4>5, <2>3 DEF FreeSlot
      <4> QED
        <5>1. ASSUME NEW k \in Leaves, Take(k)
              PROVE  /\ detector'.pc # "sort" /\ (Current' <=> Current)
                     /\ (Current => detector'.answer = detector.answer)
          BY <4>1, <5>1
        <5> QED
          BY <1>4, <5>1, <4>2, <4>3, <4>4, <4>5, Zenon DEF Detector
    <3>3. ASSUME NEW i \in 1..Len(output), NEW l \in Leaves, output[i].id \in Out(l)'
          PROVE  Current' /\ output[i].id = detector'.answer.id
      BY <3>1, <3>2, <3>3 DEF PrintInv
    <3>4. \A x \in 0..(sampler.id - 1) :
            \/ \E i \in 1..Len(output) : output[i].id = x
            \/ \E l \in Leaves : x \in Out(l)'
      BY <3>1 DEF PrintInv
    <3>5. Current' => \E i \in 1..Len(output) : output[i].id = detector'.answer.id
      BY <3>2 DEF PrintInv
    <3> QED
      BY <2>1, <3>2, <3>3, <3>4, <3>5, <1>1 DEF PrintInv, Leaves
  <2> QED
    BY <2>2, <2>3
<1> QED
  BY <1>3, <1>4

-----------------------------------------------------------------------------
\* Broadcasts.
LEMMA SamplerCast ==
  ASSUME TypeOK, LineInv, PlaceInv, HeldInv, CastInv, Sampler
  PROVE  CastInv'
<1>0. /\ casts \in [Leaves -> Seq(ClusterIds \cup {EosCast})] /\ size \in Nat
      /\ leafSize \in [Leaves -> 0..MaxClusters] /\ MaxClusters \in Nat
      /\ NLeaves \in Nat \ {0} /\ detector.streams \in 0..NLeaves
  <2>1. detector \in DetectorType
    BY DEF TypeOK, DetectorType, DetectorPlaces
  <2>2. detector.streams \in 0..NLeaves
    BY <2>1 DEF DetectorType
  <2>3. MaxClusters \in Nat /\ NLeaves \in Nat \ {0}
    BY Constants
  <2>4. /\ casts \in [Leaves -> Seq(ClusterIds \cup {EosCast})] /\ size \in 0..MaxClusters
        /\ leafSize \in [Leaves -> 0..MaxClusters]
    BY DEF TypeOK
  <2> QED
    BY <2>2, <2>3, <2>4
<1>1. UNCHANGED <<detector, receiver, leafSize, ready>>
  BY DEF Sampler, ReadCluster, ReadExample, FindSlot, AwaitSlot, FillSlot, SendExample,
         EndOfInput, MarkLast, PackMarker, SendMarker, samplerRest, leafVars
<1>2. CASE ~ ReadCluster
  <2>1. UNCHANGED <<casts, size>>
    BY <1>2 DEF Sampler, ReadExample, FindSlot, AwaitSlot, FillSlot, SendExample,
         EndOfInput, MarkLast, PackMarker, SendMarker, tableVars
  <2> QED
    BY <2>1, <1>1 DEF CastInv, Sent, Heard, Leaves
<1>3. CASE ReadCluster
  <2>1. /\ size' = size + 1 /\ casts' = [l \in Leaves |-> Append(casts[l], size)]
        /\ sampler.id = 0
    BY <1>3 DEF ReadCluster, Broadcast
  <2>2. detector.pc # "cast"
    <3> SUFFICES ASSUME detector.pc = "cast" PROVE FALSE
      OBVIOUS
    <3>1. detector.from \in Leaves /\ detector.answer.id \in Out(detector.from)
      BY HandledIsOut DEF Handling
    <3>2. Out(detector.from) \subseteq 0..(-1)
      BY <2>1, <3>1, OutFacts
    <3> QED
      BY <3>1, <3>2
  <2>3. detector.pc # "done"
    BY <2>1, <1>0 DEF PlaceInv
  <2>4. Sent = size /\ Sent' = size + 1
    BY <2>1, <2>2, <2>3, <1>1 DEF Sent
  <2>5. ASSUME NEW l \in Leaves
        PROVE  /\ Len(casts'[l]) + Heard(l)' = Sent'
               /\ \A i \in 1..Len(casts'[l]) :
                    casts'[l][i] = IF Heard(l)' + i - 1 = size' THEN EosCast
                                   ELSE Heard(l)' + i - 1
               /\ leafSize'[l] <= size'
               /\ receiver'[l].pc = "add" =>
                    receiver'[l].cluster = leafSize'[l] /\ leafSize'[l] < size'
               /\ receiver'[l].pc # "done"
    <3> DEFINE q == casts[l]
               h == Heard(l)
    <3>1. /\ q \in Seq(ClusterIds \cup {EosCast}) /\ leafSize[l] \in Nat /\ h \in Nat
      BY <1>0 DEF Heard
    <3>2. casts'[l] = Append(q, size) /\ Heard(l)' = h
      BY <2>1, <1>1 DEF Heard
    <3>3. /\ Len(q) + h = size
          /\ \A i \in 1..Len(q) : q[i] = IF h + i - 1 = size THEN EosCast ELSE h + i - 1
      BY <2>4 DEF CastInv
    <3> HIDE DEF q, h
    <3>4. /\ Len(q) \in Nat /\ Len(casts'[l]) = Len(q) + 1 /\ casts'[l][Len(q) + 1] = size
          /\ \A i \in 1..Len(q) : casts'[l][i] = q[i]
      BY <3>1, <3>2
    <3>5. \A i \in 1..Len(casts'[l]) :
            casts'[l][i] = IF Heard(l)' + i - 1 = size' THEN EosCast ELSE Heard(l)' + i - 1
      <4> TAKE i \in 1..Len(casts'[l])
      <4>1. CASE i = Len(q) + 1
        BY <4>1, <3>1, <3>2, <3>3, <3>4, <2>1, <1>0
      <4>2. CASE i # Len(q) + 1
        <5>1. i \in 1..Len(q)
          BY <4>2, <3>4
        <5> QED
          BY <5>1, <3>1, <3>2, <3>3, <3>4, <2>1, <1>0
      <4> QED
        BY <4>1, <4>2
    <3>6. Len(casts'[l]) + Heard(l)' = Sent'
      BY <3>1, <3>2, <3>3, <3>4, <2>4, <1>0
    <3>7. /\ leafSize'[l] <= size'
          /\ receiver'[l].pc = "add" =>
                    receiver'[l].cluster = leafSize'[l] /\ leafSize'[l] < size'
          /\ receiver'[l].pc # "done"
      BY <2>1, <2>3, <3>1, <1>0, <1>1 DEF CastInv
    <3> QED
      BY <3>5, <3>6, <3>7
  <2>6. detector'.pc # "cast"
    BY <2>2, <1>1
  <2> QED
    BY <2>5, <2>6, <1>1 DEF CastInv, Leaves, EosCast
<1> QED
  BY <1>2, <1>3

LEMMA LeafCast ==
  ASSUME TypeOK, CastInv, NEW k \in Leaves, LeafThreads(k)
  PROVE  CastInv'
<1>0. /\ casts \in [Leaves -> Seq(ClusterIds \cup {EosCast})] /\ size \in Nat
      /\ leafSize \in [Leaves -> 0..MaxClusters] /\ MaxClusters \in Nat
      /\ receiver \in [Leaves -> ReceiverType] /\ ready \in [Leaves -> 0..1]
      /\ K \in Nat \ {0} /\ detector \in DetectorType
  <2>1. MaxClusters \in Nat /\ K \in Nat \ {0}
    BY Constants
  <2>2. detector \in DetectorType
    BY DEF TypeOK, DetectorType, DetectorPlaces
  <2>3. /\ casts \in [Leaves -> Seq(ClusterIds \cup {EosCast})] /\ size \in 0..MaxClusters
        /\ leafSize \in [Leaves -> 0..MaxClusters] /\ ready \in [Leaves -> 0..1]
    BY DEF TypeOK
  <2>4. receiver \in [Leaves -> ReceiverType]
    BY DEF TypeOK, ReceiverType
  <2> QED
    BY <2>1, <2>2, <2>3, <2>4
<1>1. size' = size /\ detector' = detector
  BY LeafRest
<1>2. Sent' = Sent /\ Sent \in Nat
  BY <1>0, <1>1 DEF Sent, DetectorType
<1>3. ASSUME NEW l \in Leaves, l # k
      PROVE  /\ casts'[l] = casts[l] /\ receiver'[l] = receiver[l]
             /\ leafSize'[l] = leafSize[l] /\ ready'[l] = ready[l]
  BY <1>3, OtherLeaf
<1>a. leafSize[k] \in Nat /\ receiver[k] \in ReceiverType /\ ready[k] \in 0..1
      /\ casts[k] \in Seq(ClusterIds \cup {EosCast}) /\ Heard(k) \in Nat
  BY <1>0 DEF Heard
<1>b. /\ Len(casts[k]) + Heard(k) = Sent
      /\ \A i \in 1..Len(casts[k]) :
           casts[k][i] = IF Heard(k) + i - 1 = size THEN EosCast ELSE Heard(k) + i - 1
      /\ leafSize[k] <= size
      /\ receiver[k].pc = "add" => receiver[k].cluster = leafSize[k] /\ leafSize[k] < size
      /\ receiver[k].pc = "done" => leafSize[k] = size /\ detector.pc = "done"
      /\ receiver[k].pc # "failed"
      /\ leafSize[k] < K => ready[k] = 0
  BY DEF CastInv
<1> DEFINE Good ==
      /\ Len(casts'[k]) + Heard(k)' = Sent
      /\ \A i \in 1..Len(casts'[k]) :
           casts'[k][i] = IF Heard(k)' + i - 1 = size THEN EosCast ELSE Heard(k)' + i - 1
      /\ leafSize'[k] <= size
      /\ receiver'[k].pc = "add" => receiver'[k].cluster = leafSize'[k] /\ leafSize'[k] < size
      /\ receiver'[k].pc = "done" => leafSize'[k] = size /\ detector.pc = "done"
      /\ receiver'[k].pc # "failed"
      /\ leafSize'[k] < K => ready'[k] = 0
<1>4. Good
  <2>1. CASE Receive(k) \/ CheckModel(k) \/ IdentifyAndSend(k)
    <3>1. UNCHANGED <<casts, receiver, leafSize, ready>>
      BY <2>1 DEF Receive, CheckModel, IdentifyAndSend
    <3> QED
      BY <3>1, <1>b DEF Heard
  <2>2. CASE AwaitModel(k)
    <3>1. UNCHANGED <<casts, receiver, leafSize>> /\ ready[k] > 0
          /\ ready' = [ready EXCEPT ![k] = ready[k] - 1]
      BY <2>2 DEF AwaitModel
    <3>2. ~ (leafSize[k] < K)
      BY <3>1, <1>a, <1>b
    <3> QED
      BY <3>1, <3>2, <1>b DEF Heard
  <2>3. CASE Hear(k)
    <3> DEFINE q == casts[k]
               h == Heard(k)
    <3>1. /\ receiver[k].pc = "hear" /\ q # <<>> /\ casts' = [casts EXCEPT ![k] = Tail(q)]
          /\ Head(q) = EosCast => receiver' = [receiver EXCEPT ![k] = [receiver[k] EXCEPT !.pc = "done"]]
          /\ Head(q) # EosCast => receiver' = [receiver EXCEPT ![k] =
                                                [pc |-> "add", cluster |-> Head(q)]]
          /\ UNCHANGED <<leafSize, ready>>
      BY <2>3 DEF Hear
    <3>2. h = leafSize[k]
      BY <3>1 DEF Heard
    <3>3. casts'[k] = Tail(q)
      BY <3>1, <1>0
    <3>4. q \in Seq(ClusterIds \cup {EosCast}) /\ h \in Nat
      BY <1>a
    <3>5. Len(q) + h = Sent
          /\ \A i \in 1..Len(q) : q[i] = IF h + i - 1 = size THEN EosCast ELSE h + i - 1
      BY <1>b
    <3> HIDE DEF q, h
    <3>6. /\ Len(q) \in Nat \ {0} /\ Head(q) = q[1] /\ Len(Tail(q)) = Len(q) - 1
          /\ \A i \in 1..(Len(q) - 1) : Tail(q)[i] = q[i + 1]
      BY <3>1, <3>4
    <3>7. q[1] = (IF h = size THEN EosCast ELSE h) /\ (h = size <=> q[1] = EosCast)
      <4>1. 1 \in 1..Len(q) /\ h + 1 - 1 = h
        BY <3>4, <3>6
      <4>2. q[1] = IF h = size THEN EosCast ELSE h
        BY <3>5, <4>1
      <4> QED
        BY <4>2, <3>4 DEF EosCast
    <3>8. Heard(k)' = h + 1 /\ receiver'[k].pc \in {"add", "done"}
      <4>1. receiver'[k].pc \in {"add", "done"}
        BY <3>1, <1>0, <1>a DEF ReceiverType
      <4> QED
        BY <4>1, <3>1, <3>2 DEF Heard
    <3>9. Len(casts'[k]) + Heard(k)' = Sent
      BY <3>3, <3>4, <3>5, <3>6, <3>8
    <3>10. \A i \in 1..Len(casts'[k]) :
             casts'[k][i] = IF Heard(k)' + i - 1 = size THEN EosCast ELSE Heard(k)' + i - 1
      <4> TAKE i \in 1..Len(casts'[k])
      <4>1. i \in 1..(Len(q) - 1) /\ i + 1 \in 1..Len(q) /\ (h + 1) + i - 1 = h + (i + 1) - 1
        BY <3>3, <3>4, <3>6
      <4>2. casts'[k][i] = q[i + 1]
        BY <4>1, <3>3, <3>6
      <4> QED
        BY <4>1, <4>2, <3>5, <3>8
    <3>11. CASE Head(q) = EosCast
      <4>1. receiver'[k].pc = "done"
        BY <3>1, <3>11, <1>0, <1>a DEF ReceiverType
      <4>2. leafSize'[k] = size
        BY <3>1, <3>2, <3>6, <3>7, <3>11
      <4>3. detector.pc = "done"
        <5>1. Sent > size
          BY <3>4, <3>5, <3>6, <3>7, <3>11, <1>0
        <5>2. detector.pc = "cast" => detector.cast <= size
          BY DEF CastInv
        <5>3. detector.cast \in Nat
          BY <1>0 DEF DetectorType
        <5> QED
          BY <5>1, <5>2, <5>3, <1>0 DEF Sent
      <4> QED
        BY <3>1, <3>9, <3>10, <4>1, <4>2, <4>3, <1>0, <1>b
    <3>12. CASE Head(q) # EosCast
      <4>1. receiver'[k] = [pc |-> "add", cluster |-> h] /\ h # size
        BY <3>1, <3>6, <3>7, <3>12, <1>0
      <4>2. receiver'[k].pc = "add" /\ receiver'[k].cluster = leafSize[k] /\ leafSize[k] < size
        BY <4>1, <3>2, <1>a, <1>b, <1>0
      <4> QED
        BY <3>1, <3>9, <3>10, <4>2, <1>b
    <3> QED
      BY <3>11, <3>12
  <2>4. CASE AddHeard(k)
    <3>1. receiver[k].pc = "add" /\ receiver[k].cluster = leafSize[k] /\ leafSize[k] < size
      BY <2>4, <1>b DEF AddHeard
    <3>2. /\ receiver' = [receiver EXCEPT ![k].pc = "hear"]
          /\ leafSize' = [leafSize EXCEPT ![k] = leafSize[k] + 1]
          /\ ready' = [ready EXCEPT ![k] = IF Completes(leafSize[k] + 1) THEN ready[k] + 1 ELSE ready[k]]
          /\ casts' = casts
      BY <2>4, <3>1 DEF AddHeard
    <3>3. receiver'[k].pc = "hear" /\ leafSize'[k] = leafSize[k] + 1
      BY <3>2, <1>0, <1>a DEF ReceiverType
    <3>4. Heard(k)' = Heard(k)
      BY <3>1, <3>3 DEF Heard
    <3>5. leafSize'[k] <= size
      BY <3>1, <3>3, <1>a, <1>0
    <3>6. leafSize'[k] < K => ready'[k] = 0
      <4> HAVE leafSize'[k] < K
      <4>1. ~ Completes(leafSize[k] + 1) /\ leafSize[k] < K
        BY <3>3, <1>a, <1>0 DEF Completes
      <4> QED
        BY <4>1, <3>2, <1>0, <1>b
    <3> QED
      BY <3>2, <3>3, <3>4, <3>5, <3>6, <1>b
  <2> QED
    BY <2>1, <2>2, <2>3, <2>4 DEF LeafThreads, Classifier
<1>5. ASSUME NEW l \in Leaves
      PROVE  /\ Len(casts'[l]) + Heard(l)' = Sent'
             /\ \A i \in 1..Len(casts'[l]) :
                  casts'[l][i] = IF Heard(l)' + i - 1 = size' THEN EosCast ELSE Heard(l)' + i - 1
             /\ leafSize'[l] <= size'
             /\ receiver'[l].pc = "add" => receiver'[l].cluster = leafSize'[l] /\ leafSize'[l] < size'
             /\ receiver'[l].pc = "done" => leafSize'[l] = size' /\ detector'.pc = "done"
             /\ receiver'[l].pc # "failed"
             /\ leafSize'[l] < K => ready'[l] = 0
  <2>1. CASE l = k
    BY <2>1, <1>1, <1>2, <1>4
  <2>2. CASE l # k
    <3>1. Heard(l)' = Heard(l)
      BY <2>2, <1>3 DEF Heard
    <3> QED
      BY <2>2, <3>1, <1>1, <1>2, <1>3 DEF CastInv
  <2> QED
    BY <2>1, <2>2
<1>6. detector'.pc = "cast" => detector'.cast <= size'
  BY <1>1 DEF CastInv
<1> QED
  BY <1>5, <1>6 DEF CastInv, Leaves, EosCast

\* A broadcast of what comes next.
LEMMA Broadcasted ==
  ASSUME TypeOK, NEW n \in Nat, NEW e \in ClusterIds \cup {EosCast}, NEW l \in Leaves,
         Len(casts[l]) + Heard(l) = n, Broadcast(e), UNCHANGED <<leafSize, receiver>>,
         \A i \in 1..Len(casts[l]) :
           casts[l][i] = IF Heard(l) + i - 1 = size THEN EosCast ELSE Heard(l) + i - 1,
         size' = size, e = IF n = size THEN EosCast ELSE n
  PROVE  /\ Len(casts'[l]) + Heard(l)' = n + 1
         /\ \A i \in 1..Len(casts'[l]) :
              casts'[l][i] = IF Heard(l)' + i - 1 = size' THEN EosCast ELSE Heard(l)' + i - 1
<1> DEFINE q == casts[l]
           h == Heard(l)
<1>1. q \in Seq(ClusterIds \cup {EosCast}) /\ leafSize \in [Leaves -> 0..MaxClusters]
      /\ MaxClusters \in Nat
  BY Constants DEF TypeOK
<1>2. h \in Nat
  BY <1>1 DEF Heard
<1>3. casts'[l] = Append(q, e) /\ Heard(l)' = h
  BY DEF Broadcast, Heard
<1>4. /\ Len(q) + h = n
      /\ \A i \in 1..Len(q) : q[i] = IF h + i - 1 = size THEN EosCast ELSE h + i - 1
  OBVIOUS
<1> HIDE DEF q, h
<1>5. /\ Len(q) \in Nat /\ Len(casts'[l]) = Len(q) + 1 /\ casts'[l][Len(q) + 1] = e
      /\ \A i \in 1..Len(q) : casts'[l][i] = q[i]
  BY <1>1, <1>3
<1>6. ASSUME NEW i \in 1..Len(casts'[l])
      PROVE  casts'[l][i] = IF Heard(l)' + i - 1 = size' THEN EosCast ELSE Heard(l)' + i - 1
  <2>1. CASE i = Len(q) + 1
    <3>1. Heard(l)' + i - 1 = n
      BY <2>1, <1>2, <1>3, <1>4, <1>5
    <3> QED
      BY <2>1, <3>1, <1>5
  <2>2. CASE i # Len(q) + 1
    <3>1. i \in 1..Len(q)
      BY <2>2, <1>5
    <3> QED
      BY <3>1, <1>3, <1>4, <1>5
  <2> QED
    BY <2>1, <2>2
<1>7. Len(casts'[l]) + Heard(l)' = n + 1
  BY <1>2, <1>3, <1>4, <1>5
<1> QED
  BY <1>6, <1>7

LEMMA DetectorCast ==
  ASSUME TypeOK, LineInv, PlaceInv, HeldInv, StaleInv, LabelInv, CastInv, Detector
  PROVE  CastInv'
<1>0. /\ casts \in [Leaves -> Seq(ClusterIds \cup {EosCast})] /\ size \in 0..MaxClusters
      /\ leafSize \in [Leaves -> 0..MaxClusters] /\ MaxClusters \in Nat
      /\ detector \in DetectorType /\ size \in Nat /\ detector.cast \in Nat
  <2>1. MaxClusters \in Nat
    BY Constants
  <2>2. detector \in DetectorType
    BY DEF TypeOK, DetectorType, DetectorPlaces
  <2>3. detector.cast \in Nat
    BY <2>2 DEF DetectorType
  <2>4. /\ casts \in [Leaves -> Seq(ClusterIds \cup {EosCast})] /\ size \in 0..MaxClusters
        /\ leafSize \in [Leaves -> 0..MaxClusters]
    BY DEF TypeOK
  <2> QED
    BY <2>1, <2>2, <2>3, <2>4
<1>1. UNCHANGED <<receiver, leafSize, ready>> /\ \A l \in Leaves : Heard(l)' = Heard(l)
  <2>1. UNCHANGED <<receiver, leafSize, ready>>
    BY DEF Detector, Take, LookUp, AwaitChange, SetLabel, PrintAnswer, SortAnswer,
           CastNew, FreeSlot, PostSlot, CastEos, detectorRest, leafVars
  <2> QED
    BY <2>1 DEF Heard
<1>2. detector.pc # "done"
  BY DEF Detector, Take, LookUp, AwaitChange, SetLabel, PrintAnswer, SortAnswer,
         CastNew, FreeSlot, PostSlot, CastEos
<1>3. ASSUME NEW l \in Leaves
      PROVE  /\ Len(casts[l]) + Heard(l) = Sent
             /\ \A i \in 1..Len(casts[l]) :
                  casts[l][i] = IF Heard(l) + i - 1 = size THEN EosCast ELSE Heard(l) + i - 1
             /\ leafSize[l] <= size /\ leafSize[l] \in Nat /\ Heard(l) \in Nat
             /\ Len(casts[l]) \in Nat
             /\ receiver[l].pc = "add" => receiver[l].cluster = leafSize[l] /\ leafSize[l] < size
             /\ receiver[l].pc # "done" /\ receiver[l].pc # "failed"
             /\ leafSize[l] < K => ready[l] = 0
  BY <1>0, <1>2 DEF CastInv, Heard
<1>4. detector.pc = "cast" => detector.cast <= size
  BY DEF CastInv
\* It is enough that the broadcasts are as many as Sent says, and in order.
<1>5. ASSUME size' \in Nat, size' >= size, detector'.pc = "cast" => detector'.cast <= size',
             \A l \in Leaves :
               /\ Len(casts'[l]) + Heard(l)' = Sent'
               /\ \A i \in 1..Len(casts'[l]) :
                    casts'[l][i] = IF Heard(l)' + i - 1 = size' THEN EosCast
                                   ELSE Heard(l)' + i - 1
      PROVE  CastInv'
  <2>1. \A l \in Leaves :
          /\ leafSize'[l] <= size'
          /\ receiver'[l].pc = "add" => receiver'[l].cluster = leafSize'[l] /\ leafSize'[l] < size'
          /\ receiver'[l].pc # "done" /\ receiver'[l].pc # "failed"
          /\ leafSize'[l] < K => ready'[l] = 0
    BY <1>0, <1>1, <1>3, <1>5
  <2> QED
    BY <1>5, <2>1 DEF CastInv, Leaves, EosCast
<1>6. ASSUME size' = size, casts' = casts, Sent' = Sent,
             detector'.pc = "cast" => detector'.cast <= size'
      PROVE  CastInv'
  BY <1>0, <1>1, <1>3, <1>5, <1>6
<1>7. ASSUME NEW k \in Leaves, Take(k) PROVE CastInv'
  <2>1. detector.pc = "take" /\ detector'.pc \in {"take", "find"}
    BY <1>7, TakeFields DEF DetectorAt
  <2>2. size' = size /\ casts' = casts
    BY <1>7 DEF Take
  <2> QED
    BY <2>1, <2>2, <1>6 DEF Sent
<1>8. CASE LookUp \/ AwaitChange \/ SetLabel \/ PrintAnswer \/ FreeSlot \/ PostSlot
  <2>1. detector.pc \notin {"cast", "done"} /\ detector'.pc \notin {"cast", "done"}
    BY <1>8, DetectorFields DEF DetectorAt
  <2>2. size' = size /\ casts' = casts
    BY <1>8 DEF LookUp, AwaitChange, SetLabel, PrintAnswer, FreeSlot, PostSlot
  <2> QED
    BY <2>1, <2>2, <1>6 DEF Sent
<1>9. CASE SortAnswer
  <2>1. PICK p \in {"free", "failed", "cast"}, c \in Nat :
          /\ detector'.pc = p /\ detector'.cast = c
          /\ size' \in 0..MaxClusters /\ size' >= size
          /\ p = "cast" => c = size
          /\ p # "cast" => size' = size
    <3>1. PICK p \in {"free", "failed", "cast"}, u \in SUBSET Nat, m \in Nat, c \in Nat :
              /\ detector' = [detector EXCEPT
                                !.pc = p, !.id = Latest(table[detector.slot].id),
                                !.unknowns = u, !.lastNDCheck = m, !.cast = c]
              /\ size' \in 0..MaxClusters /\ size' >= size
              /\ p = "cast" => c = size
              /\ p # "cast" => size' = size
      BY <1>9, SortStep
    <3>2. detector'.pc = p /\ detector'.cast = c
      BY <3>1, <1>0 DEF DetectorType
    <3> QED
      BY <3>1, <3>2
  <2>2. detector.pc = "sort" /\ casts' = casts
    BY <1>9 DEF SortAnswer
  <2>3. Sent = size /\ Sent' = size /\ (detector'.pc = "cast" => detector'.cast <= size')
    BY <2>1, <2>2, <1>0 DEF Sent
  <2>4. size' \in Nat /\ size' >= size
    BY <2>1, <1>0
  <2>5. ASSUME NEW l \in Leaves
        PROVE  /\ Len(casts'[l]) + Heard(l)' = Sent'
               /\ \A i \in 1..Len(casts'[l]) :
                    casts'[l][i] = IF Heard(l)' + i - 1 = size' THEN EosCast
                                   ELSE Heard(l)' + i - 1
    <3>1. Len(casts'[l]) + Heard(l)' = Sent'
      BY <2>2, <2>3, <1>1, <1>3
    <3>2. ASSUME NEW i \in 1..Len(casts[l])
          PROVE  casts[l][i] = IF Heard(l) + i - 1 = size' THEN EosCast ELSE Heard(l) + i - 1
      <4>1. Heard(l) + i - 1 < size /\ Heard(l) + i - 1 \in Nat
        BY <2>3, <1>0, <1>3
      <4> QED
        BY <4>1, <2>4, <1>0, <1>3
    <3> QED
      BY <3>1, <3>2, <2>2, <1>1
  <2> QED
    BY <2>3, <2>4, <2>5, <1>5
<1>10. CASE CastNew
  <2>1. detector.pc = "cast" /\ size' = size /\ Sent = detector.cast
    BY <1>10 DEF CastNew, Sent
  <2>2. CASE detector.cast < size
    <3>1. Broadcast(detector.cast) /\ detector' = [detector EXCEPT !.cast = detector.cast + 1]
      BY <1>10, <2>2 DEF CastNew
    <3>2. detector'.pc = "cast" /\ detector'.cast = detector.cast + 1
      BY <3>1, <2>1, <1>0 DEF DetectorType
    <3>3. Sent' = detector.cast + 1 /\ detector'.cast <= size'
      BY <3>2, <2>1, <2>2, <1>0 DEF Sent
    <3>4. detector.cast \in ClusterIds \cup {EosCast}
      BY <2>2, <1>0 DEF ClusterIds
    <3>5. detector.cast = IF detector.cast = size THEN EosCast ELSE detector.cast
      BY <2>2, <1>0
    <3>6. ASSUME NEW l \in Leaves
          PROVE  /\ Len(casts'[l]) + Heard(l)' = Sent'
                 /\ \A i \in 1..Len(casts'[l]) :
                      casts'[l][i] = IF Heard(l)' + i - 1 = size' THEN EosCast
                                     ELSE Heard(l)' + i - 1
      <4> DEFINE n == detector.cast
      <4>1. n \in Nat /\ n \in ClusterIds \cup {EosCast} /\ Broadcast(n)
            /\ n = (IF n = size THEN EosCast ELSE n) /\ Sent' = n + 1 /\ Sent = n
        BY <3>1, <3>3, <3>4, <3>5, <2>1, <1>0
      <4> HIDE DEF n
      <4>2. Len(casts[l]) + Heard(l) = n
        BY <4>1, <1>3
      <4> QED
        BY <4>1, <4>2, <2>1, <1>1, <1>3, Broadcasted
    <3> QED
      BY <3>2, <3>3, <3>6, <2>1, <1>0, <1>5
  <2>3. CASE ~ (detector.cast < size)
    <3>1. DetectorGoes("free") /\ casts' = casts
      BY <1>10, <2>3 DEF CastNew
    <3>2. detector'.pc = "free"
      BY <3>1, <1>0 DEF DetectorGoes, DetectorType
    <3>3. detector.cast = size
      BY <2>1, <2>3, <1>0, <1>4
    <3> QED
      BY <3>1, <3>2, <3>3, <2>1, <1>6 DEF Sent
  <2> QED
    BY <2>2, <2>3
<1>11. CASE CastEos
  <2>1. detector.pc = "take" /\ size' = size /\ Broadcast(EosCast)
    BY <1>11 DEF CastEos
  <2>2. detector'.pc = "done"
    BY <1>11, DetectorFields DEF DetectorAt
  <2>3. Sent = size /\ Sent' = size + 1
    BY <2>1, <2>2 DEF Sent
  <2>4. ASSUME NEW l \in Leaves
        PROVE  /\ Len(casts'[l]) + Heard(l)' = Sent'
               /\ \A i \in 1..Len(casts'[l]) :
                    casts'[l][i] = IF Heard(l)' + i - 1 = size' THEN EosCast
                                   ELSE Heard(l)' + i - 1
    <3> DEFINE n == size
               e == EosCast
    <3>1. n \in Nat /\ e \in ClusterIds \cup {EosCast} /\ Broadcast(e)
          /\ e = (IF n = size THEN EosCast ELSE n) /\ Sent' = n + 1
          /\ Len(casts[l]) + Heard(l) = n
      BY <2>1, <2>3, <1>0, <1>3
    <3> HIDE DEF n, e
    <3> QED
      BY <3>1, <2>1, <1>1, <1>3, Broadcasted
  <2> QED
    BY <2>1, <2>2, <2>4, <1>0, <1>5
<1> QED
  BY <1>7, <1>8, <1>9, <1>10, <1>11 DEF Detector

-----------------------------------------------------------------------------
\* What the threads of a leaf do changes nothing at rank 0.
LEMMA LeafRoot ==
  ASSUME TypeOK, LineInv, PlaceInv, HeldInv, StaleInv, LabelInv, PrintInv,
         NEW k \in Leaves, LeafThreads(k)
  PROVE  PlaceInv' /\ HeldInv' /\ StaleInv' /\ PrintInv'
<1>1. UNCHANGED <<slots, table, size, sampler, detector, output>>
  BY LeafRest DEF tableVars
<1>2. \A l \in Leaves : Out(l)' = Out(l)
  BY LeafOut
<1>3. PlaceInv'
  BY <1>1 DEF PlaceInv, Leaves, Slots, Handling
<1>4. HeldInv'
  BY <1>1, <1>2 DEF HeldInv, Holds, Filling, Leaves, Slots, Handling
<1>5. StaleInv'
  BY <1>1, <1>2 DEF StaleInv, Filling, Leaves, Slots, MpiSize
<1>6. PrintInv'
  BY <1>1, <1>2 DEF PrintInv, Current, Leaves
<1> QED
  BY <1>3, <1>4, <1>5, <1>6

\* The reports at the end change nothing else.
LEMMA ReportRest ==
  ASSUME LineInv, PlaceInv, HeldInv, StaleInv, LabelInv, MarkerInv, PrintInv, CastInv,
         UNCHANGED <<size, sampler, detector, output, examples, answers, casts, leafVars,
                     tableVars>>
  PROVE  LineInv' /\ PlaceInv' /\ HeldInv' /\ StaleInv' /\ LabelInv' /\ MarkerInv'
         /\ PrintInv' /\ CastInv'
<1>1. UNCHANGED <<slots, table, size, sampler, detector, output, examples, answers, casts,
                  leafSize, ready, classifier, receiver>>
  BY DEF leafVars, tableVars
<1>2. MarkerErased' = MarkerErased
  BY <1>1 DEF MarkerErased
<1>3. Ghost' = Ghost
  BY <1>1, <1>2 DEF Ghost
<1>4. \A l \in Leaves : /\ AtDetector(l)' = AtDetector(l) /\ AtClassifier(l)' = AtClassifier(l)
                        /\ AtSampler(l)' = AtSampler(l)
                        /\ Values(answers[l], Ghost)' = Values(answers[l], Ghost)
                        /\ Values(examples[l], Ghost)' = Values(examples[l], Ghost)
                        /\ MarkerSent(l)' = MarkerSent(l) /\ Heard(l)' = Heard(l)
  BY <1>1, <1>3 DEF AtDetector, AtClassifier, AtSampler, Values, Value, End, MarkerSent, Heard,
                    Busy, Handling
<1>5. \A l \in Leaves : Line(l)' = Line(l)
  BY <1>4 DEF Line
<1>6. \A l \in Leaves : Out(l)' = Out(l) /\ Elements(Line(l))' = Elements(Line(l))
                        /\ (Increasing(Line(l)) => Increasing(Line(l))')
  BY <1>5 DEF Out, Elements, Increasing, End
<1>7. LineInv'
  BY <1>1, <1>4, <1>6 DEF LineInv, Leaves, End
<1>8. PlaceInv'
  BY <1>1 DEF PlaceInv, Leaves, Slots, Handling
<1>9. HeldInv'
  BY <1>1, <1>6 DEF HeldInv, Holds, Filling, Leaves, Slots, Handling
<1>10. StaleInv'
  BY <1>1, <1>6 DEF StaleInv, Filling, Leaves, Slots, MpiSize
<1>11. PrintInv'
  BY <1>1, <1>6 DEF PrintInv, Current, Leaves
<1>12. LabelInv'
  BY <1>1, <1>6 DEF LabelInv, Leaves, Slots, Busy, Handling
<1>13. MarkerInv'
  BY <1>1, <1>4 DEF MarkerInv, Leaves
<1>14. Sent' = Sent
  BY <1>1 DEF Sent
<1>15. CastInv'
  BY <1>1, <1>4, <1>14 DEF CastInv, Leaves, EosCast
<1> QED
  BY <1>7, <1>8, <1>9, <1>10, <1>11, <1>12, <1>13, <1>15

-----------------------------------------------------------------------------
\* Sums over a finite set.  A sum is the size of a set of pairs: x with each number below v[x].
First(s) == CHOOSE x \in s : TRUE
Adds(g, v, S) ==
  g = [s \in SUBSET S |-> IF s = {} THEN 0 ELSE v[First(s)] + g[s \ {First(s)}]]
Below(v, S) == {p \in S \X Nat : p[2] < v[p[1]]}

LEMMA SumDef ==
  ASSUME NEW v, NEW S
  PROVE  SumOf(v, S) = (CHOOSE g : Adds(g, v, S))[S]
BY Zenon DEF SumOf, MapThenSumSet, MapThenFoldSet, Adds, First

LEMMA BelowFinite ==
  ASSUME NEW S, IsFiniteSet(S), NEW v \in [S -> Nat]
  PROVE  IsFiniteSet(Below(v, S))
<1> DEFINE part(x) == {x} \X (0..(v[x] - 1))
           T == {part(x) : x \in S}
           f == [x \in S |-> part(x)]
<1>1. \A t \in T : IsFiniteSet(t)
  <2> SUFFICES ASSUME NEW x \in S PROVE IsFiniteSet(part(x))
    OBVIOUS
  <2>1. IsFiniteSet({x})
    BY FS_Singleton
  <2>2. IsFiniteSet(0..(v[x] - 1))
    BY FS_Interval
  <2> QED
    BY <2>1, <2>2, FS_Product
<1>2. f \in Surjection(S, T)
  BY DEF Surjection
<1> HIDE DEF f
<1>3. IsFiniteSet(T)
  BY <1>2, FS_Surjection
<1>4. IsFiniteSet(UNION T)
  BY <1>1, <1>3, FS_UNION
<1>5. Below(v, S) = UNION T
  <2>1. ASSUME NEW p \in Below(v, S) PROVE p \in UNION T
    <3>1. p \in S \X Nat /\ p[2] < v[p[1]] /\ v[p[1]] \in Nat
      BY DEF Below
    <3>2. p \in part(p[1])
      BY <3>1
    <3> QED
      BY <3>1, <3>2
  <2>2. ASSUME NEW x \in S, NEW p \in part(x) PROVE p \in Below(v, S)
    <3>1. p[1] = x /\ p[2] \in 0..(v[x] - 1) /\ p = <<p[1], p[2]>> /\ v[x] \in Nat
      OBVIOUS
    <3>2. p \in S \X Nat /\ p[2] < v[p[1]]
      BY <3>1
    <3> QED
      BY <3>2 DEF Below
  <2> QED
    BY <2>1, <2>2
<1> QED
  BY <1>4, <1>5

\* One more element.
LEMMA BelowAdds ==
  ASSUME NEW S, IsFiniteSet(S), NEW v \in [S -> Nat], NEW s \in SUBSET S, NEW x \in s
  PROVE  /\ Cardinality(Below(v, s)) = v[x] + Cardinality(Below(v, s \ {x}))
         /\ Cardinality(Below(v, s)) \in Nat /\ Cardinality(Below(v, s \ {x})) \in Nat
         /\ v[x] \in Nat
<1> DEFINE A == Below(v, s \ {x})
           B == {x} \X (0..(v[x] - 1))
<1>1. v[x] \in Nat
  OBVIOUS
<1>2. Below(v, s) = A \cup B /\ A \cap B = {}
  <2>1. ASSUME NEW p \in Below(v, s) PROVE p \in A \cup B
    <3>1. p \in s \X Nat /\ p[2] < v[p[1]]
      BY DEF Below
    <3>2. CASE p[1] = x
      BY <3>1, <3>2, <1>1
    <3>3. CASE p[1] # x
      BY <3>1, <3>3 DEF Below
    <3> QED
      BY <3>2, <3>3
  <2>2. ASSUME NEW p \in A PROVE p \in Below(v, s) /\ p \notin B
    BY DEF Below
  <2>3. ASSUME NEW p \in B PROVE p \in Below(v, s)
    BY <1>1 DEF Below
  <2> QED
    BY <2>1, <2>2, <2>3
<1>3. IsFiniteSet(Below(v, s)) /\ IsFiniteSet(A)
  <2>1. IsFiniteSet(Below(v, S))
    BY BelowFinite
  <2>2. Below(v, s) \in SUBSET Below(v, S) /\ A \in SUBSET Below(v, S)
    BY DEF Below
  <2> QED
    BY <2>1, <2>2, FS_Subset
<1>4. IsFiniteSet(B) /\ Cardinality(B) = v[x]
  <2>1. IsFiniteSet({x}) /\ Cardinality({x}) = 1
    BY FS_Singleton
  <2>2. IsFiniteSet(0..(v[x] - 1)) /\ Cardinality(0..(v[x] - 1)) = v[x]
    BY <1>1, FS_Interval
  <2> QED
    BY <1>1, <2>1, <2>2, FS_Product, SMTT(20)
<1> HIDE DEF A, B
<1>5. Cardinality(A \cup B) = Cardinality(A) + Cardinality(B) - Cardinality({})
  BY <1>2, <1>3, <1>4, FS_Union
<1>6. Cardinality({}) = 0 /\ Cardinality(A) \in Nat
  BY <1>3, FS_EmptySet, FS_CardinalityType
<1> QED
  BY <1>1, <1>2, <1>3, <1>4, <1>5, <1>6 DEF A

LEMMA SumIsSize ==
  ASSUME NEW S, IsFiniteSet(S), NEW v \in [S -> Nat]
  PROVE  SumOf(v, S) = Cardinality(Below(v, S)) /\ SumOf(v, S) \in Nat
<1> DEFINE h == [s \in SUBSET S |-> Cardinality(Below(v, s))]
           g == CHOOSE gg : Adds(gg, v, S)
<1>0. \A s \in SUBSET S : s # {} => First(s) \in s
  BY DEF First
<1>1. Below(v, {}) = {} /\ Cardinality({}) = 0
  BY FS_EmptySet DEF Below
<1>2. \A s \in SUBSET S : h[s] = IF s = {} THEN 0 ELSE v[First(s)] + h[s \ {First(s)}]
  <2> TAKE s \in SUBSET S
  <2>1. CASE s = {}
    BY <2>1, <1>1
  <2>2. CASE s # {}
    <3>1. First(s) \in s /\ s \ {First(s)} \in SUBSET S
      BY <2>2, <1>0
    <3>2. Cardinality(Below(v, s)) = v[First(s)] + Cardinality(Below(v, s \ {First(s)}))
      BY <3>1, BelowAdds
    <3> QED
      BY <2>2, <3>1, <3>2
  <2> QED
    BY <2>1, <2>2
<1>3. Adds(h, v, S)
  <2> DEFINE r == [s \in SUBSET S |-> IF s = {} THEN 0 ELSE v[First(s)] + h[s \ {First(s)}]]
  <2>1. h = r
    <3>1. h \in [SUBSET S -> {h[s] : s \in SUBSET S}]
      OBVIOUS
    <3> QED
      BY <1>2
  <2> QED
    BY <2>1 DEF Adds
<1>4. Adds(g, v, S)
  BY <1>3
<1> HIDE DEF g
<1>5. \A s \in SUBSET S : g[s] = IF s = {} THEN 0 ELSE v[First(s)] + g[s \ {First(s)}]
  BY <1>4 DEF Adds
<1>6. \A s \in SUBSET S : IsFiniteSet(s) /\ Cardinality(s) \in Nat
  BY FS_Subset, FS_CardinalityType
<1> HIDE DEF h
<1>7. \A s \in SUBSET S : g[s] = h[s]
  <2> DEFINE bad == {s \in SUBSET S : g[s] # h[s]}
             N == {Cardinality(s) : s \in bad}
  <2> SUFFICES ASSUME bad # {} PROVE FALSE
    OBVIOUS
  <2>1. N \in SUBSET Nat /\ N # {}
    BY <1>6
  <2>2. PICK m \in N : \A k \in N : m <= k
    BY <2>1, LeastNat
  <2>3. PICK s \in bad : m = Cardinality(s)
    BY <2>2
  <2>4. s # {}
    BY <1>2, <1>5, <2>3
  <2> DEFINE t == s \ {First(s)}
  <2>5. First(s) \in s /\ t \in SUBSET S
    BY <1>0, <2>3, <2>4
  <2>6. Cardinality(t) = m - 1 /\ m \in Nat
    BY <1>6, <2>3, <2>5, FS_RemoveElement
  <2>7. t \notin bad
    BY <2>2, <2>6
  <2>8. g[t] = h[t]
    BY <2>5, <2>7
  <2>9. g[s] = h[s]
    BY <1>2, <1>5, <2>3, <2>4, <2>8
  <2> QED
    BY <2>3, <2>9
<1>8. SumOf(v, S) = g[S]
  BY SumDef DEF g
<1>9. h[S] = Cardinality(Below(v, S)) /\ Cardinality(Below(v, S)) \in Nat
  BY BelowFinite, FS_CardinalityType DEF h
<1> QED
  BY <1>7, <1>8, <1>9

LEMMA SumEmpty ==
  ASSUME NEW S, IsFiniteSet(S), NEW v \in [S -> Nat], \A x \in S : v[x] = 0
  PROVE  SumOf(v, S) = 0
<1>1. Below(v, S) = {}
  BY DEF Below
<1> QED
  BY <1>1, SumIsSize, FS_EmptySet

\* One value grows.
LEMMA SumGrows ==
  ASSUME NEW S, IsFiniteSet(S), NEW v \in [S -> Nat], NEW w \in [S -> Nat],
         NEW x \in S, NEW k \in Nat, w[x] = v[x] + k, \A y \in S \ {x} : w[y] = v[y]
  PROVE  SumOf(w, S) = SumOf(v, S) + k
<1>1. /\ SumOf(v, S) = v[x] + Cardinality(Below(v, S \ {x})) /\ v[x] \in Nat
      /\ SumOf(w, S) = w[x] + Cardinality(Below(w, S \ {x})) /\ w[x] \in Nat
      /\ Cardinality(Below(v, S \ {x})) \in Nat
  <2>1. S \in SUBSET S
    OBVIOUS
  <2> QED
    BY <2>1, SumIsSize, BelowAdds
<1>2. Below(v, S \ {x}) = Below(w, S \ {x})
  BY DEF Below
<1> QED
  BY <1>1, <1>2

-----------------------------------------------------------------------------
\* The statistics.
LEMMA FiniteDomains == IsFiniteSet(Leaves) /\ IsFiniteSet(ClusterIds)
<1>1. NLeaves \in Nat /\ MaxClusters - 1 \in Int
  BY Constants
<1>2. IsFiniteSet(1..NLeaves) /\ IsFiniteSet(0..(MaxClusters - 1))
  BY <1>1, FS_Interval
<1> QED
  BY <1>2 DEF Leaves, ClusterIds

LEMMA Ones ==
  ASSUME NEW l \in Leaves
  PROVE  /\ Identified(l) \in 0..1 /\ ToSend(l) \in 0..1 /\ MarkersIn(l) \in 0..1
BY DEF Identified, ToSend, MarkersIn, One

LEMMA CountTypes ==
  ASSUME TypeOK, NEW l \in Leaves
  PROVE  /\ used[l] \in [ClusterIds -> Nat] /\ SumOf(used[l], ClusterIds) \in Nat
         /\ Len(examples[l]) \in Nat /\ Waiting(l) \in Int
         /\ Given[l] = SumOf(used[l], ClusterIds) + Waiting(l) /\ Given[l] \in Int
         /\ leafSize[l] \in Nat /\ told[l] \in Nat /\ heard[l] \in Nat
         /\ leafSize[l] <= MaxClusters /\ MaxClusters \in Nat
<1>1. used[l] \in [ClusterIds -> Nat] /\ examples[l] \in Seq(Example)
      /\ leafSize[l] \in 0..MaxClusters /\ told[l] \in 0..MaxClusters
      /\ heard[l] \in 0..MaxClusters /\ MaxClusters \in Nat
  BY Constants DEF TypeOK
<1>2. SumOf(used[l], ClusterIds) \in Nat
  BY <1>1, FiniteDomains, SumIsSize
<1>3. Len(examples[l]) \in Nat
  BY <1>1
<1>4. Waiting(l) \in Int
  BY <1>3, Ones DEF Waiting
<1>5. Given[l] = SumOf(used[l], ClusterIds) + Waiting(l)
  BY DEF Given
<1> QED
  BY <1>1, <1>2, <1>3, <1>4, <1>5

LEMMA GivenType ==
  ASSUME TypeOK, MarkerInv, ~ MarkerErased
  PROVE  Given \in [Leaves -> Nat]
<1> SUFFICES ASSUME NEW l \in Leaves PROVE Given[l] \in Nat
  BY DEF Given
<1>1. /\ SumOf(used[l], ClusterIds) \in Nat /\ Len(examples[l]) \in Nat
      /\ Given[l] = SumOf(used[l], ClusterIds) + Waiting(l)
  BY CountTypes
<1>2. MarkerSent(l) /\ classifier[l].pc # "done" => Len(examples[l]) >= 1
  <2> HAVE MarkerSent(l) /\ classifier[l].pc # "done"
  <2>1. sampler.marker.label = "eos"
    BY DEF MarkerSent, MarkerErased
  <2>2. examples[l] # <<>> /\ examples[l] \in Seq(Example)
    BY <2>1 DEF MarkerInv, TypeOK
  <2> QED
    BY <2>2
<1>3. Waiting(l) \in Nat
  <2>1. MarkersIn(l) = 1 => Len(examples[l]) >= 1
    BY <1>2 DEF MarkersIn, One
  <2> QED
    BY <1>1, <2>1, Ones DEF Waiting
<1> QED
  BY <1>1, <1>3

LEMMA ReportedFacts ==
  ASSUME TypeOK, NEW l \in Leaves
  PROVE  /\ [c \in ClusterIds |-> IF c < heard[l] THEN used[l][c] ELSE 0] \in [ClusterIds -> Nat]
         /\ Reported[l] = SumOf([c \in ClusterIds |-> IF c < heard[l] THEN used[l][c] ELSE 0],
                                ClusterIds)
         /\ Reported[l] \in Nat
<1> DEFINE f == [c \in ClusterIds |-> IF c < heard[l] THEN used[l][c] ELSE 0]
<1>1. f \in [ClusterIds -> Nat]
  <2>1. used[l] \in [ClusterIds -> Nat]
    BY CountTypes
  <2> QED
    BY <2>1
<1>2. Reported[l] = SumOf(f, ClusterIds)
  BY DEF Reported
<1> HIDE DEF f
<1>3. SumOf(f, ClusterIds) \in Nat
  BY <1>1, FiniteDomains, SumIsSize
<1> QED
  BY <1>1, <1>2, <1>3 DEF f

\* A step that moves what was given, but neither adds to it nor loses it.
LEMMA CountSame ==
  ASSUME TypeOK, CountInv, UNCHANGED endVars, sampler'.id = sampler.id,
         ~ MarkerErased' => ~ MarkerErased,
         \A l \in Leaves :
           /\ ~ MarkerErased' => SumOf(used'[l], ClusterIds) + Waiting(l)'
                                   = SumOf(used[l], ClusterIds) + Waiting(l)
           /\ \A c \in ClusterIds : c >= leafSize'[l] => used'[l][c] = 0
           /\ \A c \in ClusterIds : c < heard[l] => used'[l][c] = used[l][c]
           /\ told[l] <= leafSize'[l]
           /\ told[l] > 0 => classifier'[l].pc = "done" /\ receiver'[l].pc = "done"
  PROVE  CountInv'
<1>1. told' = told /\ heard' = heard /\ total' = total
  BY DEF endVars
<1>2. ~ MarkerErased' => Given' = Given
  BY DEF Given, Leaves, ClusterIds
<1>3. Reported' = Reported
  <2>1. ASSUME NEW l \in Leaves
        PROVE  [c \in ClusterIds |-> IF c < heard'[l] THEN used'[l][c] ELSE 0]
                 = [c \in ClusterIds |-> IF c < heard[l] THEN used[l][c] ELSE 0]
    BY <1>1
  <2> QED
    BY <2>1 DEF Reported, Leaves, ClusterIds
<1>4. ~ MarkerErased' => SumOf(Given, Leaves)' = sampler'.id
  BY <1>2 DEF CountInv, Leaves
<1>5. SumOf(total, ClusterIds)' = SumOf(Reported, Leaves)'
  BY <1>1, <1>3 DEF CountInv, Leaves, ClusterIds
<1>6. \A l \in Leaves :
       /\ \A c \in ClusterIds : c >= leafSize'[l] => used'[l][c] = 0
       /\ heard'[l] <= told'[l] /\ told'[l] <= leafSize'[l]
       /\ told'[l] > 0 => classifier'[l].pc = "done" /\ receiver'[l].pc = "done"
  BY <1>1 DEF CountInv
<1> QED
  BY <1>4, <1>5, <1>6 DEF CountInv, Leaves, ClusterIds

LEMMA SamplerCount ==
  ASSUME TypeOK, TypeOK', LineInv, PlaceInv, StaleInv, LabelInv, MarkerInv, MarkerInv', CountInv, Sampler
  PROVE  CountInv'
<1>0. UNCHANGED <<leafSize, classifier, receiver, used, endVars>>
  BY DEF Sampler, ReadCluster, ReadExample, FindSlot, AwaitSlot, FillSlot, SendExample,
         EndOfInput, MarkLast, PackMarker, SendMarker, samplerRest, leafVars
<1>1. examples \in [Leaves -> Seq(Example)]
  BY DEF TypeOK
\* It is enough to look at what waits.
<1>2. ASSUME sampler'.id = sampler.id, ~ MarkerErased' => ~ MarkerErased,
             \A l \in Leaves : Waiting(l)' = Waiting(l)
      PROVE  CountInv'
  <2>1. \A l \in Leaves :
           /\ \A c \in ClusterIds : c >= leafSize'[l] => used'[l][c] = 0
           /\ told[l] <= leafSize'[l]
           /\ told[l] > 0 => classifier'[l].pc = "done" /\ receiver'[l].pc = "done"
    BY <1>0 DEF CountInv
  <2> QED
    BY <2>1, <1>0, <1>2, CountSame
<1>3. CASE ReadCluster \/ ReadExample \/ FindSlot \/ AwaitSlot \/ EndOfInput \/ MarkLast
  <2>1. ASSUME NEW l \in Leaves
        PROVE  /\ Waiting(l)' = Waiting(l) /\ ~ MarkerErased /\ sampler'.id = sampler.id
    <3>1. /\ sampler'.pc \notin {"send", "eos", "done"} /\ sampler.pc \notin {"send", "eos", "done"}
          /\ MarkerSent(l)' = MarkerSent(l) /\ sampler'.id = sampler.id /\ examples' = examples
      BY <1>3, QuietSampler
    <3>2. Identified(l)' = Identified(l) /\ ToSend(l)' = ToSend(l) /\ MarkersIn(l)' = MarkersIn(l)
      BY <3>1, <1>0 DEF Identified, ToSend, MarkersIn, Busy
    <3> QED
      BY <3>1, <3>2, <1>0 DEF Waiting, MarkerErased
  <2> QED
    BY <2>1, <1>2, Constants
<1>4. CASE FillSlot
  <2>0. PICK d : d = sampler.dest
    OBVIOUS
  <2>1. /\ sampler.pc = "fill" /\ d \in Leaves /\ sampler'.pc = "send"
        /\ sampler'.dest = d /\ sampler'.id = sampler.id + 1 /\ sampler.id \in Nat
        /\ examples' = examples
    <3>1. sampler.pc = "fill" /\ sampler'.pc = "send" /\ sampler'.dest = d
          /\ sampler'.id = sampler.id + 1
      BY <2>0, <1>4, SamplerFields DEF SamplerAt
    <3>2. sampler.id \in Nat
      BY OutFacts, Constants
    <3> QED
      BY <2>0, <3>1, <3>2, <1>4 DEF FillSlot, PlaceInv
  <2>2. ~ MarkerErased /\ ~ MarkerErased'
    BY <2>1 DEF MarkerErased
  <2>3. \A l \in Leaves : ~ MarkerSent(l) /\ ~ MarkerSent(l)'
    BY <2>1 DEF MarkerSent
  <2>4. Waiting(d)' = Waiting(d) + 1 /\ \A l \in Leaves \ {d} : Waiting(l)' = Waiting(l)
    <3>1. Len(examples[d]) \in Nat /\ Identified(d) \in 0..1 /\ MarkersIn(d) \in 0..1
      BY <2>1, CountTypes, Ones
    <3>2. \A l \in Leaves : Identified(l)' = Identified(l) /\ MarkersIn(l)' = MarkersIn(l)
      BY <2>3, <1>0 DEF Identified, MarkersIn, Busy, One
    <3>3. \A l \in Leaves : ToSend(l) = 0 /\ ToSend(l)' = One(l = d)
      BY <2>1 DEF ToSend, One
    <3>4. One(d = d) = 1 /\ \A l \in Leaves \ {d} : One(l = d) = 0
      BY DEF One
    <3>5. \A l \in Leaves :
            /\ Waiting(l)' = (Identified(l)' + Len(examples'[l])) + (ToSend(l)' - MarkersIn(l)')
            /\ Waiting(l) = (Identified(l) + Len(examples[l])) + (ToSend(l) - MarkersIn(l))
      BY DEF Waiting
    <3>6. Waiting(d)' = (Identified(d) + Len(examples[d])) + (1 - MarkersIn(d))
          /\ Waiting(d) = (Identified(d) + Len(examples[d])) + (0 - MarkersIn(d))
      BY <2>1, <3>2, <3>3, <3>4, <3>5
    <3>7. \A l \in Leaves \ {d} : Waiting(l)' = Waiting(l)
      BY <2>1, <3>2, <3>3, <3>4, <3>5
    <3> QED
      BY <3>1, <3>6, <3>7
  <2>5. Given'[d] = Given[d] + 1 /\ \A l \in Leaves \ {d} : Given'[l] = Given[l]
    <3>1. \A l \in Leaves : /\ Given'[l] = SumOf(used[l], ClusterIds) + Waiting(l)'
                            /\ Given[l] = SumOf(used[l], ClusterIds) + Waiting(l)
                            /\ SumOf(used[l], ClusterIds) \in Nat /\ Waiting(l) \in Int
      BY <1>0, CountTypes DEF Given, Leaves, ClusterIds
    <3> QED
      BY <2>1, <2>4, <3>1
  <2>6. Given \in [Leaves -> Nat] /\ Given' \in [Leaves -> Nat]
    <3>1. Given \in [Leaves -> Nat]
      BY <2>2, GivenType
    <3>2. ASSUME NEW l \in Leaves PROVE Given'[l] \in Nat
      BY <3>1, <2>1, <2>5
    <3>3. Given' = [l \in Leaves |-> Given'[l]]
      BY DEF Given, Leaves
    <3> QED
      BY <3>1, <3>2, <3>3
  <2> DEFINE g == Given
  <2>7. PICK w : w = Given'
    OBVIOUS
  <2> HIDE DEF g
  <2>8. SumOf(w, Leaves) = SumOf(g, Leaves) + 1
    <3>1. g \in [Leaves -> Nat] /\ w \in [Leaves -> Nat] /\ d \in Leaves /\ w[d] = g[d] + 1
          /\ \A l \in Leaves \ {d} : w[l] = g[l]
      BY <2>1, <2>5, <2>6, <2>7 DEF g
    <3> QED
      BY <3>1, FiniteDomains, SumGrows
  <2>9. SumOf(Given, Leaves)' = sampler'.id
    <3>1. SumOf(g, Leaves) = sampler.id
      BY <2>2 DEF CountInv, g
    <3>2. SumOf(Given, Leaves)' = SumOf(w, Leaves)
      BY <2>7 DEF Leaves
    <3> QED
      BY <3>1, <3>2, <2>1, <2>8
  <2>10. Reported' = Reported /\ told' = told /\ heard' = heard /\ total' = total
    BY <1>0 DEF Reported, endVars, Leaves, ClusterIds
  <2> QED
    BY <2>9, <2>10, <1>0 DEF CountInv, Leaves, ClusterIds
<1>5. CASE SendExample
  <2> DEFINE d == sampler.dest
  <2>1. /\ sampler.pc = "send" /\ d \in Leaves /\ sampler'.pc = "read"
        /\ sampler'.id = sampler.id
        /\ examples' = [examples EXCEPT ![d] = Append(examples[d], table[sampler.slot])]
    <3>1. sampler.pc = "send" /\ sampler'.pc = "read" /\ sampler'.id = sampler.id
      BY <1>5, SamplerFields DEF SamplerAt
    <3> QED
      BY <3>1, <1>5 DEF SendExample, PlaceInv
  <2>2. table[sampler.slot] \in Example
    BY <2>1 DEF TypeOK, PlaceInv
  <2> HIDE DEF d
  <2>3. Len(examples'[d]) = Len(examples[d]) + 1 /\ Len(examples[d]) \in Nat
        /\ \A l \in Leaves \ {d} : examples'[l] = examples[l]
    BY <2>1, <2>2, <1>1
  <2>4. \A l \in Leaves : ~ MarkerSent(l) /\ ~ MarkerSent(l)'
    BY <2>1 DEF MarkerSent
  <2>5. ASSUME NEW l \in Leaves PROVE Waiting(l)' = Waiting(l)
    <3>a. Identified(l)' = Identified(l) /\ MarkersIn(l)' = MarkersIn(l)
      BY <2>4, <1>0 DEF Identified, MarkersIn, Busy, One
    <3>b. ToSend(l)' = 0 /\ ToSend(l) = One(l = d)
      BY <2>1 DEF ToSend, One, d
    <3>c. Identified(l) \in 0..1 /\ MarkersIn(l) \in 0..1
      BY Ones
    <3>1. CASE l = d
      <4>1. ToSend(l) = 1 /\ Len(examples'[l]) = Len(examples[l]) + 1 /\ Len(examples[l]) \in Nat
        BY <3>1, <3>b, <2>3 DEF One
      <4> QED
        BY <4>1, <3>a, <3>b, <3>c DEF Waiting
    <3>2. CASE l # d
      <4>1. ToSend(l) = 0 /\ examples'[l] = examples[l]
        BY <3>2, <3>b, <2>3 DEF One
      <4> QED
        BY <4>1, <3>a, <3>b DEF Waiting
    <3> QED
      BY <3>1, <3>2
  <2> QED
    BY <2>1, <2>5, <1>2 DEF MarkerErased
<1>6. CASE PackMarker
  <2>1. ASSUME NEW l \in Leaves
        PROVE  /\ Waiting(l)' = Waiting(l) /\ ~ MarkerErased /\ sampler'.id = sampler.id
    <3>1. /\ sampler'.pc = "eos" /\ sampler.pc = "pack" /\ ~ MarkerSent(l) /\ ~ MarkerSent(l)'
          /\ sampler'.id = sampler.id
      BY <1>6, PackLine DEF PackMarker
    <3>2. examples' = examples
      BY <1>6 DEF PackMarker
    <3>3. Identified(l)' = Identified(l) /\ ToSend(l)' = ToSend(l) /\ MarkersIn(l)' = MarkersIn(l)
      BY <3>1, <1>0 DEF Identified, ToSend, MarkersIn, Busy
    <3> QED
      BY <3>1, <3>2, <3>3, <1>0 DEF Waiting, MarkerErased
  <2> QED
    BY <2>1, <1>2, Constants
<1>7. CASE SendMarker
  <2> DEFINE d == sampler.dest
  <2>1. /\ sampler.pc = "eos" /\ d \in Leaves /\ sampler'.pc \in {"eos", "done"}
        /\ sampler'.id = sampler.id /\ sampler'.marker = sampler.marker
        /\ sampler.marker \in Answer /\ ~ MarkerSent(d)
        /\ MarkerErased' = MarkerErased
        /\ \A l \in Leaves : MarkerSent(l)' = (MarkerSent(l) \/ l = d)
        /\ examples' = [examples EXCEPT ![d] = Append(examples[d], sampler.marker)]
    BY <1>7, MarkerLine, Constants DEF SendMarker
  <2>2. classifier[d].pc # "done"
    BY <2>1 DEF MarkerInv
  <2> HIDE DEF d
  <2>3. Len(examples'[d]) = Len(examples[d]) + 1 /\ Len(examples[d]) \in Nat
        /\ \A l \in Leaves \ {d} : examples'[l] = examples[l]
    BY <2>1, <1>1 DEF Answer, Example
  <2>4. ASSUME NEW l \in Leaves PROVE Waiting(l)' = Waiting(l)
    <3>a. Identified(l)' = Identified(l) /\ ToSend(l)' = ToSend(l)
      BY <2>1, <1>0 DEF Identified, ToSend, Busy, One
    <3>b. Identified(l) \in 0..1 /\ ToSend(l) \in 0..1
      BY Ones
    <3>1. CASE l = d
      <4>1. MarkerSent(l)' /\ ~ MarkerSent(l) /\ classifier'[l].pc # "done"
        BY <3>1, <2>1, <2>2, <1>0
      <4>2. MarkersIn(l)' = 1 /\ MarkersIn(l) = 0
        BY <4>1 DEF MarkersIn, One
      <4>3. Len(examples'[l]) = Len(examples[l]) + 1 /\ Len(examples[l]) \in Nat
        BY <3>1, <2>3
      <4>4. /\ Waiting(l)' = (Identified(l) + (Len(examples[l]) + 1)) + (ToSend(l) - 1)
            /\ Waiting(l) = (Identified(l) + Len(examples[l])) + (ToSend(l) - 0)
        BY <4>2, <4>3, <3>a DEF Waiting
      <4> QED
        BY <4>3, <4>4, <3>b
    <3>2. CASE l # d
      <4>1. (MarkerSent(l)' <=> MarkerSent(l)) /\ examples'[l] = examples[l]
        BY <3>2, <2>1, <2>3
      <4>2. MarkersIn(l)' = MarkersIn(l)
        BY <4>1, <1>0 DEF MarkersIn, One
      <4> QED
        BY <4>1, <4>2, <3>a DEF Waiting
    <3> QED
      BY <3>1, <3>2
  <2> QED
    BY <2>1, <2>4, <1>2
<1> QED
  BY <1>3, <1>4, <1>5, <1>6, <1>7 DEF Sampler

LEMMA LeafCount ==
  ASSUME TypeOK, TypeOK', MarkerInv, CastInv, CountInv, NEW k \in Leaves, LeafThreads(k)
  PROVE  CountInv'
<1>1. UNCHANGED <<sampler, endVars>> /\ MarkerErased' = MarkerErased
      /\ \A l \in Leaves : MarkerSent(l)' = MarkerSent(l)
  BY LeafRest
<1>2. ASSUME NEW l \in Leaves, l # k
      PROVE  /\ examples'[l] = examples[l] /\ classifier'[l] = classifier[l]
             /\ receiver'[l] = receiver[l] /\ leafSize'[l] = leafSize[l] /\ used'[l] = used[l]
  BY <1>2, OtherLeaf
<1>3. /\ examples \in [Leaves -> Seq(Example)] /\ used \in [Leaves -> [ClusterIds -> Nat]]
      /\ leafSize \in [Leaves -> 0..MaxClusters] /\ MaxClusters \in Nat
      /\ DOMAIN classifier = Leaves /\ DOMAIN receiver = Leaves
      /\ classifier[k] \in ClassifierType /\ receiver[k] \in ReceiverType
      /\ leafSize[k] \in Nat /\ told[k] \in Nat /\ heard[k] \in Nat
  <2>1. MaxClusters \in Nat
    BY Constants
  <2>2. /\ examples \in [Leaves -> Seq(Example)] /\ used \in [Leaves -> [ClusterIds -> Nat]]
        /\ leafSize \in [Leaves -> 0..MaxClusters]
    BY DEF TypeOK
  <2>3. classifier \in [Leaves -> ClassifierType] /\ receiver \in [Leaves -> ReceiverType]
    BY DEF TypeOK, ClassifierType, ReceiverType
  <2> QED
    BY <2>1, <2>2, <2>3, CountTypes
<1>4. /\ \A c \in ClusterIds : c >= leafSize[k] => used[k][c] = 0
      /\ heard[k] <= told[k] /\ told[k] <= leafSize[k]
      /\ told[k] > 0 => classifier[k].pc = "done" /\ receiver[k].pc = "done"
  BY DEF CountInv
\* It is enough to look at leaf k.
<1>5. ASSUME /\ ~ MarkerErased => SumOf(used'[k], ClusterIds) + Waiting(k)'
                                    = SumOf(used[k], ClusterIds) + Waiting(k)
             /\ \A c \in ClusterIds : c >= leafSize'[k] => used'[k][c] = 0
             /\ \A c \in ClusterIds : c < heard[k] => used'[k][c] = used[k][c]
             /\ told[k] <= leafSize'[k]
             /\ told[k] > 0 => classifier'[k].pc = "done" /\ receiver'[k].pc = "done"
      PROVE  CountInv'
  <2>1. ASSUME NEW l \in Leaves
        PROVE  /\ ~ MarkerErased' => SumOf(used'[l], ClusterIds) + Waiting(l)'
                                       = SumOf(used[l], ClusterIds) + Waiting(l)
               /\ \A c \in ClusterIds : c >= leafSize'[l] => used'[l][c] = 0
               /\ \A c \in ClusterIds : c < heard[l] => used'[l][c] = used[l][c]
               /\ told[l] <= leafSize'[l]
               /\ told[l] > 0 => classifier'[l].pc = "done" /\ receiver'[l].pc = "done"
    <3>1. CASE l = k
      BY <3>1, <1>1, <1>5
    <3>2. CASE l # k
      <4>1. Waiting(l)' = Waiting(l)
        BY <3>2, <1>1, <1>2 DEF Waiting, Identified, ToSend, MarkersIn, Busy
      <4> QED
        BY <3>2, <4>1, <1>2 DEF CountInv
    <3> QED
      BY <3>1, <3>2
  <2> QED
    BY <2>1, <1>1, CountSame
<1>6. ToSend(k)' = ToSend(k) /\ Identified(k) \in 0..1 /\ ToSend(k) \in 0..1
      /\ MarkersIn(k) \in 0..1
  BY <1>1, Ones DEF ToSend
<1>7. CASE Receive(k)
  <2> DEFINE q == examples[k]
             h == Head(q)
  <2>1. /\ classifier[k].pc = "receive" /\ q # <<>> /\ examples' = [examples EXCEPT ![k] = Tail(q)]
        /\ h.label = "eos" => classifier' = [classifier EXCEPT ![k].pc = "done"]
        /\ h.label # "eos" => classifier' = [classifier EXCEPT ![k] = [pc |-> "check", example |-> h]]
        /\ UNCHANGED <<leafSize, receiver, used>>
    BY <1>7 DEF Receive
  <2>2. q \in Seq(Example) /\ examples'[k] = Tail(q)
    BY <2>1, <1>3
  <2>3. h = q[1] /\ Len(q) \in Nat /\ Len(q) >= 1 /\ Len(examples'[k]) = Len(q) - 1
    <3>1. q # <<>>
      BY <2>1
    <3> HIDE DEF q
    <3> QED
      BY <3>1, <2>2
  <2>4. told[k] = 0 /\ Identified(k) = 0
    <3>1. classifier[k].pc \notin Busy
      BY <2>1 DEF Busy
    <3>2. told[k] = 0
      BY <2>1, <1>3, <1>4
    <3> QED
      BY <3>1, <3>2 DEF Identified, One
  <2>5. Waiting(k)' = Waiting(k)
    <3>1. CASE h.label = "eos"
      <4>1. 1 \in 1..Len(examples[k]) /\ examples[k][1].label = "eos"
        BY <3>1, <2>3
      <4>2. MarkerSent(k)
        BY <4>1 DEF MarkerInv
      <4>3. classifier'[k].pc = "done"
        BY <3>1, <2>1, <1>3 DEF ClassifierType
      <4>4. MarkersIn(k) = 1 /\ MarkersIn(k)' = 0 /\ Identified(k)' = 0
        BY <4>2, <4>3, <2>1 DEF MarkersIn, Identified, Busy, One
      <4>5. /\ Waiting(k)' = (0 + (Len(examples[k]) - 1)) + (ToSend(k) - 0)
            /\ Waiting(k) = (0 + Len(examples[k])) + (ToSend(k) - 1)
        BY <4>4, <2>3, <2>4, <1>6 DEF Waiting
      <4> QED
        BY <4>5, <2>3, <1>6
    <3>2. CASE h.label # "eos"
      <4>1. classifier'[k].pc = "check"
        BY <3>2, <2>1, <1>3 DEF ClassifierType
      <4>2. MarkersIn(k)' = MarkersIn(k) /\ Identified(k)' = 1
        BY <4>1, <2>1, <1>1 DEF MarkersIn, Identified, Busy, One
      <4>3. /\ Waiting(k)' = (1 + (Len(examples[k]) - 1)) + (ToSend(k) - MarkersIn(k))
            /\ Waiting(k) = (0 + Len(examples[k])) + (ToSend(k) - MarkersIn(k))
        BY <4>2, <2>3, <2>4, <1>6 DEF Waiting
      <4> QED
        BY <4>3, <2>3, <1>6
    <3> QED
      BY <3>1, <3>2
  <2> QED
    BY <2>1, <2>4, <2>5, <1>4, <1>5
<1>8. CASE CheckModel(k) \/ AwaitModel(k)
  <2>1. /\ UNCHANGED <<examples, leafSize, receiver, used>>
        /\ classifier[k].pc \in Busy
    BY <1>8 DEF CheckModel, AwaitModel, Busy
  <2>2. classifier'[k].pc \in Busy
    BY <1>8, <1>3 DEF CheckModel, AwaitModel, Busy, ClassifierType
  <2>3. Identified(k)' = Identified(k) /\ MarkersIn(k)' = MarkersIn(k)
    BY <2>1, <2>2, <1>1 DEF Identified, MarkersIn, Busy, One
  <2>4. Waiting(k)' = Waiting(k)
    BY <2>1, <2>3, <1>6 DEF Waiting
  <2>5. told[k] = 0
    BY <2>1, <1>3, <1>4 DEF Busy
  <2> QED
    BY <2>1, <2>4, <2>5, <1>4, <1>5
<1>9. CASE IdentifyAndSend(k)
  <2>1. PICK c \in 0..(leafSize[k] - 1) : used' = [used EXCEPT ![k] = [used[k] EXCEPT ![c] = used[k][c] + 1]]
    BY <1>9, <1>3 DEF IdentifyAndSend
  <2>2. /\ classifier[k].pc = "identify" /\ UNCHANGED <<examples, leafSize, receiver>>
        /\ classifier' = [classifier EXCEPT ![k].pc = "receive"]
    BY <1>9 DEF IdentifyAndSend
  <2>3. classifier'[k].pc = "receive"
    BY <2>2, <1>3 DEF ClassifierType
  <2>4. c \in ClusterIds /\ c < leafSize[k]
    <3>1. leafSize[k] \in 0..MaxClusters
      BY <1>3
    <3> QED
      BY <3>1, <1>3 DEF ClusterIds
  <2> DEFINE v == used[k]
             w == [v EXCEPT ![c] = v[c] + 1]
  <2>5. v \in [ClusterIds -> Nat] /\ used'[k] = w
    BY <2>1, <1>3
  <2>6. w \in [ClusterIds -> Nat] /\ w[c] = v[c] + 1 /\ \A y \in ClusterIds \ {c} : w[y] = v[y]
    BY <2>4, <2>5
  <2>7. told[k] = 0 /\ heard[k] = 0
    BY <2>2, <1>3, <1>4
  <2>8. \A y \in ClusterIds : y >= leafSize[k] => w[y] = 0
    BY <2>4, <2>6, <1>3, <1>4 DEF ClusterIds
  <2> HIDE DEF v, w
  <2>9. SumOf(w, ClusterIds) = SumOf(v, ClusterIds) + 1 /\ SumOf(v, ClusterIds) \in Nat
    BY <2>4, <2>5, <2>6, FiniteDomains, SumGrows, SumIsSize
  <2>10. Identified(k) = 1 /\ Identified(k)' = 0 /\ MarkersIn(k)' = MarkersIn(k)
    BY <2>2, <2>3, <1>1 DEF Identified, MarkersIn, Busy, One
  <2>11. Waiting(k) = Waiting(k)' + 1 /\ Waiting(k)' \in Int
    <3>1. /\ Waiting(k)' = (0 + Len(examples[k])) + (ToSend(k) - MarkersIn(k))
          /\ Waiting(k) = (1 + Len(examples[k])) + (ToSend(k) - MarkersIn(k))
      BY <2>2, <2>10, <1>6 DEF Waiting
    <3>2. Len(examples[k]) \in Nat
      BY CountTypes
    <3> QED
      BY <3>1, <3>2, <1>6
  <2>12. SumOf(used'[k], ClusterIds) + Waiting(k)' = SumOf(used[k], ClusterIds) + Waiting(k)
    BY <2>5, <2>9, <2>11 DEF v
  <2>13. \A y \in ClusterIds : y >= leafSize'[k] => used'[k][y] = 0
    BY <2>2, <2>5, <2>8
  <2>14. \A y \in ClusterIds : ~(y < heard[k])
    BY <2>7 DEF ClusterIds
  <2> QED
    BY <2>2, <2>7, <2>12, <2>13, <2>14, <1>4, <1>5
<1>10. CASE Hear(k) \/ AddHeard(k)
  <2>1. UNCHANGED <<examples, classifier, used>> /\ receiver[k].pc \in {"hear", "add"}
    BY <1>10 DEF Hear, AddHeard
  <2>2. told[k] = 0 /\ heard[k] = 0
    BY <2>1, <1>3, <1>4
  <2>3. Waiting(k)' = Waiting(k)
    BY <2>1, <1>1, <1>6 DEF Waiting, Identified, MarkersIn, Busy
  <2>4. leafSize'[k] >= leafSize[k] /\ leafSize'[k] \in Nat
    <3>1. CASE Hear(k)
      BY <3>1, <1>3 DEF Hear
    <3>2. CASE AddHeard(k)
      BY <3>2, <1>3 DEF AddHeard
    <3> QED
      BY <3>1, <3>2, <1>10
  <2>5. \A c \in ClusterIds : c >= leafSize'[k] => used'[k][c] = 0
    BY <2>1, <2>4, <1>3, <1>4 DEF ClusterIds
  <2> QED
    BY <2>1, <2>2, <2>3, <2>4, <2>5, <1>5
<1> QED
  BY <1>7, <1>8, <1>9, <1>10 DEF LeafThreads, Classifier

LEMMA DetectorCount ==
  ASSUME TypeOK, CountInv, Detector
  PROVE  CountInv'
<1>1. UNCHANGED <<sampler, examples, leafSize, classifier, receiver, used, endVars>>
  BY DEF Detector, Take, LookUp, AwaitChange, SetLabel, PrintAnswer, SortAnswer,
         CastNew, FreeSlot, PostSlot, CastEos, detectorRest, leafVars
<1>2. MarkerErased' = MarkerErased /\ \A l \in Leaves : Waiting(l)' = Waiting(l)
  BY <1>1 DEF MarkerErased, Waiting, Identified, ToSend, MarkersIn, MarkerSent, Busy
<1>3. \A l \in Leaves :
        /\ \A c \in ClusterIds : c >= leafSize[l] => used[l][c] = 0
        /\ told[l] <= leafSize[l]
        /\ told[l] > 0 => classifier[l].pc = "done" /\ receiver[l].pc = "done"
  BY DEF CountInv
<1> QED
  BY <1>1, <1>2, <1>3, CountSame

LEMMA ReportCount ==
  ASSUME TypeOK, TypeOK', CountInv, NEW k \in Leaves, Tell(k) \/ HearReport(k)
  PROVE  CountInv'
<1>1. UNCHANGED <<sampler, examples, leafSize, classifier, receiver, used>>
  BY DEF Tell, HearReport, leafVars
<1>2. MarkerErased' = MarkerErased /\ \A l \in Leaves : Waiting(l)' = Waiting(l)
  BY <1>1 DEF MarkerErased, Waiting, Identified, ToSend, MarkersIn, MarkerSent, Busy
<1>3. Given' = Given
  BY <1>1, <1>2 DEF Given, Leaves, ClusterIds
<1>4. ~ MarkerErased' => SumOf(Given, Leaves)' = sampler'.id
  BY <1>1, <1>2, <1>3 DEF CountInv, Leaves
<1>5. \A l \in Leaves :
        /\ \A c \in ClusterIds : c >= leafSize[l] => used[l][c] = 0
        /\ heard[l] <= told[l] /\ told[l] <= leafSize[l]
        /\ told[l] > 0 => classifier[l].pc = "done" /\ receiver[l].pc = "done"
  BY DEF CountInv
<1>6. \A l \in Leaves : /\ told[l] \in Nat /\ heard[l] \in Nat /\ leafSize[l] \in Nat
                        /\ leafSize[l] <= MaxClusters /\ MaxClusters \in Nat
  BY CountTypes
<1>7. /\ told \in [Leaves -> 0..MaxClusters] /\ heard \in [Leaves -> 0..MaxClusters]
      /\ total \in [ClusterIds -> Nat] /\ used \in [Leaves -> [ClusterIds -> Nat]]
  BY DEF TypeOK
<1>8. CASE Tell(k)
  <2>1. /\ classifier[k].pc = "done" /\ receiver[k].pc = "done" /\ told[k] < leafSize[k]
        /\ told' = [told EXCEPT ![k] = told[k] + 1] /\ heard' = heard /\ total' = total
    BY <1>8 DEF Tell
  <2>2. Reported' = Reported
    BY <1>1, <2>1 DEF Reported, Leaves, ClusterIds
  <2>3. SumOf(total, ClusterIds)' = SumOf(Reported, Leaves)'
    BY <2>1, <2>2 DEF CountInv, Leaves, ClusterIds
  <2>4. ASSUME NEW l \in Leaves
        PROVE  /\ heard'[l] <= told'[l] /\ told'[l] <= leafSize'[l]
               /\ told'[l] > 0 => classifier'[l].pc = "done" /\ receiver'[l].pc = "done"
    <3>1. CASE l = k
      <4>1. told'[l] = told[k] + 1
        BY <3>1, <2>1, <1>7
      <4> QED
        BY <3>1, <4>1, <2>1, <1>1, <1>5, <1>6
    <3>2. CASE l # k
      <4>1. told'[l] = told[l]
        BY <3>2, <2>1, <1>7
      <4> QED
        BY <4>1, <2>1, <1>1, <1>5
    <3> QED
      BY <3>1, <3>2
  <2> QED
    BY <1>1, <1>4, <1>5, <2>3, <2>4 DEF CountInv, Leaves, ClusterIds
<1>9. CASE HearReport(k)
  <2> DEFINE n == heard[k]
             u == used[k][n]
  <2>1. /\ n < told[k] /\ told' = told /\ heard' = [heard EXCEPT ![k] = n + 1]
        /\ total' = [total EXCEPT ![n] = total[n] + u]
    <3>1. /\ n < told[k] /\ told' = told /\ heard' = [heard EXCEPT ![k] = n + 1]
          /\ total' = AddReport(k)
      BY <1>9 DEF HearReport
    <3> QED
      BY <3>1 DEF AddReport
  <2>2. n \in Nat /\ n \in ClusterIds
    <3>1. n \in Nat /\ n < told[k] /\ told[k] <= leafSize[k]
      BY <2>1, <1>5, <1>6
    <3>2. n < MaxClusters
      BY <3>1, <1>6
    <3> QED
      BY <3>1, <3>2, <1>6 DEF ClusterIds
  <2>3. u \in Nat
    BY <2>2, <1>7
  <2>4. heard'[k] = n + 1 /\ \A l \in Leaves \ {k} : heard'[l] = heard[l]
    BY <2>1, <1>7
  <2> DEFINE f == [c \in ClusterIds |-> IF c < n THEN used[k][c] ELSE 0]
             g == [c \in ClusterIds |-> IF c < n + 1 THEN used[k][c] ELSE 0]
  <2>5. f \in [ClusterIds -> Nat] /\ Reported[k] = SumOf(f, ClusterIds) /\ Reported[k] \in Nat
    BY ReportedFacts
  <2>6. /\ g \in [ClusterIds -> Nat] /\ g[n] = f[n] + u
        /\ \A c \in ClusterIds \ {n} : g[c] = f[c]
    <3>1. used[k] \in [ClusterIds -> Nat] /\ ClusterIds \subseteq Nat
      BY <1>7 DEF ClusterIds
    <3> QED
      BY <3>1, <2>2
  <2>7. Reported'[k] = SumOf(g, ClusterIds)
    <3>1. Reported'[k] = SumOf([c \in ClusterIds |-> IF c < heard'[k] THEN used'[k][c] ELSE 0],
                               ClusterIds)
      BY DEF Reported, Leaves, ClusterIds
    <3> QED
      BY <3>1, <2>4, <1>1
  <2>8. \A l \in Leaves \ {k} : Reported'[l] = Reported[l]
    <3> TAKE l \in Leaves \ {k}
    <3>1. /\ Reported'[l] = SumOf([c \in ClusterIds |-> IF c < heard'[l] THEN used'[l][c] ELSE 0],
                                  ClusterIds)
          /\ Reported[l] = SumOf([c \in ClusterIds |-> IF c < heard[l] THEN used[l][c] ELSE 0],
                                 ClusterIds)
      BY DEF Reported, Leaves, ClusterIds
    <3> QED
      BY <3>1, <2>4, <1>1
  <2> HIDE DEF n, u, f, g
  <2>9. SumOf(g, ClusterIds) = SumOf(f, ClusterIds) + u
    BY <2>2, <2>3, <2>5, <2>6, FiniteDomains, SumGrows
  <2>10. Reported'[k] = Reported[k] + u
    BY <2>5, <2>7, <2>9
  <2>11. PICK r, s : r = Reported /\ s = Reported'
    OBVIOUS
  <2>12. r \in [Leaves -> Nat] /\ s \in [Leaves -> Nat]
    <3>1. \A l \in Leaves : r[l] \in Nat
      BY <2>11, ReportedFacts
    <3>2. ASSUME NEW l \in Leaves PROVE s[l] \in Nat
      BY <3>1, <2>3, <2>8, <2>10, <2>11
    <3>3. r = [l \in Leaves |-> r[l]]
      BY <2>11 DEF Reported
    <3>4. s = [l \in Leaves |-> s[l]]
      BY <2>11 DEF Reported, Leaves
    <3> QED
      BY <3>1, <3>2, <3>3, <3>4
  <2>13. SumOf(s, Leaves) = SumOf(r, Leaves) + u
    BY <2>3, <2>8, <2>10, <2>11, <2>12, FiniteDomains, SumGrows
  <2>14. PICK t, v : t = total /\ v = total'
    OBVIOUS
  <2>15. SumOf(v, ClusterIds) = SumOf(t, ClusterIds) + u
    <3>1. t \in [ClusterIds -> Nat] /\ v = [t EXCEPT ![n] = t[n] + u]
      BY <2>1, <2>14, <1>7
    <3>2. /\ t \in [ClusterIds -> Nat] /\ v \in [ClusterIds -> Nat]
          /\ v[n] = t[n] + u /\ \A c \in ClusterIds \ {n} : v[c] = t[c]
      BY <3>1, <2>2, <2>3
    <3> QED
      BY <3>2, <2>2, <2>3, FiniteDomains, SumGrows
  <2>16. SumOf(total, ClusterIds)' = SumOf(Reported, Leaves)'
    <3>1. SumOf(t, ClusterIds) = SumOf(r, Leaves)
      BY <2>11, <2>14 DEF CountInv
    <3>2. SumOf(total, ClusterIds)' = SumOf(v, ClusterIds)
      BY <2>14 DEF ClusterIds
    <3>3. SumOf(Reported, Leaves)' = SumOf(s, Leaves)
      BY <2>11 DEF Leaves
    <3> QED
      BY <3>1, <3>2, <3>3, <2>13, <2>15
  <2>17. ASSUME NEW l \in Leaves PROVE heard'[l] <= told'[l]
    <3>1. CASE l = k
      BY <3>1, <2>1, <2>2, <2>4, <1>6
    <3>2. CASE l # k
      BY <3>2, <2>1, <2>4, <1>5
    <3> QED
      BY <3>1, <3>2
  <2>18. told' = told
    BY <2>1
  <2> QED
    BY <1>1, <1>4, <1>5, <2>16, <2>17, <2>18 DEF CountInv, Leaves, ClusterIds
<1> QED
  BY <1>8, <1>9

-----------------------------------------------------------------------------
\* Ids.
LEMMA IdsAppend ==
  ASSUME NEW q \in Seq(Answer), Ids(q), NEW e \in Answer, e.id < End
  PROVE  Ids(Append(q, e))
<1> DEFINE a == Append(q, e)
<1>1. /\ Len(q) \in Nat /\ Len(a) = Len(q) + 1 /\ a[Len(q) + 1] = e
      /\ \A i \in 1..Len(q) : a[i] = q[i]
  OBVIOUS
<1> HIDE DEF a
<1>2. ASSUME NEW i \in 1..Len(a) PROVE a[i].id < End
  <2>1. CASE i = Len(q) + 1
    BY <2>1, <1>1
  <2>2. CASE i # Len(q) + 1
    <3>1. i \in 1..Len(q)
      BY <2>2, <1>1
    <3> QED
      BY <3>1, <1>1 DEF Ids
  <2> QED
    BY <2>1, <2>2
<1> QED
  BY <1>2 DEF Ids, a

LEMMA IdsTail ==
  ASSUME NEW q \in Seq(Answer), q # <<>>, Ids(q)
  PROVE  Ids(Tail(q)) /\ Head(q).id < End /\ Head(q) \in Answer
<1> DEFINE t == Tail(q)
<1>1. /\ Len(q) \in Nat \ {0} /\ Len(t) = Len(q) - 1 /\ Head(q) = q[1] /\ q[1] \in Answer
      /\ \A i \in 1..(Len(q) - 1) : t[i] = q[i + 1]
  OBVIOUS
<1> HIDE DEF t
<1>2. ASSUME NEW i \in 1..Len(t) PROVE t[i].id < End
  <2>1. i \in 1..(Len(q) - 1) /\ i + 1 \in 1..Len(q)
    BY <1>1
  <2> QED
    BY <2>1, <1>1 DEF Ids
<1>3. 1 \in 1..Len(q)
  BY <1>1
<1> QED
  BY <1>1, <1>2, <1>3 DEF Ids, t

LEMMA SamplerIds ==
  ASSUME TypeOK, PlaceInv, StaleInv, LineInv, IdInv, Sampler
  PROVE  IdInv'
<1>1. UNCHANGED <<detector, answers, classifier>>
  BY DEF Sampler, ReadCluster, ReadExample, FindSlot, AwaitSlot, FillSlot, SendExample,
         EndOfInput, MarkLast, PackMarker, SendMarker, samplerRest, leafVars
<1>2. /\ examples \in [Leaves -> Seq(Answer)] /\ table \in [Slots -> Answer]
      /\ sampler.marker \in Answer
  <2>1. Example = Answer
    BY DEF Example, Answer
  <2>2. sampler \in SamplerType
    BY DEF TypeOK, SamplerType
  <2> QED
    BY <2>1, <2>2 DEF TypeOK, SamplerType
<1>3. sampler.id \in Nat /\ sampler.id <= End /\ End \in Nat \ {0}
  BY OutFacts, Constants
\* At most one of the queues grows.
<1>4. ASSUME NEW d \in Leaves, NEW e \in Answer, e.id < End,
             examples' = [examples EXCEPT ![d] = Append(examples[d], e)]
      PROVE  IdInv'
  <2>1. ASSUME NEW l \in Leaves PROVE Ids(examples'[l])
    <3>1. CASE l = d
      BY <3>1, <1>2, <1>4, IdsAppend DEF IdInv
    <3>2. CASE l # d
      BY <3>2, <1>2, <1>4 DEF IdInv
    <3> QED
      BY <3>1, <3>2
  <2>2. \A l \in Leaves : Ids(answers'[l]) /\ classifier'[l].example.id < End
    BY <1>1 DEF IdInv
  <2>3. \A l \in Leaves : Ids(examples[l])' /\ Ids(answers[l])'
    BY <2>1, <2>2 DEF Ids, End
  <2> QED
    BY <1>1, <2>2, <2>3 DEF IdInv, Leaves, End
<1>5. CASE SendExample
  <2>1. sampler.dest \in Leaves /\ sampler.slot \in Slots
    BY <1>5 DEF SendExample, PlaceInv
  <2>2. table[sampler.slot].id \in Nat /\ table[sampler.slot].id < End
    <3>1. table[sampler.slot].id < sampler.id \/ table[sampler.slot].id = 0
      BY <2>1 DEF StaleInv
    <3>2. table[sampler.slot].id \in Nat
      BY <2>1, <1>2 DEF Answer
    <3> QED
      BY <3>1, <3>2, <1>3
  <2>3. examples' = [examples EXCEPT ![sampler.dest] =
                       Append(examples[sampler.dest], table[sampler.slot])]
    BY <1>5 DEF SendExample
  <2> QED
    BY <2>1, <2>2, <2>3, <1>2, <1>4
<1>6. CASE SendMarker
  <2>1. sampler.dest \in Leaves /\ sampler.marker.id = sampler.id - 1
    BY <1>6 DEF SendMarker, PlaceInv
  <2>2. examples' = [examples EXCEPT ![sampler.dest] =
                       Append(examples[sampler.dest], sampler.marker)]
    BY <1>6 DEF SendMarker
  <2>3. sampler.marker.id < End
    BY <2>1, <1>3
  <2> QED
    BY <2>1, <2>2, <2>3, <1>2, <1>4
<1>7. CASE ~ SendExample /\ ~ SendMarker
  <2>1. examples' = examples
    BY <1>7 DEF Sampler, ReadCluster, ReadExample, FindSlot, AwaitSlot, FillSlot,
         EndOfInput, MarkLast, PackMarker
  <2> QED
    BY <1>1, <2>1 DEF IdInv, Ids, Leaves, End
<1> QED
  BY <1>5, <1>6, <1>7

LEMMA LeafIds ==
  ASSUME TypeOK, IdInv, NEW k \in Leaves, LeafThreads(k)
  PROVE  IdInv'
<1>1. detector' = detector
  BY LeafRest
<1>2. ASSUME NEW l \in Leaves, l # k
      PROVE  /\ answers'[l] = answers[l] /\ examples'[l] = examples[l]
             /\ classifier'[l] = classifier[l]
  BY <1>2, OtherLeaf
<1>3. /\ examples \in [Leaves -> Seq(Answer)] /\ answers \in [Leaves -> Seq(Answer)]
      /\ DOMAIN classifier = Leaves /\ classifier[k] \in ClassifierType
      /\ Answers \subseteq Labels
  <2>1. Example = Answer
    BY DEF Example, Answer
  <2>2. classifier \in [Leaves -> ClassifierType]
    BY DEF TypeOK, ClassifierType
  <2> QED
    BY <2>1, <2>2, Constants DEF TypeOK, Labels
<1>4. Ids(examples[k]) /\ Ids(answers[k]) /\ classifier[k].example.id < End
  BY DEF IdInv
<1>5. ASSUME Ids(examples'[k]), Ids(answers'[k]), classifier'[k].example.id < End
      PROVE  IdInv'
  <2>1. \A l \in Leaves : /\ Ids(examples'[l]) /\ Ids(answers'[l])
                          /\ classifier'[l].example.id < End
    BY <1>2, <1>5 DEF IdInv
  <2>2. \A l \in Leaves : Ids(examples[l])' /\ Ids(answers[l])'
    BY <2>1 DEF Ids, End
  <2> QED
    BY <1>1, <2>1, <2>2 DEF IdInv, Leaves, End
<1>6. CASE Receive(k)
  <2> DEFINE q == examples[k]
             h == Head(q)
  <2>1. /\ q # <<>> /\ examples' = [examples EXCEPT ![k] = Tail(q)]
        /\ \/ /\ answers' = [answers EXCEPT ![k] = Append(answers[k], h)]
              /\ classifier' = [classifier EXCEPT ![k].pc = "done"]
           \/ /\ answers' = answers
              /\ classifier' = [classifier EXCEPT ![k] = [pc |-> "check", example |-> h]]
    BY <1>6 DEF Receive
  <2>2. Ids(Tail(q)) /\ h.id < End /\ h \in Answer
    BY <2>1, <1>3, <1>4, IdsTail
  <2>3. examples'[k] = Tail(q)
    BY <2>1, <1>3
  <2>4. answers'[k] = Append(answers[k], h) \/ answers'[k] = answers[k]
    BY <2>1, <1>3
  <2>5. classifier'[k].example = classifier[k].example \/ classifier'[k].example = h
    BY <2>1, <1>3 DEF ClassifierType
  <2>6. Ids(Append(answers[k], h))
    BY <2>2, <1>3, <1>4, IdsAppend
  <2> QED
    BY <2>2, <2>3, <2>4, <2>5, <2>6, <1>4, <1>5
<1>7. CASE CheckModel(k) \/ AwaitModel(k)
  <2>1. examples' = examples /\ answers' = answers
    BY <1>7 DEF CheckModel, AwaitModel
  <2>2. classifier'[k].example = classifier[k].example
    BY <1>7, <1>3 DEF CheckModel, AwaitModel, ClassifierType
  <2> QED
    BY <2>1, <2>2, <1>4, <1>5
<1>8. CASE IdentifyAndSend(k)
  <2>1. PICK label \in Answers :
          answers' = [answers EXCEPT ![k] = Append(answers[k],
                                       [id |-> classifier[k].example.id, label |-> label])]
    BY <1>8 DEF IdentifyAndSend
  <2> DEFINE e == [id |-> classifier[k].example.id, label |-> label]
  <2>2. e \in Answer /\ e.id < End
    BY <1>3, <1>4 DEF Answer, ClassifierType, Example
  <2> HIDE DEF e
  <2>3. answers'[k] = Append(answers[k], e)
    BY <2>1, <1>3 DEF e
  <2>4. Ids(answers'[k])
    BY <2>2, <2>3, <1>3, <1>4, IdsAppend
  <2>5. examples' = examples /\ classifier' = [classifier EXCEPT ![k].pc = "receive"]
    BY <1>8 DEF IdentifyAndSend
  <2>6. classifier'[k].example = classifier[k].example
    BY <2>5, <1>3 DEF ClassifierType
  <2> QED
    BY <2>4, <2>5, <2>6, <1>4, <1>5
<1>9. CASE Hear(k) \/ AddHeard(k)
  <2>1. examples' = examples /\ answers' = answers /\ classifier' = classifier
    BY <1>9 DEF Hear, AddHeard
  <2> QED
    BY <2>1, <1>4, <1>5
<1> QED
  BY <1>6, <1>7, <1>8, <1>9 DEF LeafThreads, Classifier

LEMMA DetectorIds ==
  ASSUME TypeOK, LineInv, PlaceInv, HeldInv, StaleInv, LabelInv, IdInv, Detector
  PROVE  IdInv'
<1>1. UNCHANGED <<examples, classifier>>
  BY DEF Detector, Take, LookUp, AwaitChange, SetLabel, PrintAnswer, SortAnswer,
         CastNew, FreeSlot, PostSlot, CastEos, detectorRest, leafVars
<1>2. answers \in [Leaves -> Seq(Answer)]
  BY DEF TypeOK
<1>3. ASSUME NEW k \in Leaves, Take(k) PROVE IdInv'
  <2>1. answers[k] # <<>> /\ answers' = [answers EXCEPT ![k] = Tail(answers[k])]
    BY <1>3 DEF Take
  <2>2. Ids(Tail(answers[k])) /\ Head(answers[k]).id < End
    BY <2>1, <1>2, IdsTail DEF IdInv
  <2>3. \A l \in Leaves : Ids(answers'[l])
    BY <2>1, <2>2, <1>2 DEF IdInv
  <2>4. detector'.answer = detector.answer \/ detector'.answer = Head(answers[k])
    BY <1>3, TakeFields DEF DetectorAt
  <2>5. detector'.answer.id < End
    BY <2>2, <2>4 DEF IdInv
  <2>6. \A l \in Leaves : Ids(examples[l])' /\ Ids(answers[l])'
    BY <2>3, <1>1 DEF IdInv, Ids, End
  <2> QED
    BY <2>5, <2>6, <1>1 DEF IdInv, Leaves, End
<1>4. CASE \/ LookUp \/ AwaitChange \/ SetLabel \/ PrintAnswer \/ SortAnswer
           \/ CastNew \/ FreeSlot \/ PostSlot \/ CastEos
  <2>1. answers' = answers
    BY <1>4 DEF LookUp, AwaitChange, SetLabel, PrintAnswer, SortAnswer,
         CastNew, FreeSlot, PostSlot, CastEos
  <2>2. detector'.answer = detector.answer
    BY <1>4, DetectorFields DEF DetectorAt
  <2> QED
    BY <2>1, <2>2, <1>1 DEF IdInv, Ids, Leaves, End
<1> QED
  BY <1>3, <1>4 DEF Detector

-----------------------------------------------------------------------------
\* Initially nothing is out.
LEMMA InitInv == Init => IInv
<1> SUFFICES ASSUME Init PROVE IInv
  OBVIOUS
<1> USE DEF Init
<1>0. /\ NLeaves \in Nat \ {0} /\ MaxClusters \in Nat /\ End \in Nat \ {0} /\ MaxExamples = End
      /\ K \in Nat \ {0} /\ 1 \in Slots /\ MaxLines \in Nat /\ MaxLines >= K
  BY Constants
<1>1. TypeOK
  <2>1. Blank \in Example /\ Blank \in Answer /\ Answer = Example
    BY DEF Blank, Example, Answer, Labels
  <2>2. /\ 0 \in 0..(2 * NLeaves + 1) /\ 0 \in 0..MaxClusters /\ 0 \in 0..MaxExamples
        /\ 0 \in 0..NLeaves /\ NLeaves \in 0..NLeaves /\ 0 \in 0..NSlots
    BY <1>0, Constants
  <2>3. \A S : <<>> \in Seq(S)
    OBVIOUS
  <2>4. /\ slots \in [Slots -> 0..(2 * NLeaves + 1)] /\ table \in [Slots -> Example]
        /\ slotFree \in Nat /\ size \in 0..MaxClusters /\ output \in Seq(Answer)
        /\ sampler \in SamplerType
    BY <2>1, <2>2, <2>3 DEF SamplerType
  <2>5. detector \in DetectorType
    BY <2>1, <2>2 DEF DetectorType, DetectorPlaces
  <2>6. /\ examples \in [Leaves -> Seq(Example)] /\ answers \in [Leaves -> Seq(Answer)]
        /\ casts \in [Leaves -> Seq(ClusterIds \cup {EosCast})]
    BY <2>3
  <2>7. /\ leafSize \in [Leaves -> 0..MaxClusters] /\ ready \in [Leaves -> 0..1]
        /\ told \in [Leaves -> 0..MaxClusters] /\ heard \in [Leaves -> 0..MaxClusters]
        /\ total \in [ClusterIds -> Nat] /\ used \in [Leaves -> [ClusterIds -> Nat]]
    BY <2>2
  <2>8. classifier \in [Leaves -> ClassifierType] /\ receiver \in [Leaves -> ReceiverType]
    BY <2>1, <2>2 DEF ClassifierType, ReceiverType
  <2> QED
    BY <2>4, <2>5, <2>6, <2>7, <2>8
       DEF TypeOK, SamplerType, DetectorType, DetectorPlaces, ClassifierType, ReceiverType
<1>2. /\ sampler.pc = "read" /\ sampler.id = 0 /\ detector.pc = "take" /\ ~ MarkerErased
      /\ detector.streams = NLeaves /\ output = <<>> /\ Ghost = -1
  BY DEF MarkerErased, Ghost
<1>3. \A l \in Leaves :
        /\ examples[l] = <<>> /\ answers[l] = <<>> /\ casts[l] = <<>>
        /\ classifier[l].pc = "receive" /\ receiver[l].pc = "hear"
        /\ leafSize[l] = 0 /\ ready[l] = 0 /\ used[l] = [c \in ClusterIds |-> 0]
        /\ told[l] = 0 /\ heard[l] = 0 /\ ~ MarkerSent(l)
  BY <1>2 DEF MarkerSent
<1>4. \A l \in Leaves : Line(l) = <<>>
  <2> TAKE l \in Leaves
  <2>1. AtDetector(l) = <<>> /\ AtClassifier(l) = <<>> /\ AtSampler(l) = <<>>
    BY <1>2, <1>3 DEF AtDetector, AtClassifier, AtSampler, Handling, Busy
  <2>2. Values(answers[l], Ghost) = <<>> /\ Values(examples[l], Ghost) = <<>>
    <3>1. <<>> \in Seq(Answer)
      OBVIOUS
    <3>2. Values(<<>>, Ghost) \in Seq(Nat) /\ Len(Values(<<>>, Ghost)) = 0
      BY <3>1, ValuesType
    <3>3. Values(<<>>, Ghost) = <<>>
      BY <3>2, EmptySeq
    <3> QED
      BY <3>3, <1>3
  <2> QED
    BY <2>1, <2>2 DEF Line
<1>5. \A l \in Leaves : Elements(Line(l)) = {} /\ Out(l) = {} /\ Increasing(Line(l))
  BY <1>4 DEF Elements, Out, Increasing
<1>6. LineInv
  BY <1>5 DEF LineInv
<1>7. PlaceInv
  BY <1>2, <1>0 DEF PlaceInv, Handling
<1>8. \A s \in Slots : slots[s] = 0 /\ table[s].id = 0 /\ table[s].label = "blank" /\ ~ Filling(s)
  BY <1>2 DEF Blank, Filling
<1>9. 0 \notin Leaves /\ MpiSize # 0
  BY Constants
<1>10. HeldInv
  BY <1>2, <1>5, <1>8, <1>9 DEF HeldInv, Handling
<1>11. StaleInv
  BY <1>2, <1>5, <1>8, <1>9 DEF StaleInv
<1>12. LabelInv
  BY <1>2, <1>3, <1>8 DEF LabelInv, Busy
<1>13. MarkerInv
  BY <1>3 DEF MarkerInv
<1>14. PrintInv
  BY <1>2 DEF PrintInv, Current
<1>15. CastInv
  <2>1. Sent = 0 /\ size = 0
    BY <1>2 DEF Sent
  <2>2. \A l \in Leaves : Heard(l) = 0
    BY <1>3 DEF Heard
  <2> QED
    BY <1>2, <1>3, <1>0, <2>1, <2>2 DEF CastInv
<1>16. CountInv
  <2>1. \A l \in Leaves : \A c \in ClusterIds : used[l][c] = 0
    BY <1>3
  <2>2. \A l \in Leaves : Given[l] = 0
    <3> TAKE l \in Leaves
    <3>1. Identified(l) = 0 /\ ToSend(l) = 0 /\ MarkersIn(l) = 0 /\ Len(examples[l]) = 0
      BY <1>2, <1>3 DEF Identified, ToSend, MarkersIn, Busy, One
    <3>2. used[l] \in [ClusterIds -> Nat]
      BY <1>3
    <3>3. SumOf(used[l], ClusterIds) = 0
      BY <2>1, <3>2, FiniteDomains, SumEmpty
    <3> QED
      BY <3>1, <3>3 DEF Given, Waiting
  <2>3. SumOf(Given, Leaves) = 0
    <3>1. Given \in [Leaves -> Nat]
      BY <1>1, <1>2, <1>13, GivenType
    <3> QED
      BY <2>2, <3>1, FiniteDomains, SumEmpty
  <2>4. SumOf(Reported, Leaves) = 0
    <3>1. \A l \in Leaves : Reported[l] = 0
      <4> TAKE l \in Leaves
      <4> DEFINE f == [c \in ClusterIds |-> IF c < heard[l] THEN used[l][c] ELSE 0]
      <4>1. f \in [ClusterIds -> Nat] /\ Reported[l] = SumOf(f, ClusterIds)
        BY <1>1, ReportedFacts
      <4>2. \A c \in ClusterIds : f[c] = 0
        BY <2>1
      <4> HIDE DEF f
      <4> QED
        BY <4>1, <4>2, FiniteDomains, SumEmpty
    <3>2. Reported \in [Leaves -> Nat]
      BY <3>1, SMTT(20) DEF Reported
    <3> QED
      BY <3>1, <3>2, FiniteDomains, SumEmpty
  <2>5. SumOf(total, ClusterIds) = 0
    <3>1. total \in [ClusterIds -> Nat] /\ \A c \in ClusterIds : total[c] = 0
      OBVIOUS
    <3> QED
      BY <3>1, FiniteDomains, SumEmpty
  <2> QED
    BY <1>2, <1>3, <2>1, <2>3, <2>4, <2>5 DEF CountInv
<1>17. IdInv
  <2>1. detector.answer.id < End /\ \A l \in Leaves : classifier[l].example.id < End
    BY <1>0 DEF Blank
  <2>2. \A l \in Leaves : Ids(examples[l]) /\ Ids(answers[l])
    BY <1>3 DEF Ids
  <2> QED
    BY <2>1, <2>2 DEF IdInv
<1> QED
  BY <1>1, <1>6, <1>7, <1>10, <1>11, <1>12, <1>13, <1>14, <1>15, <1>16, <1>17 DEF IInv

\* Every step keeps it.
LEMMA SamplerInv == IInv /\ Sampler => IInv'
<1> SUFFICES ASSUME IInv, Sampler PROVE IInv'
  OBVIOUS
<1> USE DEF IInv
<1>1. TypeOK'
  BY SamplerTypes
<1>2. LineInv' /\ PlaceInv' /\ HeldInv' /\ StaleInv'
  BY LineStep, SamplerPlace, SamplerHeld, SamplerStale
<1>3. LabelInv' /\ MarkerInv' /\ PrintInv' /\ CastInv'
  BY SamplerLabel, SamplerMarker, SamplerPrint, SamplerCast
<1>4. CountInv' /\ IdInv'
  BY <1>1, <1>3, SamplerCount, SamplerIds
<1> QED
  BY <1>1, <1>2, <1>3, <1>4

LEMMA DetectorInv == IInv /\ Detector => IInv'
<1> SUFFICES ASSUME IInv, Detector PROVE IInv'
  OBVIOUS
<1> USE DEF IInv
<1>1. TypeOK'
  BY DetectorTypes
<1>2. LineInv' /\ PlaceInv' /\ HeldInv' /\ StaleInv'
  BY LineStep, DetectorPlace, DetectorHeld, DetectorStale
<1>3. LabelInv' /\ MarkerInv' /\ PrintInv' /\ CastInv'
  BY DetectorLabel, DetectorMarker, DetectorPrint, DetectorCast
<1>4. CountInv' /\ IdInv'
  BY DetectorCount, DetectorIds
<1> QED
  BY <1>1, <1>2, <1>3, <1>4

LEMMA LeafInv ==
  ASSUME IInv, NEW k \in Leaves, LeafThreads(k)
  PROVE  IInv'
<1> USE DEF IInv
<1>1. TypeOK'
  BY LeafTypes
<1>2. LineInv' /\ PlaceInv' /\ HeldInv' /\ StaleInv' /\ PrintInv'
  BY LineStep, LeafRoot
<1>3. LabelInv' /\ MarkerInv' /\ CastInv'
  BY LeafLabel, LeafMarker, LeafCast
<1>4. CountInv' /\ IdInv'
  BY <1>1, LeafCount, LeafIds
<1> QED
  BY <1>1, <1>2, <1>3, <1>4

LEMMA ReportInv ==
  ASSUME IInv, NEW k \in Leaves, Tell(k) \/ HearReport(k)
  PROVE  IInv'
<1> USE DEF IInv
<1>1. TypeOK'
  BY ReportTypes
<1>2. UNCHANGED <<size, sampler, detector, output, examples, answers, casts, leafVars, tableVars>>
  BY DEF Tell, HearReport
<1>3. LineInv' /\ PlaceInv' /\ HeldInv' /\ StaleInv' /\ LabelInv' /\ MarkerInv'
      /\ PrintInv' /\ CastInv'
  BY <1>2, ReportRest
<1>4. CountInv'
  BY <1>1, ReportCount
<1>5. IdInv'
  BY <1>2 DEF IdInv, Ids, Leaves, End, leafVars
<1> QED
  BY <1>1, <1>3, <1>4, <1>5

LEMMA StutterInv == IInv /\ UNCHANGED vars => IInv'
<1> SUFFICES ASSUME IInv, UNCHANGED vars PROVE IInv'
  OBVIOUS
<1>1. UNCHANGED <<size, sampler, detector, output, examples, answers, casts, leafVars, tableVars,
                  endVars, slots, table, slotFree, leafSize, ready, classifier, receiver, used,
                  told, heard, total>>
  BY DEF vars, leafVars, tableVars, endVars
<1>2. TypeOK'
  BY <1>1 DEF IInv, TypeOK
<1>3. LineInv' /\ PlaceInv' /\ HeldInv' /\ StaleInv' /\ LabelInv' /\ MarkerInv'
      /\ PrintInv' /\ CastInv'
  BY <1>1, ReportRest DEF IInv
<1>4. CountInv'
  <2>1. MarkerErased' = MarkerErased /\ \A l \in Leaves : Waiting(l)' = Waiting(l)
    BY <1>1 DEF MarkerErased, Waiting, Identified, ToSend, MarkersIn, MarkerSent, Busy
  <2>2. \A l \in Leaves :
          /\ \A c \in ClusterIds : c >= leafSize[l] => used[l][c] = 0
          /\ told[l] <= leafSize[l]
          /\ told[l] > 0 => classifier[l].pc = "done" /\ receiver[l].pc = "done"
    BY DEF IInv, CountInv
  <2> QED
    BY <1>1, <2>1, <2>2, CountSame DEF IInv
<1>5. IdInv'
  BY <1>1 DEF IInv, IdInv, Ids, Leaves, End
<1> QED
  BY <1>2, <1>3, <1>4, <1>5 DEF IInv

\* The inductive invariant holds throughout.
THEOREM SlottedInvariant == Spec => []IInv
<1>1. Init => IInv
  BY InitInv
<1>2. IInv /\ [Next]_vars => IInv'
  BY SamplerInv, DetectorInv, LeafInv, ReportInv, StutterInv DEF Next
<1> QED
  BY <1>1, <1>2, PTL DEF Spec

-----------------------------------------------------------------------------
\* What the runs check follows.
LEMMA ValueIn ==
  ASSUME NEW q \in Seq(Answer), NEW g, NEW i \in 1..Len(q)
  PROVE  Value(q[i], g) \in Elements(Values(q, g))
<1>1. Len(Values(q, g)) = Len(q) /\ Values(q, g)[i] = Value(q[i], g)
  BY ValuesType
<1> QED
  BY <1>1 DEF Elements

\* Unless the end marker was erased, what is due is out.
LEMMA DueIsOut ==
  ASSUME IInv, ~ MarkerErased, NEW l \in Leaves, NEW x \in Due(l)
  PROVE  x \in Out(l)
<1> USE DEF IInv
<1>1. Ghost = -1
  BY DEF Ghost
<1>2. \A e \in Answer : e.label # "eos" => Value(e, Ghost) = e.id
  BY <1>1 DEF Value, Answer
<1>3. /\ answers[l] \in Seq(Answer) /\ examples[l] \in Seq(Answer)
      /\ detector.answer \in Answer /\ classifier[l].example \in Answer
  BY PartTypes
<1>4. /\ Elements(Line(l)) = Elements(AtDetector(l)) \cup Elements(Rest(l))
      /\ Elements(Rest(l)) =
              Elements(Values(answers[l], Ghost)) \cup Elements(AtClassifier(l))
              \cup Elements(Values(examples[l], Ghost)) \cup Elements(AtSampler(l))
  BY LineParts
<1>5. \A e \in Answer : e.id < End => e.id # End
  <2>1. End \in Nat
    BY Constants
  <2> QED
    BY <2>1 DEF Answer
\* It is enough to find it in the line.
<1>6. ASSUME NEW e \in Answer, e.label # "eos", e.id < End, x = e.id,
             Value(e, Ghost) \in Elements(Line(l))
      PROVE  x \in Out(l)
  BY <1>2, <1>5, <1>6 DEF Out
<1>7. CASE x \in {examples[l][i].id : i \in {j \in DOMAIN examples[l] : examples[l][j].label # "eos"}}
  <2>1. PICK i \in 1..Len(examples[l]) : examples[l][i].label # "eos" /\ x = examples[l][i].id
    BY <1>3, <1>7
  <2>2. examples[l][i] \in Answer /\ examples[l][i].id < End
    BY <1>3 DEF IdInv, Ids
  <2>3. Value(examples[l][i], Ghost) \in Elements(Line(l))
    BY <1>3, <1>4, ValueIn
  <2> QED
    BY <2>1, <2>2, <2>3, <1>6
<1>8. CASE x \in {answers[l][i].id : i \in {j \in DOMAIN answers[l] : answers[l][j].label # "eos"}}
  <2>1. PICK i \in 1..Len(answers[l]) : answers[l][i].label # "eos" /\ x = answers[l][i].id
    BY <1>3, <1>8
  <2>2. answers[l][i] \in Answer /\ answers[l][i].id < End
    BY <1>3 DEF IdInv, Ids
  <2>3. Value(answers[l][i], Ghost) \in Elements(Line(l))
    BY <1>3, <1>4, ValueIn
  <2> QED
    BY <2>1, <2>2, <2>3, <1>6
<1>9. CASE classifier[l].pc \in Busy /\ x = classifier[l].example.id
  <2>1. classifier[l].example.label # "eos" /\ classifier[l].example.id < End
    BY <1>9 DEF LabelInv, IdInv
  <2>2. AtClassifier(l) = <<Value(classifier[l].example, Ghost)>>
    BY <1>9 DEF AtClassifier
  <2>3. Value(classifier[l].example, Ghost) \in Elements(Line(l))
    BY <2>2, <1>4, ElementsOne
  <2> QED
    BY <2>1, <2>3, <1>3, <1>6, <1>9
<1>10. CASE detector.pc \in {"find", "wait"} /\ detector.from = l /\ x = detector.answer.id
  <2>1. detector.answer.label # "eos" /\ detector.answer.id < End
    BY <1>10, Constants DEF LabelInv, IdInv
  <2>2. AtDetector(l) = <<Value(detector.answer, Ghost)>>
    BY <1>10 DEF AtDetector, Handling
  <2>3. Value(detector.answer, Ghost) \in Elements(Line(l))
    BY <2>2, <1>4, ElementsOne
  <2> QED
    BY <2>1, <2>3, <1>3, <1>6, <1>10
<1> QED
  BY <1>7, <1>8, <1>9, <1>10 DEF Due, Busy

LEMMA AnswersHaveSlots == IInv => EveryAnswerHasItsSlot
<1> SUFFICES ASSUME IInv, ~ MarkerErased, NEW l \in Leaves, NEW x \in Due(l)
             PROVE  LET matching == {s \in Slots : slots[s] = l /\ table[s].id = x}
                        filling == IF sampler.pc = "fill" THEN {sampler.slot} ELSE {}
                    IN \E s \in Slots : matching \ filling = {s} /\ Min(matching) = s
  BY DEF EveryAnswerHasItsSlot
<1> DEFINE matching == {s \in Slots : slots[s] = l /\ table[s].id = x}
           filling == IF sampler.pc = "fill" THEN {sampler.slot} ELSE {}
<1>1. x \in Out(l)
  BY DueIsOut
<1>2. PICK s \in Slots :
           /\ Holds(s, l, x)
           /\ \A t \in Slots : slots[t] = l /\ table[t].id = x => t = s \/ (Filling(t) /\ s < t)
  BY <1>1, SlotFound DEF IInv
<1>3. s \in matching /\ s \notin filling
  BY <1>2 DEF Holds, Filling
<1>4. \A t \in matching : t = s \/ (t \in filling /\ s < t)
  BY <1>2 DEF Filling
<1>5. matching \ filling = {s}
  BY <1>3, <1>4
<1>6. Min(matching) = s
  <2>1. matching \in SUBSET Nat /\ matching # {}
    BY <1>3, Constants
  <2>2. Min(matching) \in matching /\ Min(matching) <= s
    BY <2>1, <1>3, MinFacts
  <2>3. Min(matching) \in Nat /\ s \in Nat
    BY <2>1, <2>2, <1>3
  <2>4. Min(matching) = s \/ s < Min(matching)
    BY <2>2, <1>4
  <2> QED
    BY <2>2, <2>3, <2>4
<1> QED
  BY <1>5, <1>6

LEMMA PrintsOnce == IInv => PrintedOnce
<1> SUFFICES ASSUME IInv PROVE PrintedOnce
  OBVIOUS
<1>1. DOMAIN output = 1..Len(output)
  <2>1. output \in Seq(Answer)
    BY DEF IInv, TypeOK
  <2> QED
    BY <2>1
<1>2. \A i, j \in 1..Len(output) : output[i].id = output[j].id => i = j
  BY DEF IInv, PrintInv
<1>3. \A i \in 1..Len(output) :
        output[i].label \in Answers \/ (output[i].label = "eos" /\ output[i].id = sampler.id - 1)
  BY DEF IInv, LabelInv
<1> QED
  BY <1>1, <1>2, <1>3 DEF PrintedOnce

LEMMA StatisticsDo == IInv => StatisticsAddUp
<1> SUFFICES ASSUME IInv, Ended
             PROVE  MapThenSumSet(LAMBDA c : total[c], ClusterIds) = sampler.id
  BY DEF StatisticsAddUp
<1> USE DEF IInv
<1>1. /\ sampler.pc = "done"
      /\ \A l \in Leaves : classifier[l].pc = "done" /\ told[l] = leafSize[l] /\ heard[l] = leafSize[l]
  BY DEF Ended, RootDone, LeafDone
<1>2. ~ MarkerErased
  <2>1. sampler.marker.label = "eos"
    BY <1>1, Constants DEF MarkerInv
  <2> QED
    BY <2>1 DEF MarkerErased
<1>3. ASSUME NEW l \in Leaves PROVE Given[l] = Reported[l]
  <2>1. Identified(l) = 0 /\ ToSend(l) = 0 /\ MarkersIn(l) = 0
    BY <1>1 DEF Identified, ToSend, MarkersIn, Busy, One
  <2>2. examples[l] = <<>>
    BY <1>1 DEF MarkerInv
  <2>3. Waiting(l) = 0
    BY <2>1, <2>2 DEF Waiting
  <2>4. Given[l] = SumOf(used[l], ClusterIds)
    BY <2>3, CountTypes
  <2>5. used[l] = [c \in ClusterIds |-> IF c < heard[l] THEN used[l][c] ELSE 0]
    <3>1. used[l] \in [ClusterIds -> Nat] /\ leafSize[l] \in Nat /\ heard[l] = leafSize[l]
      BY <1>1, CountTypes
    <3>2. \A c \in ClusterIds : c >= leafSize[l] => used[l][c] = 0
      BY DEF CountInv
    <3>3. \A c \in ClusterIds : used[l][c] = IF c < heard[l] THEN used[l][c] ELSE 0
      BY <3>1, <3>2 DEF ClusterIds
    <3> QED
      BY <3>1, <3>3
  <2>6. Reported[l] = SumOf([c \in ClusterIds |-> IF c < heard[l] THEN used[l][c] ELSE 0],
                            ClusterIds)
    BY DEF Reported
  <2> QED
    BY <2>4, <2>5, <2>6
<1>4. Given = Reported
  BY <1>3 DEF Given, Reported
<1>5. SumOf(total, ClusterIds) = sampler.id
  BY <1>2, <1>4 DEF CountInv
<1> QED
  BY <1>5, Zenon DEF SumOf

\* The earlier MPI program: every answer finds the slot of its example, each
\* example is printed once, the leaves follow the model of rank 0, and the reports
\* at the end add up, for any number of leaves, slots, clusters and examples.
THEOREM SlottedSafety == Spec => []Inv
<1>1. IInv => TypeOK /\ LeavesFollow
  BY DEF IInv, LeavesFollow, CastInv
<1>2. IInv => Inv
  BY <1>1, AnswersHaveSlots, PrintsOnce, StatisticsDo DEF Inv
<1> QED
  BY <1>2, SlottedInvariant, PTL

-----------------------------------------------------------------------------
\* Rank 0 does what SlottedND says.  What SlottedND calls due are the ids that
\* were dealt and not handled.
DueSet == (0..(sampler.id - 1)) \ Handled

\* SlottedND has the cardinalities and maxima of this module.
LEMMA SameCardinality ==
  ASSUME NEW S
  PROVE  ND!Cardinality(S) = Cardinality(S)
BY Zenon DEF Cardinality, ND!Cardinality

LEMMA SameMax ==
  ASSUME NEW S
  PROVE  ND!Max(S) = Max(S)
BY Zenon DEF Max, ND!Max

\* Handled is what was printed, but for the last line while it is sorted.
LEMMA HandledIs ==
  ASSUME IInv, NEW x
  PROVE  x \in Handled <=>
           /\ \E i \in 1..Len(output) : output[i].id = x
           /\ detector.pc = "sort" => x # detector.answer.id
<1>0. output \in Seq(Answer) /\ DOMAIN output = 1..Len(output)
  BY DEF IInv, TypeOK
<1>1. CASE detector.pc = "sort"
  <2>1. output[Len(output)].id = detector.answer.id
    BY <1>1 DEF IInv, PrintInv
  <2> QED
    BY <1>0, <1>1, <2>1 DEF Handled
<1>2. CASE detector.pc # "sort"
  BY <1>0, <1>2 DEF Handled
<1> QED
  BY <1>1, <1>2

\* What is due is out.
LEMMA DueOut ==
  ASSUME IInv, NEW x \in DueSet
  PROVE  \E l \in Leaves : x \in Out(l)
<1>0. TypeOK /\ PlaceInv /\ LineInv /\ HeldInv /\ PrintInv
  BY DEF IInv
<1>1. x \in 0..(sampler.id - 1) /\ x \notin Handled
  BY DEF DueSet
<1>2. CASE \E i \in 1..Len(output) : output[i].id = x
  <2>1. detector.pc = "sort" /\ x = detector.answer.id
    BY <1>1, <1>2, HandledIs
  <2> QED
    BY <2>1, <1>0, HandledIsOut DEF Handling
<1>3. CASE ~ \E i \in 1..Len(output) : output[i].id = x
  BY <1>0, <1>1, <1>3 DEF PrintInv
<1> QED
  BY <1>2, <1>3

\* A slot that is being filled is one that no example has: there is room.
LEMMA RoomForOne ==
  ASSUME IInv, sampler.pc = "fill"
  PROVE  Cardinality(DueSet) < NSlots
<1> DEFINE T == Slots \ {sampler.slot}
           f == [s \in T |-> table[s].id]
           I == {f[s] : s \in T}
<1>0. NSlots \in Nat \ {0} /\ sampler.slot \in Slots
  BY Constants DEF IInv, PlaceInv
<1>1. IsFiniteSet(Slots) /\ Cardinality(Slots) = NSlots
  BY <1>0, FS_Interval DEF Slots
<1>2. IsFiniteSet(T) /\ Cardinality(T) = NSlots - 1
  BY <1>0, <1>1, FS_RemoveElement
<1>3. f \in Surjection(T, I)
  BY DEF Surjection
<1>4. IsFiniteSet(I) /\ Cardinality(I) <= Cardinality(T)
  <2> HIDE DEF T, f, I
  <2> QED
    BY <1>2, <1>3, FS_Surjection
<1>5. DueSet \subseteq I
  <2> SUFFICES ASSUME NEW x \in DueSet
               PROVE  \E s \in T : f[s] = x
    OBVIOUS
  <2>1. PICK l \in Leaves : x \in Out(l)
    BY DueOut
  <2>2. PICK s \in Slots : Holds(s, l, x)
    BY <2>1 DEF IInv, HeldInv
  <2>3. s \in T /\ table[s].id = x
    BY <2>2 DEF Holds, Filling
  <2> QED
    BY <2>3
<1>6. IsFiniteSet(DueSet) /\ Cardinality(DueSet) <= Cardinality(I) /\ Cardinality(DueSet) \in Nat
  <2> HIDE DEF I
  <2> QED
    BY <1>4, <1>5, FS_Subset, FS_CardinalityType
<1>7. Cardinality(I) \in Nat
  <2> HIDE DEF I
  <2> QED
    BY <1>4, FS_CardinalityType
<1> HIDE DEF T, I, f
<1> QED
  BY <1>0, <1>2, <1>4, <1>6, <1>7

\* What SlottedND sees of rank 0 does not change.
LEMMA NDStutter ==
  ASSUME sampler'.id = sampler.id, Handled' = Handled,
         detector'.unknowns = detector.unknowns, detector'.id = detector.id,
         detector'.lastNDCheck = detector.lastNDCheck,
         detector'.pc = "failed" <=> detector.pc = "failed"
  PROVE  UNCHANGED ND!ndVars
BY DEF ND!ndVars

\* Steps of the other threads, and of the sampler but one, are of no account.
LEMMA ElsewhereIsStutter ==
  ASSUME UNCHANGED <<detector, output>>, sampler'.id = sampler.id
  PROVE  UNCHANGED ND!ndVars
<1>1. Handled' = Handled
  BY DEF Handled
<1> QED
  BY <1>1, NDStutter

LEMMA SamplerND ==
  ASSUME IInv, Sampler
  PROVE  ND!Deal \/ UNCHANGED ND!ndVars
<1>0. /\ TypeOK /\ LineInv /\ PlaceInv /\ HeldInv /\ StaleInv /\ LabelInv /\ PrintInv
      /\ sampler.id \in Nat
  BY Constants, PartTypes DEF IInv
<1>1. UNCHANGED <<detector, output>>
  BY DEF Sampler, ReadCluster, ReadExample, FindSlot, AwaitSlot, FillSlot, SendExample,
         EndOfInput, MarkLast, PackMarker, SendMarker, samplerRest
<1>2. CASE FillSlot
  <2>1. sampler.pc = "fill" /\ sampler'.id = sampler.id + 1
    BY <1>0, <1>2, SamplerFields DEF SamplerAt
  <2>2. sampler.id < MaxExamples
    BY <1>0, <2>1 DEF PlaceInv
  <2>3. ND!Cardinality(DueSet) < NSlots
    BY <2>1, RoomForOne, SameCardinality
  <2>4. Handled' = Handled
    BY <1>1 DEF Handled
  <2>5. sampler.id \notin Handled
    BY <1>0, HandledIs DEF PrintInv
  <2>6. DueSet' = DueSet \cup {sampler.id}
    <3>1. 0..(sampler'.id - 1) = (0..(sampler.id - 1)) \cup {sampler.id}
      BY <1>0, <2>1
    <3> QED
      BY <2>4, <2>5, <3>1 DEF DueSet
  <2> QED
    BY <1>1, <2>1, <2>2, <2>3, <2>6 DEF ND!Deal, DueSet
<1>3. CASE ~ FillSlot
  <2>1. sampler'.id = sampler.id
    <3>1. CASE ReadCluster
      BY <3>1 DEF ReadCluster
    <3>2. CASE ReadExample \/ AwaitSlot \/ SendExample \/ EndOfInput \/ MarkLast
      BY <1>0, <3>2, SamplerFields DEF SamplerAt
    <3>3. CASE PackMarker \/ SendMarker
      BY <1>0, <3>3, SamplerFields DEF SamplerAt
    <3>4. CASE FindSlot
      BY <1>0, <3>4, FindFields DEF SamplerAt
    <3> QED
      BY <1>3, <3>1, <3>2, <3>3, <3>4 DEF Sampler
  <2> QED
    BY <1>1, <2>1, ElsewhereIsStutter
<1> QED
  BY <1>2, <1>3

\* The detector changes what novelty detection works on only when it sorts.
LEMMA DetectorKeeps ==
  ASSUME TypeOK,
         \/ \E l \in Leaves : Take(l)
         \/ LookUp \/ AwaitChange \/ SetLabel \/ PrintAnswer \/ CastNew
         \/ FreeSlot \/ PostSlot \/ CastEos
  PROVE  /\ detector'.unknowns = detector.unknowns /\ detector'.id = detector.id
         /\ detector'.lastNDCheck = detector.lastNDCheck
         /\ detector.pc \notin {"sort", "failed"} /\ detector'.pc # "failed"
         /\ detector'.pc = "sort" <=> detector.pc = "print"
<1>0. detector \in DetectorType
  BY DEF TypeOK, DetectorType, DetectorPlaces
<1>1. ASSUME NEW p, DetectorGoes(p)
      PROVE  /\ detector'.unknowns = detector.unknowns /\ detector'.id = detector.id
             /\ detector'.lastNDCheck = detector.lastNDCheck /\ detector'.pc = p
  BY <1>0, <1>1 DEF DetectorGoes, DetectorType
<1>2. CASE \E l \in Leaves : Take(l)
  <2> PICK l \in Leaves : Take(l)
    BY <1>2
  <2> DEFINE h == Head(answers[l])
  <2>1. /\ detector.pc = "take"
        /\ \/ detector' = [detector EXCEPT !.streams = detector.streams - 1]
           \/ detector' = [detector EXCEPT !.pc = "find", !.from = l, !.answer = h]
    BY DEF Take
  <2> HIDE DEF h
  <2> QED
    BY <1>0, <2>1 DEF DetectorType
<1>3. CASE LookUp
  <2>1. CASE SlotsOfAnswer = {}
    BY <1>1, <1>3, <2>1 DEF LookUp
  <2>2. CASE SlotsOfAnswer # {}
    <3> DEFINE m == Min(SlotsOfAnswer)
    <3>1. detector.pc = "find" /\ detector' = [detector EXCEPT !.pc = "label", !.slot = m]
      BY <1>3, <2>2 DEF LookUp
    <3> HIDE DEF m
    <3> QED
      BY <1>0, <3>1 DEF DetectorType
  <2> QED
    BY <2>1, <2>2
<1>4. CASE CastNew
  <2>1. CASE detector.cast < size
    <3>1. detector.pc = "cast" /\ detector' = [detector EXCEPT !.cast = detector.cast + 1]
      BY <1>4, <2>1 DEF CastNew
    <3> QED
      BY <1>0, <3>1 DEF DetectorType
  <2>2. CASE ~ (detector.cast < size)
    BY <1>1, <1>4, <2>2 DEF CastNew
  <2> QED
    BY <2>1, <2>2
<1>5. CASE AwaitChange \/ SetLabel \/ PrintAnswer
  BY <1>1, <1>5 DEF AwaitChange, SetLabel, PrintAnswer
<1>6. CASE FreeSlot \/ PostSlot \/ CastEos
  BY <1>1, <1>6 DEF FreeSlot, PostSlot, CastEos
<1> QED
  BY <1>2, <1>3, <1>4, <1>5, <1>6

\* A print moves the last line from what is due to what is handled and back: the
\* example that was printed is not handled before it is sorted.
LEMMA PrintND ==
  ASSUME IInv, PrintAnswer
  PROVE  Handled' = Handled
<1> DEFINE m == detector.slot
           e == table[m]
<1>0. TypeOK /\ LineInv /\ PlaceInv /\ HeldInv /\ StaleInv /\ LabelInv /\ PrintInv
  BY DEF IInv
<1>1. detector.pc = "print" /\ output' = Append(output, e)
  BY DEF PrintAnswer
<1>2. detector'.pc = "sort"
  BY <1>0, <1>1, DetectorKeeps
<1>3. e.id = detector.answer.id /\ e.id \in Out(detector.from) /\ detector.from \in Leaves
  BY <1>0, <1>1, HandledIsOut DEF Handling
<1>4. \A i \in 1..Len(output) : output[i].id # e.id
  BY <1>0, <1>1, <1>3 DEF PrintInv, Current
<1>5. output \in Seq(Answer) /\ e \in Answer
  BY <1>0, <1>1 DEF TypeOK, PlaceInv, Handling, Example, Answer
<1> HIDE DEF e, m
<1>6. /\ Len(output') = Len(output) + 1 /\ Len(output) \in Nat
      /\ DOMAIN output' = 1..(Len(output) + 1) /\ DOMAIN output = 1..Len(output)
      /\ output'[Len(output) + 1] = e
      /\ \A i \in 1..Len(output) : output'[i] = output[i]
  BY <1>1, <1>5
<1>7. Handled' = {output'[i].id : i \in DOMAIN output'} \ {e.id}
  BY <1>2, <1>6 DEF Handled
<1>8. Handled = {output[i].id : i \in DOMAIN output}
  BY <1>1 DEF Handled
<1> QED
  BY <1>4, <1>6, <1>7, <1>8

\* An example that is sorted is due until then.
LEMMA SortDue ==
  ASSUME IInv, SortAnswer
  PROVE  /\ table[detector.slot].id = detector.answer.id
         /\ detector.answer.id \in DueSet
         /\ DueSet' = DueSet \ {detector.answer.id}
         /\ sampler' = sampler
<1> DEFINE x == detector.answer.id
<1>0. TypeOK /\ LineInv /\ PlaceInv /\ HeldInv /\ StaleInv /\ LabelInv /\ PrintInv
  BY DEF IInv
<1>1. detector.pc = "sort" /\ output' = output /\ sampler' = sampler
  BY DEF SortAnswer, detectorRest
<1>2. detector'.pc # "sort"
  BY <1>0, DetectorFields DEF DetectorAt
<1>3. table[detector.slot].id = x /\ x \in Out(detector.from) /\ detector.from \in Leaves
  BY <1>0, <1>1, HandledIsOut DEF Handling
<1>4. x \in 0..(sampler.id - 1)
  BY <1>0, <1>3, OutFacts
<1>5. x \notin Handled
  BY <1>1, HandledIs
<1>6. \E i \in 1..Len(output) : output[i].id = x
  BY <1>0, <1>1 DEF PrintInv, Current
<1>7. DOMAIN output = 1..Len(output)
  BY <1>0 DEF TypeOK
<1>8. Handled' = {output[i].id : i \in DOMAIN output}
  BY <1>1, <1>2 DEF Handled
<1>9. ASSUME NEW y
      PROVE  y \in Handled' <=> y \in Handled \/ y = x
  BY <1>1, <1>6, <1>7, <1>8, HandledIs
<1> QED
  BY <1>1, <1>3, <1>4, <1>5, <1>9 DEF DueSet

\* The label decides what happens to it, as in SlottedND.
LEMMA SortND ==
  ASSUME IInv, SortAnswer
  PROVE  \E x \in DueSet : ND!Handle(x)
<1> DEFINE x == detector.answer.id
           latest == Max({detector.id, x})
           buffer == detector.unknowns \cup {x}
           last == detector.lastNDCheck
<1>0. TypeOK /\ LineInv /\ PlaceInv /\ HeldInv /\ StaleInv /\ LabelInv /\ PrintInv
      /\ detector \in DetectorType
  BY DEF IInv, TypeOK, DetectorType, DetectorPlaces
<1>1. /\ table[detector.slot].id = x /\ x \in DueSet /\ DueSet' = DueSet \ {x}
      /\ sampler' = sampler
  BY SortDue
<1>2. detector.pc = "sort"
  BY DEF SortAnswer
<1>3. \/ /\ detector' = [detector EXCEPT !.pc = "free", !.id = latest,
                           !.unknowns = detector.unknowns, !.lastNDCheck = last, !.cast = 0]
      \/ /\ table[detector.slot].label = "unknown"
         /\ Cardinality(buffer) >= 2 * ND!Trigger
         /\ detector' = [detector EXCEPT !.pc = "failed", !.id = latest,
                           !.unknowns = buffer, !.lastNDCheck = last, !.cast = 0]
      \/ /\ table[detector.slot].label = "unknown"
         /\ ~ (Cardinality(buffer) >= 2 * ND!Trigger)
         /\ ~ ND!RoundDue(buffer, latest, last)
         /\ detector' = [detector EXCEPT !.pc = "free", !.id = latest,
                           !.unknowns = buffer, !.lastNDCheck = last, !.cast = 0]
      \/ /\ table[detector.slot].label = "unknown"
         /\ ~ (Cardinality(buffer) >= 2 * ND!Trigger)
         /\ ND!RoundDue(buffer, latest, last)
         /\ \E left \in ND!Leftovers(buffer, last) :
              detector' = [detector EXCEPT !.pc = "cast", !.id = latest,
                             !.unknowns = left, !.lastNDCheck = latest, !.cast = size]
  BY <1>1 DEF SortAnswer, Latest
<1>4. table[detector.slot].label = "unknown" => "unknown" \in Answers
  BY <1>0, <1>2 DEF LabelInv
<1>5. ND!Max({detector.id, x}) = latest /\ ND!Cardinality(buffer) = Cardinality(buffer)
  BY SameMax, SameCardinality
<1> HIDE DEF x, latest, buffer, last
<1>6. \/ /\ detector'.pc # "failed" /\ detector'.id = latest
         /\ detector'.unknowns = detector.unknowns /\ detector'.lastNDCheck = last
      \/ /\ "unknown" \in Answers /\ detector'.id = latest
         /\ IF Cardinality(buffer) >= 2 * ND!Trigger
              THEN /\ detector'.unknowns = buffer /\ detector'.pc = "failed"
                   /\ detector'.lastNDCheck = last
            ELSE IF ND!RoundDue(buffer, latest, last)
              THEN /\ detector'.unknowns \in ND!Leftovers(buffer, last)
                   /\ detector'.lastNDCheck = latest /\ detector'.pc # "failed"
              ELSE /\ detector'.unknowns = buffer
                   /\ detector'.lastNDCheck = last /\ detector'.pc # "failed"
  <2>1. CASE detector' = [detector EXCEPT !.pc = "free", !.id = latest,
                            !.unknowns = detector.unknowns, !.lastNDCheck = last, !.cast = 0]
    BY <1>0, <2>1 DEF DetectorType
  <2>2. CASE /\ table[detector.slot].label = "unknown"
             /\ Cardinality(buffer) >= 2 * ND!Trigger
             /\ detector' = [detector EXCEPT !.pc = "failed", !.id = latest,
                               !.unknowns = buffer, !.lastNDCheck = last, !.cast = 0]
    BY <1>0, <1>4, <2>2 DEF DetectorType
  <2>3. CASE /\ table[detector.slot].label = "unknown"
             /\ ~ (Cardinality(buffer) >= 2 * ND!Trigger)
             /\ ~ ND!RoundDue(buffer, latest, last)
             /\ detector' = [detector EXCEPT !.pc = "free", !.id = latest,
                               !.unknowns = buffer, !.lastNDCheck = last, !.cast = 0]
    BY <1>0, <1>4, <2>3 DEF DetectorType
  <2>4. CASE /\ table[detector.slot].label = "unknown"
             /\ ~ (Cardinality(buffer) >= 2 * ND!Trigger)
             /\ ND!RoundDue(buffer, latest, last)
             /\ \E left \in ND!Leftovers(buffer, last) :
                  detector' = [detector EXCEPT !.pc = "cast", !.id = latest,
                                 !.unknowns = left, !.lastNDCheck = latest, !.cast = size]
    BY <1>0, <1>4, <2>4 DEF DetectorType
  <2> QED
    BY <1>3, <2>1, <2>2, <2>3, <2>4
<1>7. \/ UNCHANGED <<detector.unknowns, detector.lastNDCheck, detector.pc = "failed">>
      \/ "unknown" \in Answers /\ ND!Store(x, detector'.id)
  BY <1>2, <1>5, <1>6 DEF ND!Store, buffer, last
<1>8. ND!Handle(x)
  BY <1>1, <1>2, <1>5, <1>6, <1>7 DEF ND!Handle, DueSet
<1> QED
  BY <1>1, <1>8

LEMMA NDStart == Init => ND!Init
<1> SUFFICES ASSUME Init PROVE ND!Init
  OBVIOUS
<1>1. /\ sampler.id = 0 /\ detector.pc = "take" /\ detector.unknowns = {}
      /\ detector.id = 0 /\ detector.lastNDCheck = 0
  BY DEF Init
<1>2. DueSet = {}
  BY <1>1 DEF DueSet
<1> QED
  BY <1>1, <1>2 DEF ND!Init, DueSet

LEMMA DetectorND ==
  ASSUME IInv, Detector
  PROVE  ND!Next \/ UNCHANGED ND!ndVars
<1>0. TypeOK
  BY DEF IInv
<1>1. CASE SortAnswer
  BY <1>1, SortND DEF ND!Next, DueSet
<1>2. CASE PrintAnswer
  <2>1. sampler' = sampler
    BY <1>2 DEF PrintAnswer, detectorRest
  <2> QED
    BY <1>0, <1>2, <2>1, PrintND, DetectorKeeps, NDStutter
<1>3. CASE \/ \E l \in Leaves : Take(l)
           \/ LookUp \/ AwaitChange \/ SetLabel \/ CastNew \/ FreeSlot \/ PostSlot \/ CastEos
  <2>1. sampler' = sampler /\ output' = output /\ detector.pc # "print"
    BY <1>3 DEF Take, LookUp, AwaitChange, SetLabel, CastNew, FreeSlot, PostSlot, CastEos,
                detectorRest
  <2>2. /\ detector'.unknowns = detector.unknowns /\ detector'.id = detector.id
        /\ detector'.lastNDCheck = detector.lastNDCheck
        /\ detector.pc \notin {"sort", "failed"} /\ detector'.pc # "failed"
        /\ detector'.pc # "sort"
    BY <1>0, <1>3, <2>1, DetectorKeeps
  <2>3. Handled' = Handled
    BY <2>1, <2>2 DEF Handled
  <2> QED
    BY <2>1, <2>2, <2>3, NDStutter
<1> QED
  BY <1>1, <1>2, <1>3 DEF Detector

\* Rank 0 implements SlottedND: it deals an id only when a slot is free for it,
\* handles each id that is due once, in whatever order answers come, and the
\* unknowns, the largest id, the last novelty detection and the assertion on the
\* buffer are those of one classifier that gets the answers in that order.
THEOREM RankZeroIsSlottedND == Spec => ImplementsSlottedND
<1>1. Init => ND!Init
  BY NDStart
<1>2. IInv /\ [Next]_vars => [ND!Next]_(ND!ndVars)
  <2> SUFFICES ASSUME IInv, [Next]_vars PROVE ND!Next \/ UNCHANGED ND!ndVars
    OBVIOUS
  <2>1. CASE Sampler
    BY <2>1, SamplerND DEF ND!Next
  <2>2. CASE Detector
    BY <2>2, DetectorND
  <2>3. CASE \E l \in Leaves : LeafThreads(l) \/ Tell(l) \/ HearReport(l)
    <3>1. UNCHANGED <<detector, output, sampler>>
      BY <2>3 DEF LeafThreads, Classifier, Receive, CheckModel, AwaitModel, IdentifyAndSend,
                  Hear, AddHeard, Tell, HearReport, leafRest
    <3> QED
      BY <3>1, ElsewhereIsStutter
  <2>4. CASE UNCHANGED vars
    BY <2>4, ElsewhereIsStutter DEF vars
  <2> QED
    BY <2>1, <2>2, <2>3, <2>4 DEF Next
<1> QED
  BY <1>1, <1>2, SlottedInvariant, PTL DEF Spec, ImplementsSlottedND, ND!Spec
=============================================================================
