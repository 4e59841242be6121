-------------------------- MODULE Standalone_proofs --------------------------
(***************************************************************************)
(* Theorems about what works on its own, for every value of the constants. *)
(* The ring of examples: every cell has one owner, and no thread sleeps on *)
(* a signal that was lost.  The programs: eet | online answers in order    *)
(* and forgets nothing, the detection keeps its list within its limits,    *)
(* the classifier only misreads the end of a model, the model of offline   *)
(* covers and counts the training set.  The first distributed program:     *)
(* every example that was dealt is in one place.                           *)
(***************************************************************************)
EXTENDS CircularBuffer, Programs, MasterWorkers, Integers, FiniteSetsExt, TLAPS,
        FiniteSetTheorems, SequenceTheorems, WellFoundedInduction

-----------------------------------------------------------------------------
\* The ring.
\* What is inductive: NoLostSignal itself is not, because it does not count.
IInv == TypeOK /\ OneOwner /\ Loaded /\ SignalsCover

-----------------------------------------------------------------------------
\* The arithmetic of the ring.

LEMMA Wrap ==
  \A i \in Nat : i < 2 * Size => i % Size = IF i < Size THEN i ELSE i - Size
<1> SUFFICES ASSUME NEW i \in Nat, i < 2 * Size
             PROVE  i % Size = IF i < Size THEN i ELSE i - Size
  OBVIOUS
<1>1. Size \in Nat /\ Size >= 2
  BY RingAssumption
<1>2. CASE i < Size
  BY <1>1, <1>2
<1>3. CASE i >= Size
  BY <1>1, <1>3
<1> QED
  BY <1>1, <1>2, <1>3

LEMMA NextCell ==
  \A i \in Slots : After(i) = IF i = Size - 1 THEN 0 ELSE i + 1
<1> SUFFICES ASSUME NEW i \in Slots
             PROVE  After(i) = IF i = Size - 1 THEN 0 ELSE i + 1
  OBVIOUS
<1>1. Size \in Nat /\ Size >= 2 /\ i \in Nat /\ i < Size
  BY RingAssumption DEF Slots
<1>2. i + 1 \in Nat /\ i + 1 < 2 * Size
  BY <1>1
<1>3. (i + 1) % Size = IF i + 1 < Size THEN i + 1 ELSE i + 1 - Size
  BY <1>1, <1>2, Wrap
<1> QED
  BY <1>1, <1>3 DEF After

LEMMA Distance ==
  \A h, t \in Slots :
    (h + Size - t) % Size = IF h < t THEN h + Size - t ELSE h - t
<1> SUFFICES ASSUME NEW h \in Slots, NEW t \in Slots
             PROVE  (h + Size - t) % Size = IF h < t THEN h + Size - t ELSE h - t
  OBVIOUS
<1>1. Size \in Nat /\ Size >= 2 /\ h \in Nat /\ h < Size /\ t \in Nat /\ t < Size
  BY RingAssumption DEF Slots
<1>2. h + Size - t \in Nat /\ h + Size - t < 2 * Size
  <2>1. h + Size - t \in Int /\ h + Size - t > 0
    BY <1>1
  <2>2. h + Size - t < 2 * Size
    BY <1>1
  <2> QED
    BY <2>1, <2>2
<1>3. (h + Size - t) % Size =
        IF h + Size - t < Size THEN h + Size - t ELSE h + Size - t - Size
  BY <1>1, <1>2, Wrap
<1> QED
  BY <1>1, <1>3

\* The ring is full when no cell is free, and empty when it has no example.
LEMMA FullAndEmpty ==
  ASSUME head \in Slots, tail \in Slots
  PROVE  /\ Length \in 0..(Size - 1) /\ Free \in 0..(Size - 1)
         /\ Free = Size - 1 - Length
         /\ IsBufferFull <=> Free = 0
         /\ IsBufferEmpty <=> Length = 0
<1>1. Size \in Nat /\ Size >= 2 /\ head \in Nat /\ head < Size /\ tail \in Nat /\ tail < Size
  BY RingAssumption DEF Slots
<1>2. Length = IF head < tail THEN head + Size - tail ELSE head - tail
  BY Distance DEF Length
<1>3. After(head) = IF head = Size - 1 THEN 0 ELSE head + 1
  BY NextCell
<1> QED
  BY <1>1, <1>2, <1>3 DEF Free, IsBufferFull, IsBufferEmpty

\* A cell that is filled is one free cell less, and one that is emptied one more.
LEMMA OneMore ==
  ASSUME head \in Slots, tail \in Slots, ~IsBufferFull,
         head' = After(head), tail' = tail
  PROVE  head' \in Slots /\ Length' = Length + 1 /\ Free' = Free - 1
<1>1. Size \in Nat /\ Size >= 2 /\ head \in Nat /\ head < Size /\ tail \in Nat /\ tail < Size
  BY RingAssumption DEF Slots
<1>2. Length = IF head < tail THEN head + Size - tail ELSE head - tail
  BY Distance DEF Length
<1>3. After(head) = IF head = Size - 1 THEN 0 ELSE head + 1
  BY NextCell
<1>4. head' \in Slots
  BY <1>1, <1>3 DEF Slots
<1>5. Length' = IF head' < tail THEN head' + Size - tail ELSE head' - tail
  BY <1>4, Distance DEF Length
<1>6. Length' = Length + 1
  BY <1>1, <1>2, <1>3, <1>5 DEF IsBufferFull
<1>7. Length \in Int
  BY <1>1, <1>2
<1> QED
  BY <1>1, <1>4, <1>6, <1>7 DEF Free

LEMMA OneLess ==
  ASSUME head \in Slots, tail \in Slots, ~IsBufferEmpty,
         tail' = After(tail), head' = head
  PROVE  tail' \in Slots /\ Length' = Length - 1 /\ Free' = Free + 1
<1>1. Size \in Nat /\ Size >= 2 /\ head \in Nat /\ head < Size /\ tail \in Nat /\ tail < Size
  BY RingAssumption DEF Slots
<1>2. Length = IF head < tail THEN head + Size - tail ELSE head - tail
  BY Distance DEF Length
<1>3. After(tail) = IF tail = Size - 1 THEN 0 ELSE tail + 1
  BY NextCell
<1>4. tail' \in Slots
  BY <1>1, <1>3 DEF Slots
<1>5. Length' = IF head < tail' THEN head + Size - tail' ELSE head - tail'
  BY <1>4, Distance DEF Length
<1>6. Length' = Length - 1
  BY <1>1, <1>2, <1>3, <1>5 DEF IsBufferEmpty
<1>7. Length \in Int
  BY <1>1, <1>2
<1> QED
  BY <1>1, <1>4, <1>6, <1>7 DEF Free

-----------------------------------------------------------------------------
\* Counting the threads at a position.

LEMMA Counts ==
  ASSUME NEW position
  PROVE  /\ Cardinality(At(position)) \in Nat /\ IsFiniteSet(At(position))
         /\ Cardinality(At(position)') \in Nat
<1>1. At(position) \in SUBSET Threads /\ At(position)' \in SUBSET Threads
  BY DEF At
<1> QED
  BY <1>1, FS_Subset, FS_CardinalityType, RingAssumption

\* A thread that goes from one position to another is one more at the latter and
\* one less at the former.
LEMMA Moves ==
  ASSUME pc \in [Threads -> Positions], NEW t \in Threads, NEW p \in Positions,
         pc[t] # p, Goes(t, p), NEW position
  PROVE  Cardinality(At(position)') =
           Cardinality(At(position)) + (IF position = p THEN 1 ELSE 0)
                                     - (IF position = pc[t] THEN 1 ELSE 0)
<1>1. pc' = [pc EXCEPT ![t] = p]
  BY DEF Goes
<1>2. Cardinality(At(position)) \in Nat /\ IsFiniteSet(At(position))
  BY Counts
<1>3. CASE position = p
  <2>1. At(position)' = At(position) \cup {t} /\ t \notin At(position)
    BY <1>1, <1>3 DEF At
  <2> QED
    BY <2>1, <1>2, <1>3, FS_AddElement, SMTT(20)
<1>4. CASE position = pc[t]
  <2>1. At(position)' = At(position) \ {t} /\ t \in At(position)
    BY <1>1, <1>4 DEF At
  <2> QED
    BY <2>1, <1>2, <1>4, FS_RemoveElement
<1>5. CASE position # p /\ position # pc[t]
  <2>1. At(position)' = At(position)
    BY <1>1, <1>5 DEF At
  <2> QED
    BY <2>1, <1>2, <1>5
<1> QED
  BY <1>3, <1>4, <1>5

\* Nobody begins to wait in a step that takes a thread elsewhere.
LEMMA NoNewWaiter ==
  ASSUME pc \in [Threads -> Positions], NEW t \in Threads, NEW p \in Positions,
         Goes(t, p), NEW S, p \notin S \/ pc[t] \in S
  PROVE  SomeAt(S)' => SomeAt(S)
BY DEF SomeAt, Goes

-----------------------------------------------------------------------------
\* Types.

LEMMA RoundsBound ==
  ASSUME NEW t \in Producers \cup {Main}
  PROVE  Rounds(t) \in Nat /\ Rounds(t) <= MaxRounds
<1>1. Consumers \in SUBSET Threads
  BY DEF Threads
<1>2. Cardinality(Consumers) \in Nat
  BY <1>1, FS_Subset, FS_CardinalityType, RingAssumption
<1>3. Size \in Nat /\ Size >= 2 /\ PerProducer \in 1..(2 * Size)
  BY RingAssumption DEF MaxRounds
<1> QED
  BY <1>2, <1>3 DEF Rounds, Markers, MaxRounds

LEMMA InitInv ==
  ASSUME Init
  PROVE  IInv
<1>1. Size \in Nat /\ Size >= 2
  BY RingAssumption
<1>2. TypeOK
  <2>1. head \in Slots /\ tail \in Slots
    BY <1>1 DEF Init, Slots
  <2>2. Nothing \in Message \cup {Nothing}
    OBVIOUS
  <2>3. pc \in [Threads -> Positions]
    BY DEF Init, Positions
  <2> QED
    BY <2>1, <2>2, <2>3 DEF Init, TypeOK, Cells
<1>3. OneOwner
  <2>1. \A i \in Slots : i \in Nat
    BY DEF Slots
  <2> QED
    BY <2>1, RingAssumption DEF Init, OneOwner
<1>4. SignalsCover
  <2>1. \A t \in Threads : pc[t] \in {"write", "get", "join"}
    BY DEF Init
  <2>2. ~SomeAt({"full", "putWait"}) /\ ~SomeAt({"empty", "getWait"})
    BY <2>1 DEF SomeAt
  <2> QED
    BY <2>2 DEF SignalsCover
<1>5. Loaded
  <2>1. \A t \in Threads : pc[t] \in {"write", "get", "join"}
    BY DEF Init
  <2> QED
    BY <2>1 DEF Loaded, Threads
<1> QED
  BY <1>2, <1>3, <1>4, <1>5 DEF IInv

LEMMA PuttingTypes ==
  ASSUME TypeOK, NEW t \in Producers \cup {Main}, Putting(t)
  PROVE  TypeOK'
<1>1. t \in Threads
  BY DEF Threads
<1> USE <1>1
<1>2. CASE Write(t)
  <2>1. CASE count[t] < Rounds(t)
    <3>1. count[t] \in Nat /\ Rounds(t) \in Nat /\ Rounds(t) <= MaxRounds /\ MaxRounds \in Nat
      BY RoundsBound, RingAssumption DEF TypeOK, MaxRounds
    <3>2. count[t] \in 0..(MaxRounds - 1)
      BY <2>1, <3>1
    <3>3. [by |-> t, id |-> count[t]] \in Message
      BY <3>2 DEF Message
    <3>4. content' = [content EXCEPT ![hold[t]] = [by |-> t, id |-> count[t]]]
      BY <1>2, <2>1 DEF Write
    <3>5. content' \in [Cells -> Message \cup {Nothing}]
      BY <3>3, <3>4 DEF TypeOK
    <3>6. Goes(t, "put")
      BY <1>2, <2>1 DEF Write
    <3> QED
      BY <1>2, <3>5, <3>6 DEF Write, TypeOK, Goes, Positions, ring, signals
  <2>2. CASE ~(count[t] < Rounds(t))
    BY <1>2, <2>2 DEF Write, TypeOK, Goes, Positions, ring, signals
  <2> QED
    BY <2>1, <2>2
<1>3. CASE Enqueue(t)
  <2>1. CASE IsBufferFull
    BY <1>3, <2>1 DEF Enqueue, TypeOK, Goes, Positions, ring, signals
  <2>2. CASE ~IsBufferFull
    <3>1. SwapIn(t) /\ Goes(t, "putPost") /\ tail' = tail /\ UNCHANGED <<signals, content, count>>
      BY <1>3, <2>2 DEF Enqueue
    <3>2. head' \in Slots
      BY <2>2, <3>1, OneMore DEF TypeOK, SwapIn
    <3>3. data' \in [Slots -> Cells] /\ hold' \in [Threads -> Cells]
      BY <3>1 DEF SwapIn, TypeOK
    <3> QED
      BY <3>1, <3>2, <3>3 DEF TypeOK, Goes, Positions, signals
  <2> QED
    BY <2>1, <2>2
<1>4. CASE FoundFull(t)
  BY <1>4 DEF FoundFull, TypeOK, Goes, Positions, ring
<1>5. CASE WaitForSpace(t)
  BY <1>5 DEF WaitForSpace, TypeOK, Goes, Positions, ring
<1>6. CASE Enqueued(t)
  BY <1>6 DEF Enqueued, TypeOK, Goes, Positions, ring
<1> QED
  BY <1>2, <1>3, <1>4, <1>5, <1>6 DEF Putting

LEMMA GettingTypes ==
  ASSUME TypeOK, NEW t \in Consumers, Getting(t)
  PROVE  TypeOK'
<1>1. t \in Threads
  BY DEF Threads
<1> USE <1>1
<1>2. CASE Dequeue(t)
  <2>1. CASE IsBufferEmpty
    BY <1>2, <2>1 DEF Dequeue, TypeOK, Goes, Positions, ring, signals
  <2>2. CASE ~IsBufferEmpty
    <3>1. SwapOut(t) /\ Goes(t, "getPost") /\ head' = head /\ UNCHANGED <<signals, content, count>>
      BY <1>2, <2>2 DEF Dequeue
    <3>2. tail' \in Slots
      BY <2>2, <3>1, OneLess DEF TypeOK, SwapOut
    <3>3. data' \in [Slots -> Cells] /\ hold' \in [Threads -> Cells]
      BY <3>1 DEF SwapOut, TypeOK
    <3> QED
      BY <3>1, <3>2, <3>3 DEF TypeOK, Goes, Positions, signals
  <2> QED
    BY <2>1, <2>2
<1>3. CASE FoundEmpty(t)
  BY <1>3 DEF FoundEmpty, TypeOK, Goes, Positions, ring
<1>4. CASE WaitForExample(t)
  BY <1>4 DEF WaitForExample, TypeOK, Goes, Positions, ring
<1>5. CASE Dequeued(t)
  BY <1>5 DEF Dequeued, TypeOK, Goes, Positions, ring
<1>6. CASE Read(t)
  BY <1>6 DEF Read, TypeOK, Goes, Positions, ring, signals
<1> QED
  BY <1>2, <1>3, <1>4, <1>5, <1>6 DEF Getting

-----------------------------------------------------------------------------
\* Owners: only the two swaps move cells, and each exchanges two of them.

LEMMA SwapOwner ==
  ASSUME TypeOK, OneOwner, NEW i \in Slots, NEW t \in Threads,
         data' = [data EXCEPT ![i] = hold[t]],
         hold' = [hold EXCEPT ![t] = data[i]]
  PROVE  OneOwner'
<1>1. /\ \A j \in Slots : data'[j] = IF j = i THEN hold[t] ELSE data[j]
      /\ \A u \in Threads : hold'[u] = IF u = t THEN data[i] ELSE hold[u]
  BY DEF TypeOK
<1> QED
  BY <1>1 DEF OneOwner

LEMMA SameOwner ==
  ASSUME OneOwner, data' = data, hold' = hold
  PROVE  OneOwner'
BY DEF OneOwner

LEMMA OwnerStep ==
  ASSUME TypeOK, OneOwner, Next
  PROVE  OneOwner'
<1>1. ASSUME NEW t \in Producers \cup {Main}, Putting(t)
      PROVE  OneOwner'
  <2>1. CASE SwapIn(t)
    BY <2>1, SwapOwner DEF SwapIn, TypeOK, Threads
  <2>2. CASE ~SwapIn(t)
    <3>1. data' = data /\ hold' = hold
      BY <1>1, <2>2 DEF Putting, Write, Enqueue, FoundFull, WaitForSpace, Enqueued, ring
    <3> QED
      BY <3>1, SameOwner
  <2> QED
    BY <2>1, <2>2
<1>2. ASSUME NEW t \in Consumers, Getting(t)
      PROVE  OneOwner'
  <2>1. CASE SwapOut(t)
    BY <2>1, SwapOwner DEF SwapOut, TypeOK, Threads
  <2>2. CASE ~SwapOut(t)
    <3>1. data' = data /\ hold' = hold
      BY <1>2, <2>2 DEF Getting, Dequeue, FoundEmpty, WaitForExample, Dequeued, Read, ring
    <3> QED
      BY <3>1, SameOwner
  <2> QED
    BY <2>1, <2>2
<1>3. CASE Join
  BY <1>3, SameOwner DEF Join, ring
<1>4. CASE UNCHANGED vars
  BY <1>4, SameOwner DEF vars, ring
<1> QED
  BY <1>1, <1>2, <1>3, <1>4 DEF Next

-----------------------------------------------------------------------------
\* Producers that are at the ring hold an example.

LEMMA LoadedStep ==
  ASSUME TypeOK, OneOwner, Loaded, Next
  PROVE  Loaded'
<1> SUFFICES ASSUME NEW u \in Producers \cup {Main}, pc'[u] \in {"put", "full", "putWait"}
             PROVE  content'[hold'[u]] \in Message
  BY DEF Loaded
<1>1. u \in Threads /\ u \notin Consumers
  BY RingAssumption DEF Threads
<1>2. ASSUME pc[u] \in {"put", "full", "putWait"}, hold'[u] = hold[u],
             content'[hold[u]] = content[hold[u]]
      PROVE  content'[hold'[u]] \in Message
  BY <1>2 DEF Loaded
<1>3. ASSUME NEW t \in Producers \cup {Main}, Putting(t)
      PROVE  content'[hold'[u]] \in Message
  <2>1. t \in Threads
    BY DEF Threads
  <2>2. CASE Write(t) /\ t = u
    <3>1. pc[u] = "write" /\ hold' = hold
      BY <2>2 DEF Write
    <3>2. count[u] < Rounds(u) /\ content' = [content EXCEPT ![hold[u]] = [by |-> u, id |-> count[u]]]
      BY <1>1, <2>2 DEF Write, Goes, TypeOK
    <3>3. count[u] \in Nat /\ Rounds(u) \in Nat /\ Rounds(u) <= MaxRounds /\ MaxRounds \in Nat
      BY <1>1, RoundsBound, RingAssumption DEF TypeOK, MaxRounds
    <3>4. count[u] \in 0..(MaxRounds - 1)
      BY <3>2, <3>3
    <3>5. [by |-> u, id |-> count[u]] \in Message
      BY <3>4 DEF Message
    <3> QED
      BY <1>1, <3>1, <3>2, <3>5 DEF TypeOK
  <2>3. CASE Write(t) /\ t # u
    <3>1. hold[t] # hold[u] /\ hold[u] \in Cells /\ hold' = hold
      BY <1>1, <2>1, <2>3 DEF OneOwner, TypeOK, Write
    <3>2. content'[hold[u]] = content[hold[u]]
      BY <2>3, <3>1 DEF Write, TypeOK
    <3>3. pc'[u] = pc[u]
      BY <1>1, <2>1, <2>3 DEF Write, Goes, TypeOK
    <3> QED
      BY <1>2, <3>1, <3>2, <3>3
  <2>4. CASE Enqueue(t)
    <3>1. content' = content /\ pc[t] = "put"
      BY <2>4 DEF Enqueue
    <3>2. CASE t = u
      <4>1. pc[u] = "put" /\ hold'[u] = hold[u]
        BY <1>1, <2>4, <3>2 DEF Enqueue, Goes, TypeOK
      <4> QED
        BY <1>2, <3>1, <4>1
    <3>3. CASE t # u
      <4>1. pc'[u] = pc[u] /\ hold'[u] = hold[u]
        BY <1>1, <2>1, <2>4, <3>3 DEF Enqueue, SwapIn, Goes, TypeOK
      <4> QED
        BY <1>2, <3>1, <4>1
    <3> QED
      BY <3>2, <3>3
  <2>5. CASE FoundFull(t) \/ WaitForSpace(t) \/ Enqueued(t)
    <3>1. content' = content /\ hold' = hold
      BY <2>5 DEF FoundFull, WaitForSpace, Enqueued
    <3>2. pc[u] \in {"put", "full", "putWait"}
      BY <1>1, <2>1, <2>5 DEF FoundFull, WaitForSpace, Enqueued, Goes, TypeOK
    <3> QED
      BY <1>2, <3>1, <3>2
  <2> QED
    BY <1>3, <2>2, <2>3, <2>4, <2>5 DEF Putting
<1>4. ASSUME NEW c \in Consumers, Getting(c)
      PROVE  content'[hold'[u]] \in Message
  <2>1. c \in Threads /\ c # u
    BY <1>1 DEF Threads
  <2>2. content' = content
    BY <1>4 DEF Getting, Dequeue, FoundEmpty, WaitForExample, Dequeued, Read
  <2>3. pc'[u] = pc[u]
    BY <1>1, <1>4, <2>1 DEF Getting, Dequeue, FoundEmpty, WaitForExample, Dequeued, Read, Goes, TypeOK
  <2>4. hold'[u] = hold[u]
    BY <1>1, <1>4, <2>1 DEF Getting, Dequeue, SwapOut, FoundEmpty, WaitForExample, Dequeued, Read, TypeOK
  <2> QED
    BY <1>2, <2>2, <2>3, <2>4
<1>5. ASSUME Join
      PROVE  content'[hold'[u]] \in Message
  <2>1. u # Main => pc'[u] = pc[u]
    BY <1>1, <1>5 DEF Join, Goes, TypeOK
  <2>2. u # Main /\ content' = content /\ hold' = hold
    BY <1>1, <1>5 DEF Join, Goes, TypeOK
  <2> QED
    BY <1>2, <2>1, <2>2
<1>6. ASSUME UNCHANGED vars
      PROVE  content'[hold'[u]] \in Message
  BY <1>2, <1>6 DEF vars
<1> QED
  BY <1>3, <1>4, <1>5, <1>6 DEF Next

-----------------------------------------------------------------------------
\* Signals.

\* Every step of a thread keeps the signals enough: what it takes from one side
\* of the sum it adds to the other, or the cell it stood for is no longer free.
LEMMA PuttingCover ==
  ASSUME TypeOK, SignalsCover, NEW t \in Producers \cup {Main}, Putting(t)
  PROVE  SignalsCover'
<1> DEFINE W == SomeAt({"full", "putWait"})
           R == SomeAt({"empty", "getWait"})
           C(x) == Cardinality(At(x))
<1>1. t \in Threads /\ pc \in [Threads -> Positions] /\ pc[t] \in Positions
  BY DEF Threads, TypeOK
<1>2. /\ C("put") \in Nat /\ C("getPost") \in Nat /\ C("putPost") \in Nat /\ C("get") \in Nat
      /\ emptySignal \in Nat /\ fullSignal \in Nat
  BY Counts DEF TypeOK
<1>3. /\ Length \in Nat /\ Free \in Nat
      /\ IsBufferFull <=> Free = 0
  <2>1. Size - 1 \in Nat
    BY RingAssumption
  <2> QED
    BY <2>1, FullAndEmpty DEF TypeOK
<1>4. /\ W => emptySignal + C("getPost") + C("put") >= Free
      /\ R => fullSignal + C("putPost") + C("get") >= Length
  BY DEF SignalsCover
<1>5. ASSUME UNCHANGED <<head, tail>>
      PROVE  Length' = Length /\ Free' = Free
  BY <1>5 DEF Free, Length
<1>6. CASE Write(t)
  <2>1. pc[t] = "write" /\ UNCHANGED <<head, tail, fullSignal, emptySignal>>
    BY <1>6 DEF Write, ring, signals
  <2>2. PICK p \in {"put", "done"} : Goes(t, p)
    BY <1>6 DEF Write
  <2>3. p \in Positions
    BY DEF Positions
  <2>4. (W' => W) /\ (R' => R)
    BY <1>1, <2>2, <2>3, NoNewWaiter
  <2>5. /\ C("put")' = C("put") + (IF "put" = p THEN 1 ELSE 0)
        /\ C("getPost")' = C("getPost")
        /\ C("putPost")' = C("putPost") /\ C("get")' = C("get")
    BY <1>1, <1>2, <2>1, <2>2, <2>3, Moves
  <2> QED
    BY <1>2, <1>3, <1>4, <1>5, <2>1, <2>4, <2>5 DEF SignalsCover
<1>7. CASE Enqueue(t)
  <2>1. pc[t] = "put" /\ UNCHANGED <<fullSignal, emptySignal>>
    BY <1>7 DEF Enqueue, signals
  <2>2. CASE IsBufferFull
    <3>1. Goes(t, "full") /\ UNCHANGED <<head, tail>>
      BY <1>7, <2>2 DEF Enqueue, ring
    <3>2. "full" \in Positions
      BY DEF Positions
    <3>3. R' => R
      BY <1>1, <3>1, <3>2, NoNewWaiter
    <3>4. /\ C("put")' \in Nat /\ C("getPost")' = C("getPost")
          /\ C("putPost")' = C("putPost") /\ C("get")' = C("get")
      <4>1. C("put")' \in Nat
        BY Counts
      <4> QED
        BY <1>1, <1>2, <2>1, <3>1, <3>2, <4>1, Moves
    <3> QED
      BY <1>2, <1>3, <1>4, <1>5, <2>1, <2>2, <3>1, <3>3, <3>4 DEF SignalsCover
  <2>3. CASE ~IsBufferFull
    <3>1. SwapIn(t) /\ Goes(t, "putPost") /\ tail' = tail
      BY <1>7, <2>3 DEF Enqueue
    <3>2. "putPost" \in Positions
      BY DEF Positions
    <3>3. (W' => W) /\ (R' => R)
      BY <1>1, <3>1, <3>2, NoNewWaiter
    <3>4. /\ C("put")' = C("put") - 1 /\ C("getPost")' = C("getPost")
          /\ C("putPost")' = C("putPost") + 1 /\ C("get")' = C("get")
      BY <1>1, <1>2, <2>1, <3>1, <3>2, Moves
    <3>5. Length' = Length + 1 /\ Free' = Free - 1
      BY <2>3, <3>1, OneMore DEF TypeOK, SwapIn
    <3> QED
      BY <1>2, <1>3, <1>4, <2>1, <3>3, <3>4, <3>5 DEF SignalsCover
  <2> QED
    BY <2>2, <2>3
<1>8. CASE FoundFull(t)
  <2>1. /\ pc[t] = "full" /\ Goes(t, "putWait")
        /\ UNCHANGED <<head, tail, emptySignal>> /\ fullSignal' = fullSignal + 1
    BY <1>8 DEF FoundFull, ring
  <2>2. "putWait" \in Positions
    BY DEF Positions
  <2>3. (W' => W) /\ (R' => R)
    BY <1>1, <2>1, <2>2, NoNewWaiter
  <2>4. /\ C("put")' = C("put") /\ C("getPost")' = C("getPost")
        /\ C("putPost")' = C("putPost") /\ C("get")' = C("get")
    BY <1>1, <1>2, <2>1, <2>2, Moves
  <2> QED
    BY <1>2, <1>3, <1>4, <1>5, <2>1, <2>3, <2>4 DEF SignalsCover
<1>9. CASE WaitForSpace(t)
  <2>1. /\ pc[t] = "putWait" /\ Goes(t, "put")
        /\ UNCHANGED <<head, tail, fullSignal>> /\ emptySignal' = emptySignal - 1
    BY <1>9 DEF WaitForSpace, ring
  <2>2. "put" \in Positions
    BY DEF Positions
  <2>3. (W' => W) /\ (R' => R)
    BY <1>1, <2>1, <2>2, NoNewWaiter
  <2>4. /\ C("put")' = C("put") + 1 /\ C("getPost")' = C("getPost")
        /\ C("putPost")' = C("putPost") /\ C("get")' = C("get")
    BY <1>1, <1>2, <2>1, <2>2, Moves
  <2> QED
    BY <1>2, <1>3, <1>4, <1>5, <2>1, <2>3, <2>4 DEF SignalsCover
<1>10. CASE Enqueued(t)
  <2>1. /\ pc[t] = "putPost" /\ Goes(t, "write")
        /\ UNCHANGED <<head, tail, emptySignal>> /\ fullSignal' = fullSignal + 1
    BY <1>10 DEF Enqueued, ring
  <2>2. "write" \in Positions
    BY DEF Positions
  <2>3. (W' => W) /\ (R' => R)
    BY <1>1, <2>1, <2>2, NoNewWaiter
  <2>4. /\ C("put")' = C("put") /\ C("getPost")' = C("getPost")
        /\ C("putPost")' = C("putPost") - 1 /\ C("get")' = C("get")
    BY <1>1, <1>2, <2>1, <2>2, Moves
  <2> QED
    BY <1>2, <1>3, <1>4, <1>5, <2>1, <2>3, <2>4 DEF SignalsCover
<1> QED
  BY <1>6, <1>7, <1>8, <1>9, <1>10 DEF Putting

LEMMA GettingCover ==
  ASSUME TypeOK, SignalsCover, NEW t \in Consumers, Getting(t)
  PROVE  SignalsCover'
<1> DEFINE W == SomeAt({"full", "putWait"})
           R == SomeAt({"empty", "getWait"})
           C(x) == Cardinality(At(x))
<1>1. t \in Threads /\ pc \in [Threads -> Positions] /\ pc[t] \in Positions
  BY DEF Threads, TypeOK
<1>2. /\ C("put") \in Nat /\ C("getPost") \in Nat /\ C("putPost") \in Nat /\ C("get") \in Nat
      /\ emptySignal \in Nat /\ fullSignal \in Nat
  BY Counts DEF TypeOK
<1>3. /\ Length \in Nat /\ Free \in Nat
      /\ IsBufferEmpty <=> Length = 0
  <2>1. Size - 1 \in Nat
    BY RingAssumption
  <2> QED
    BY <2>1, FullAndEmpty DEF TypeOK
<1>4. /\ W => emptySignal + C("getPost") + C("put") >= Free
      /\ R => fullSignal + C("putPost") + C("get") >= Length
  BY DEF SignalsCover
<1>5. ASSUME UNCHANGED <<head, tail>>
      PROVE  Length' = Length /\ Free' = Free
  BY <1>5 DEF Free, Length
<1>6. CASE Dequeue(t)
  <2>1. pc[t] = "get" /\ UNCHANGED <<fullSignal, emptySignal>>
    BY <1>6 DEF Dequeue, signals
  <2>2. CASE IsBufferEmpty
    <3>1. Goes(t, "empty") /\ UNCHANGED <<head, tail>>
      BY <1>6, <2>2 DEF Dequeue, ring
    <3>2. "empty" \in Positions
      BY DEF Positions
    <3>3. W' => W
      BY <1>1, <3>1, <3>2, NoNewWaiter
    <3>4. /\ C("put")' = C("put") /\ C("getPost")' = C("getPost")
          /\ C("putPost")' = C("putPost") /\ C("get")' \in Nat
      <4>1. C("get")' \in Nat
        BY Counts
      <4> QED
        BY <1>1, <1>2, <2>1, <3>1, <3>2, <4>1, Moves
    <3> QED
      BY <1>2, <1>3, <1>4, <1>5, <2>1, <2>2, <3>1, <3>3, <3>4 DEF SignalsCover
  <2>3. CASE ~IsBufferEmpty
    <3>1. SwapOut(t) /\ Goes(t, "getPost") /\ head' = head
      BY <1>6, <2>3 DEF Dequeue
    <3>2. "getPost" \in Positions
      BY DEF Positions
    <3>3. (W' => W) /\ (R' => R)
      BY <1>1, <3>1, <3>2, NoNewWaiter
    <3>4. /\ C("put")' = C("put") /\ C("getPost")' = C("getPost") + 1
          /\ C("putPost")' = C("putPost") /\ C("get")' = C("get") - 1
      BY <1>1, <1>2, <2>1, <3>1, <3>2, Moves
    <3>5. Length' = Length - 1 /\ Free' = Free + 1
      BY <2>3, <3>1, OneLess DEF TypeOK, SwapOut
    <3> QED
      BY <1>2, <1>3, <1>4, <2>1, <3>3, <3>4, <3>5 DEF SignalsCover
  <2> QED
    BY <2>2, <2>3
<1>7. CASE FoundEmpty(t)
  <2>1. /\ pc[t] = "empty" /\ Goes(t, "getWait")
        /\ UNCHANGED <<head, tail, fullSignal>> /\ emptySignal' = emptySignal + 1
    BY <1>7 DEF FoundEmpty, ring
  <2>2. "getWait" \in Positions
    BY DEF Positions
  <2>3. (W' => W) /\ (R' => R)
    BY <1>1, <2>1, <2>2, NoNewWaiter
  <2>4. /\ C("put")' = C("put") /\ C("getPost")' = C("getPost")
        /\ C("putPost")' = C("putPost") /\ C("get")' = C("get")
    BY <1>1, <1>2, <2>1, <2>2, Moves
  <2> QED
    BY <1>2, <1>3, <1>4, <1>5, <2>1, <2>3, <2>4 DEF SignalsCover
<1>8. CASE WaitForExample(t)
  <2>1. /\ pc[t] = "getWait" /\ Goes(t, "get")
        /\ UNCHANGED <<head, tail, emptySignal>> /\ fullSignal' = fullSignal - 1
    BY <1>8 DEF WaitForExample, ring
  <2>2. "get" \in Positions
    BY DEF Positions
  <2>3. (W' => W) /\ (R' => R)
    BY <1>1, <2>1, <2>2, NoNewWaiter
  <2>4. /\ C("put")' = C("put") /\ C("getPost")' = C("getPost")
        /\ C("putPost")' = C("putPost") /\ C("get")' = C("get") + 1
    BY <1>1, <1>2, <2>1, <2>2, Moves
  <2> QED
    BY <1>2, <1>3, <1>4, <1>5, <2>1, <2>3, <2>4 DEF SignalsCover
<1>9. CASE Dequeued(t)
  <2>1. /\ pc[t] = "getPost" /\ Goes(t, "read")
        /\ UNCHANGED <<head, tail, fullSignal>> /\ emptySignal' = emptySignal + 1
    BY <1>9 DEF Dequeued, ring
  <2>2. "read" \in Positions
    BY DEF Positions
  <2>3. (W' => W) /\ (R' => R)
    BY <1>1, <2>1, <2>2, NoNewWaiter
  <2>4. /\ C("put")' = C("put") /\ C("getPost")' = C("getPost") - 1
        /\ C("putPost")' = C("putPost") /\ C("get")' = C("get")
    BY <1>1, <1>2, <2>1, <2>2, Moves
  <2> QED
    BY <1>2, <1>3, <1>4, <1>5, <2>1, <2>3, <2>4 DEF SignalsCover
<1>10. CASE Read(t)
  <2>1. pc[t] = "read" /\ UNCHANGED <<head, tail, fullSignal, emptySignal>>
    BY <1>10 DEF Read, ring, signals
  <2>2. PICK p \in {"get", "done"} : Goes(t, p)
    BY <1>10 DEF Read
  <2>3. p \in Positions
    BY DEF Positions
  <2>4. (W' => W) /\ (R' => R)
    BY <1>1, <2>2, <2>3, NoNewWaiter
  <2>5. /\ C("get")' = C("get") + (IF "get" = p THEN 1 ELSE 0)
        /\ C("put")' = C("put") /\ C("getPost")' = C("getPost")
        /\ C("putPost")' = C("putPost")
    BY <1>1, <1>2, <2>1, <2>2, <2>3, Moves
  <2> QED
    BY <1>2, <1>3, <1>4, <1>5, <2>1, <2>4, <2>5 DEF SignalsCover
<1> QED
  BY <1>6, <1>7, <1>8, <1>9, <1>10 DEF Getting

LEMMA JoinCover ==
  ASSUME TypeOK, SignalsCover, Join
  PROVE  SignalsCover'
<1> DEFINE W == SomeAt({"full", "putWait"})
           R == SomeAt({"empty", "getWait"})
           C(x) == Cardinality(At(x))
<1>1. /\ Main \in Threads /\ pc \in [Threads -> Positions]
      /\ pc[Main] = "join" /\ Goes(Main, "write") /\ "write" \in Positions
      /\ UNCHANGED <<head, tail, fullSignal, emptySignal>>
  BY DEF Join, TypeOK, Threads, Positions, ring, signals
<1>2. (W' => W) /\ (R' => R)
  BY <1>1, NoNewWaiter
<1>3. C("put") \in Nat /\ C("getPost") \in Nat /\ C("putPost") \in Nat /\ C("get") \in Nat
  BY Counts
<1>4. /\ C("put")' = C("put") /\ C("getPost")' = C("getPost")
      /\ C("putPost")' = C("putPost") /\ C("get")' = C("get")
  BY <1>1, <1>3, Moves
<1>5. Length' = Length /\ Free' = Free
  BY <1>1 DEF Free, Length
<1> QED
  BY <1>1, <1>2, <1>4, <1>5 DEF SignalsCover

-----------------------------------------------------------------------------
\* The theorems.

LEMMA StepInv ==
  ASSUME IInv, [Next]_vars
  PROVE  IInv'
<1>1. ASSUME NEW t \in Producers \cup {Main}, Putting(t)
      PROVE  TypeOK' /\ SignalsCover'
  BY <1>1, PuttingTypes, PuttingCover DEF IInv
<1>2. ASSUME NEW t \in Consumers, Getting(t)
      PROVE  TypeOK' /\ SignalsCover'
  BY <1>2, GettingTypes, GettingCover DEF IInv
<1>3. ASSUME Join
      PROVE  TypeOK' /\ SignalsCover'
  BY <1>3, JoinCover DEF IInv, Join, TypeOK, Goes, Positions, ring, signals
<1>4. CASE UNCHANGED vars
  BY <1>4 DEF IInv, TypeOK, OneOwner, Loaded, SignalsCover, SomeAt, At, Free, Length, vars, ring, signals
<1>5. CASE Next
  <2>1. OneOwner' /\ Loaded'
    BY <1>5, OwnerStep, LoadedStep DEF IInv
  <2>2. TypeOK' /\ SignalsCover'
    BY <1>1, <1>2, <1>3, <1>4, <1>5 DEF Next, IInv
  <2> QED
    BY <2>1, <2>2 DEF IInv
<1> QED
  BY <1>4, <1>5

\* Enough signals means that no one sleeps for nothing: what counts a cell as
\* free has a signal, or a thread that posts one or takes the cell.
LEMMA CoverWakes ==
  ASSUME IInv
  PROVE  NoLostSignal
<1>1. ASSUME NEW position, Cardinality(At(position)) # 0
      PROVE  \E t \in Threads : pc[t] = position
  <2>1. At(position) # {}
    BY <1>1, FS_EmptySet
  <2> QED
    BY <2>1 DEF At
<1>2. /\ emptySignal \in Nat /\ fullSignal \in Nat /\ head \in Slots /\ tail \in Slots
  BY DEF IInv, TypeOK
<1>3. ASSUME SomeAt({"putWait"}), ~IsBufferFull, emptySignal = 0
      PROVE  SomeAt({"put", "getPost"})
  <2>1. Free > 0 /\ Free \in Nat
    <3>1. Size - 1 \in Nat
      BY RingAssumption
    <3> QED
      BY <1>2, <1>3, <3>1, FullAndEmpty
  <2>2. SomeAt({"full", "putWait"})
    BY <1>3 DEF SomeAt
  <2>3. 0 + Cardinality(At("getPost")) + Cardinality(At("put")) >= Free
    BY <1>3, <2>2 DEF IInv, SignalsCover
  <2>4. Cardinality(At("getPost")) # 0 \/ Cardinality(At("put")) # 0
    BY <2>1, <2>3
  <2> QED
    BY <1>1, <2>4 DEF SomeAt
<1>4. ASSUME SomeAt({"getWait"}), ~IsBufferEmpty, fullSignal = 0
      PROVE  SomeAt({"get", "putPost"})
  <2>1. Length > 0 /\ Length \in Nat
    <3>1. Size - 1 \in Nat
      BY RingAssumption
    <3> QED
      BY <1>2, <1>4, <3>1, FullAndEmpty
  <2>2. SomeAt({"empty", "getWait"})
    BY <1>4 DEF SomeAt
  <2>3. 0 + Cardinality(At("putPost")) + Cardinality(At("get")) >= Length
    BY <1>4, <2>2 DEF IInv, SignalsCover
  <2>4. Cardinality(At("putPost")) # 0 \/ Cardinality(At("get")) # 0
    BY <2>1, <2>3
  <2> QED
    BY <1>1, <2>4 DEF SomeAt
<1> QED
  BY <1>2, <1>3, <1>4 DEF NoLostSignal

\* However many producers and consumers share the ring, and whatever its size:
\* the types, the owners of the cells, and no signal is lost.
THEOREM RingSafe == Spec => []Inv
<1>1. Init => IInv
  BY InitInv
<1>2. IInv /\ [Next]_vars => IInv'
  BY StepInv
<1>3. IInv => Inv
  BY CoverWakes DEF IInv, Inv
<1> QED
  BY <1>1, <1>2, <1>3, PTL DEF Spec

-----------------------------------------------------------------------------
\* The refinement: the view of the ring as a queue.

LEMMA PlaceFrom ==
  \A t \in Slots, i \in 1..Size :
    (t + i - 1) % Size = IF t + i - 1 < Size THEN t + i - 1 ELSE t + i - 1 - Size
<1> SUFFICES ASSUME NEW t \in Slots, NEW i \in 1..Size
             PROVE  (t + i - 1) % Size =
                      IF t + i - 1 < Size THEN t + i - 1 ELSE t + i - 1 - Size
  OBVIOUS
<1>1. Size \in Nat /\ Size >= 2 /\ t \in Nat /\ t < Size
  BY RingAssumption DEF Slots
<1>2. t + i - 1 \in Nat /\ t + i - 1 < 2 * Size
  BY <1>1
<1> QED
  BY <1>1, <1>2, Wrap

LEMMA RingPlaces ==
  ASSUME TypeOK
  PROVE  /\ Length \in Nat /\ Length < Size
         /\ \A i \in 1..Size : Place(i) \in Slots
         /\ \A i \in 1..Size :
              Place(i) = IF tail + i - 1 < Size THEN tail + i - 1 ELSE tail + i - 1 - Size
<1>1. /\ Size \in Nat /\ Size >= 2 /\ tail \in Nat /\ tail < Size
      /\ tail \in Slots /\ head \in Slots
  BY RingAssumption DEF Slots, TypeOK
<1>2. Length \in Nat /\ Length < Size
  BY <1>1, FullAndEmpty
<1>3. ASSUME NEW i \in 1..Size
      PROVE  /\ Place(i) \in Slots
             /\ Place(i) = IF tail + i - 1 < Size THEN tail + i - 1 ELSE tail + i - 1 - Size
  <2>1. tail + i - 1 \in Nat /\ tail + i - 1 < 2 * Size
    BY <1>1
  <2>2. Place(i) = IF tail + i - 1 < Size THEN tail + i - 1 ELSE tail + i - 1 - Size
    BY <1>1, PlaceFrom DEF Place
  <2> QED
    BY <1>1, <2>1, <2>2 DEF Slots
<1> QED
  BY <1>2, <1>3

LEMMA QueueType ==
  ASSUME TypeOK
  PROVE  /\ Queue \in Seq(Message \cup {Nothing}) /\ Len(Queue) = Length
         /\ \A i \in 1..Length : Queue[i] = content[data[Place(i)]]
<1>1. Length \in Nat /\ Length < Size /\ Size \in Nat
  BY RingPlaces, RingAssumption
<1>2. \A i \in 1..Length : content[data[Place(i)]] \in Message \cup {Nothing}
  BY <1>1, RingPlaces DEF TypeOK
<1> QED
  BY <1>1, <1>2 DEF Queue

\* What does not touch the cells in use leaves the view as it is.
LEMMA SameQueue ==
  ASSUME TypeOK, UNCHANGED <<head, tail>>,
         \A i \in Slots : content'[data'[i]] = content[data[i]]
  PROVE  Queue' = Queue
<1>1. Length' = Length /\ \A i : Place(i)' = Place(i)
  BY DEF Length, Place
<1>2. Length \in Nat /\ Length < Size /\ Size \in Nat
  BY RingPlaces, RingAssumption
<1>3. \A i \in 1..Length : content'[data'[Place(i)']] = content[data[Place(i)]]
  BY <1>1, <1>2, RingPlaces
<1> QED
  BY <1>1, <1>3 DEF Queue

LEMMA SwapInPuts ==
  ASSUME TypeOK, TypeOK', OneOwner, NEW t \in Threads, ~IsBufferFull,
         SwapIn(t), tail' = tail, content' = content
  PROVE  /\ Len(Queue) < Size - 1
         /\ Queue' = Append(Queue, content[hold[t]])
<1>1. /\ Size \in Nat /\ Size >= 2 /\ tail \in Nat /\ tail < Size
      /\ tail \in Slots /\ head \in Slots /\ head \in Nat /\ head < Size
  BY RingAssumption DEF Slots, TypeOK
<1>2. /\ Length \in Nat /\ Length' = Length + 1 /\ Length < Size - 1
  BY <1>1, OneMore, FullAndEmpty DEF SwapIn
<1>3. \A i : Place(i)' = Place(i)
  BY DEF Place
<1>4. Length = IF head < tail THEN head + Size - tail ELSE head - tail
  BY <1>1, Distance DEF Length
<1>5. Place(Length + 1) = head
  BY <1>1, <1>2, <1>4, RingPlaces
<1>6. ASSUME NEW i \in 1..Length
      PROVE  Place(i) \in Slots /\ Place(i) # head
  BY <1>1, <1>2, <1>4, RingPlaces
<1>7. ASSUME NEW i \in 1..(Length + 1)
      PROVE  Queue'[i] = IF i = Length + 1 THEN content[hold[t]] ELSE Queue[i]
  <2>1. Queue'[i] = content[data'[Place(i)]]
    BY <1>2, <1>3 DEF Queue
  <2>2. CASE i = Length + 1
    BY <1>1, <1>5, <2>1, <2>2 DEF SwapIn, TypeOK
  <2>3. CASE i \in 1..Length
    <3>1. data'[Place(i)] = data[Place(i)]
      BY <1>6, <2>3 DEF SwapIn, TypeOK
    <3> QED
      BY <1>2, <2>1, <2>3, <3>1 DEF Queue
  <2> QED
    BY <1>2, <2>2, <2>3
<1>8. /\ Queue \in Seq(Message \cup {Nothing}) /\ Len(Queue) = Length
      /\ Queue' \in Seq(Message \cup {Nothing}) /\ Len(Queue') = Length + 1
  <2>1. Queue' = [i \in 1..(Length + 1) |-> content[data'[Place(i)]]]
    BY <1>2, <1>3 DEF Queue
  <2>2. \A i \in 1..(Length + 1) : content[data'[Place(i)]] \in Message \cup {Nothing}
    BY <1>1, <1>2, RingPlaces DEF TypeOK
  <2> QED
    BY <1>2, <2>1, <2>2, QueueType
<1>9. content[hold[t]] \in Message \cup {Nothing}
  BY DEF TypeOK
<1>10. Queue' = Append(Queue, content[hold[t]])
  <2> DEFINE a == Append(Queue, content[hold[t]])
  <2>1. /\ a \in Seq(Message \cup {Nothing}) /\ Len(a) = Length + 1
        /\ \A i \in 1..(Length + 1) : a[i] = IF i = Length + 1 THEN content[hold[t]] ELSE Queue[i]
    BY <1>2, <1>8, <1>9
  <2>2. \A i \in 1..Len(Queue') : Queue'[i] = a[i]
    BY <1>7, <1>8, <2>1
  <2> HIDE DEF a
  <2>3. Queue' = a
    BY <1>8, <2>1, <2>2, SeqEqual
  <2> QED
    BY <2>3 DEF a
<1> QED
  BY <1>2, <1>8, <1>10

LEMMA SwapOutGets ==
  ASSUME TypeOK, TypeOK', OneOwner, NEW c \in Consumers, ~IsBufferEmpty,
         SwapOut(c), head' = head, content' = content
  PROVE  /\ Queue # <<>>
         /\ Queue' = Tail(Queue)
         /\ InHand' = [InHand EXCEPT ![c] = Head(Queue)]
<1>1. /\ Size \in Nat /\ Size >= 2 /\ tail \in Nat /\ tail < Size
      /\ tail \in Slots /\ head \in Slots /\ head \in Nat /\ head < Size
      /\ c \in Threads /\ Consumers \subseteq Threads
  BY RingAssumption DEF Slots, TypeOK, Threads
<1>2. /\ Length \in Nat /\ Length' = Length - 1 /\ Length' \in Nat /\ Length > 0 /\ Length < Size
  BY <1>1, OneLess, FullAndEmpty, RingPlaces DEF SwapOut
<1>3. tail' \in Slots /\ tail' = IF tail = Size - 1 THEN 0 ELSE tail + 1
  BY <1>1, NextCell, OneLess DEF SwapOut
<1>4. Place(1) = tail
  BY <1>1, RingPlaces
<1>5. ASSUME NEW i \in 1..(Length - 1)
      PROVE  /\ Place(i)' = Place(i + 1)
             /\ Place(i + 1) \in Slots /\ Place(i + 1) # tail
  <2>1. i + 1 \in 1..Size /\ i \in 1..Size /\ i \in Nat
    BY <1>2, <1>1
  <2>2. Place(i + 1) = IF tail + i < Size THEN tail + i ELSE tail + i - Size
    BY <1>1, <2>1, RingPlaces
  <2>3. Place(i)' = IF tail' + i - 1 < Size THEN tail' + i - 1 ELSE tail' + i - 1 - Size
    BY <1>3, <2>1, PlaceFrom DEF Place
  <2> QED
    BY <1>1, <1>2, <1>3, <2>1, <2>2, <2>3, RingPlaces
<1>6. /\ Queue \in Seq(Message \cup {Nothing}) /\ Len(Queue) = Length
      /\ \A i \in 1..Length : Queue[i] = content[data[Place(i)]]
  BY QueueType
<1>7. Queue # <<>> /\ Head(Queue) = content[data[tail]]
  BY <1>2, <1>4, <1>6
<1>8. InHand' = [InHand EXCEPT ![c] = Head(Queue)]
  <2>1. \A d \in Consumers : content'[hold'[d]] =
           IF d = c THEN Head(Queue) ELSE content[hold[d]]
    BY <1>1, <1>7 DEF SwapOut, TypeOK
  <2> QED
    BY <2>1 DEF InHand
<1>9. Queue' = Tail(Queue)
  <2>1. ASSUME NEW i \in 1..(Length - 1)
        PROVE  content[data'[Place(i)']] = Queue[i + 1]
    <3>1. data'[Place(i + 1)] = data[Place(i + 1)]
      BY <1>5, <2>1 DEF SwapOut, TypeOK
    <3> QED
      BY <1>2, <1>5, <1>6, <2>1, <3>1
  <2>2. Queue' = [i \in 1..(Length - 1) |-> Queue[i + 1]]
    BY <1>2, <2>1 DEF Queue
  <2>3. /\ Queue' \in Seq(Message \cup {Nothing}) /\ Len(Queue') = Length - 1
        /\ \A i \in 1..(Length - 1) : Queue'[i] = Queue[i + 1]
    BY <1>2, <1>6, <2>2
  <2>4. /\ Tail(Queue) \in Seq(Message \cup {Nothing}) /\ Len(Tail(Queue)) = Length - 1
        /\ \A i \in 1..(Length - 1) : Tail(Queue)[i] = Queue[i + 1]
    BY <1>2, <1>6, <1>7, HeadTailProperties
  <2> QED
    BY <2>3, <2>4, SeqEqual
<1> QED
  BY <1>7, <1>8, <1>9

LEMMA StepImplements ==
  ASSUME IInv, IInv', [Next]_vars
  PROVE  [FIFO!Next]_(FIFO!fifoVars)
<1> USE DEF IInv
<1>1. Consumers \subseteq Threads
  BY DEF Threads
<1>2. ASSUME UNCHANGED <<head, tail, data, hold, content>>
      PROVE  UNCHANGED FIFO!fifoVars
  <2>1. Queue' = Queue
    BY <1>2, SameQueue
  <2> QED
    BY <1>2, <2>1 DEF FIFO!fifoVars, InHand
<1>3. ASSUME NEW t \in Producers \cup {Main}, Putting(t)
      PROVE  [FIFO!Next]_(FIFO!fifoVars)
  <2>1. t \in Threads /\ t \notin Consumers
    BY RingAssumption DEF Threads
  <2>2. CASE Write(t)
    <3>1. UNCHANGED <<head, tail, data, hold>>
      BY <2>2 DEF Write, ring
    <3>2. \A x \in Cells : x # hold[t] => content'[x] = content[x]
      BY <2>2 DEF Write, TypeOK
    <3>3. \A i \in Slots : content'[data'[i]] = content[data[i]]
      BY <2>1, <3>1, <3>2 DEF TypeOK, OneOwner
    <3>4. \A c \in Consumers : content'[hold'[c]] = content[hold[c]]
      BY <1>1, <2>1, <3>1, <3>2 DEF TypeOK, OneOwner
    <3>5. Queue' = Queue /\ InHand' = InHand
      BY <3>1, <3>3, <3>4, SameQueue DEF InHand
    <3> QED
      BY <3>5 DEF FIFO!fifoVars
  <2>3. CASE Enqueue(t) /\ ~IsBufferFull
    <3>1. /\ pc[t] = "put" /\ SwapIn(t) /\ tail' = tail /\ content' = content
      BY <2>3 DEF Enqueue
    <3>2. content[hold[t]] \in Message
      BY <3>1 DEF Loaded
    <3>3. Len(Queue) < Size - 1 /\ Queue' = Append(Queue, content[hold[t]])
      BY <2>1, <2>3, <3>1, SwapInPuts
    <3>4. InHand' = InHand
      <4>1. \A c \in Consumers : hold'[c] = hold[c]
        BY <1>1, <2>1, <3>1 DEF SwapIn, TypeOK
      <4> QED
        BY <3>1, <4>1 DEF InHand
    <3>5. FIFO!Put(content[hold[t]])
      BY <3>3, <3>4 DEF FIFO!Put
    <3> QED
      BY <3>2, <3>5 DEF FIFO!Next
  <2>4. CASE Enqueue(t) /\ IsBufferFull
    BY <1>2, <2>4 DEF Enqueue, ring
  <2>5. CASE FoundFull(t) \/ WaitForSpace(t) \/ Enqueued(t)
    BY <1>2, <2>5 DEF FoundFull, WaitForSpace, Enqueued, ring
  <2> QED
    BY <1>3, <2>2, <2>3, <2>4, <2>5 DEF Putting
<1>4. ASSUME NEW c \in Consumers, Getting(c)
      PROVE  [FIFO!Next]_(FIFO!fifoVars)
  <2>1. CASE Dequeue(c) /\ ~IsBufferEmpty
    <3>1. SwapOut(c) /\ head' = head /\ content' = content
      BY <2>1 DEF Dequeue
    <3>2. FIFO!Get(c)
      BY <2>1, <3>1, SwapOutGets DEF FIFO!Get
    <3> QED
      BY <3>2 DEF FIFO!Next
  <2>2. CASE Dequeue(c) /\ IsBufferEmpty
    BY <1>2, <2>2 DEF Dequeue, ring
  <2>3. CASE FoundEmpty(c) \/ WaitForExample(c) \/ Dequeued(c) \/ Read(c)
    BY <1>2, <2>3 DEF FoundEmpty, WaitForExample, Dequeued, Read, ring
  <2> QED
    BY <1>4, <2>1, <2>2, <2>3 DEF Getting
<1>5. CASE Join
  BY <1>2, <1>5 DEF Join, ring
<1>6. CASE UNCHANGED vars
  BY <1>2, <1>6 DEF vars, ring
<1> QED
  BY <1>3, <1>4, <1>5, <1>6 DEF Next

LEMMA InitImplements ==
  ASSUME Init
  PROVE  FIFO!Init
<1>1. Length = 0
  <2>1. 0 \in Slots /\ Size \in Nat
    BY RingAssumption DEF Slots
  <2> QED
    BY <2>1, Distance DEF Init, Length
<1>2. Queue = <<>>
  BY <1>1 DEF Queue
<1>3. InHand = [c \in Consumers |-> Nothing]
  BY DEF Init, InHand, Cells, Threads
<1> QED
  BY <1>2, <1>3 DEF FIFO!Init

\* The ring of swapped cells is a bounded first-in first-out queue.
THEOREM RingIsFIFO == Spec => IsFIFO
<1>1. Init => FIFO!Init
  BY InitImplements
<1>2. IInv /\ IInv' /\ [Next]_vars => [FIFO!Next]_(FIFO!fifoVars)
  BY StepImplements
<1>3. Init => IInv
  BY InitInv
<1>4. IInv /\ [Next]_vars => IInv'
  BY StepInv
<1> QED
  BY <1>1, <1>2, <1>3, <1>4, PTL DEF Spec, IsFIFO, FIFO!Spec

-----------------------------------------------------------------------------
\* The programs on their own.
LEMMA LeastNat ==
  ASSUME NEW S \in SUBSET Nat, S # {}
  PROVE  \E m \in S : \A k \in S : m <= k
<1> DEFINE R == OpToRel(<, Nat)
<1>0. R = {ss \in Nat \X Nat : ss[1] < ss[2]}
  BY DEF OpToRel
<1>1. IsWellFoundedOn(R, Nat)
  BY NatLessThanWellFounded
<1> HIDE DEF R
<1>2. PICK m \in S : \A k \in S : <<k, m>> \notin R
  BY <1>1, WFMin
<1>3. \A k \in S : ~(k < m)
  BY <1>0, <1>2
<1> QED
  BY <1>3

-----------------------------------------------------------------------------
\* The sum of the values of v.  It is the size of a set of pairs: x with each number below
\* v[x].
First(s) == CHOOSE x \in s : TRUE
Adds(g, v, S) ==
  g = [s \in SUBSET S |-> IF s = {} THEN 0 ELSE v[First(s)] + g[s \ {First(s)}]]
SumOf(v, S) == (CHOOSE g : Adds(g, v, S))[S]
Below(v, S) == {p \in S \X Nat : p[2] < v[p[1]]}

LEMMA BelowFinite ==
  ASSUME NEW S, IsFiniteSet(S), NEW v \in [S -> Nat]
  PROVE  IsFiniteSet(Below(v, S))
<1> DEFINE part(x) == {x} \X (0..(v[x] - 1))
           T == {part(x) : x \in S}
           f == [x \in S |-> part(x)]
<1>1. \A t \in T : IsFiniteSet(t)
  <2> SUFFICES ASSUME NEW x \in S PROVE IsFiniteSet(part(x))
    OBVIOUS
  <2>1. IsFiniteSet({x})
    BY FS_Singleton
  <2>2. IsFiniteSet(0..(v[x] - 1))
    BY FS_Interval
  <2> QED
    BY <2>1, <2>2, FS_Product
<1>2. f \in Surjection(S, T)
  BY DEF Surjection
<1> HIDE DEF f
<1>3. IsFiniteSet(T)
  BY <1>2, FS_Surjection
<1>4. IsFiniteSet(UNION T)
  BY <1>1, <1>3, FS_UNION
<1>5. Below(v, S) = UNION T
  <2>1. ASSUME NEW p \in Below(v, S) PROVE p \in UNION T
    <3>1. p \in S \X Nat /\ p[2] < v[p[1]] /\ v[p[1]] \in Nat
      BY DEF Below
    <3>2. p \in part(p[1])
      BY <3>1
    <3> QED
      BY <3>1, <3>2
  <2>2. ASSUME NEW x \in S, NEW p \in part(x) PROVE p \in Below(v, S)
    <3>1. p[1] = x /\ p[2] \in 0..(v[x] - 1) /\ p = <<p[1], p[2]>> /\ v[x] \in Nat
      OBVIOUS
    <3>2. p \in S \X Nat /\ p[2] < v[p[1]]
      BY <3>1
    <3> QED
      BY <3>2 DEF Below
  <2> QED
    BY <2>1, <2>2
<1> QED
  BY <1>4, <1>5

\* One more element.
LEMMA BelowAdds ==
  ASSUME NEW S, IsFiniteSet(S), NEW v \in [S -> Nat], NEW s \in SUBSET S, NEW x \in s
  PROVE  /\ Cardinality(Below(v, s)) = v[x] + Cardinality(Below(v, s \ {x}))
         /\ Cardinality(Below(v, s)) \in Nat /\ Cardinality(Below(v, s \ {x})) \in Nat
         /\ v[x] \in Nat
<1> DEFINE A == Below(v, s \ {x})
           B == {x} \X (0..(v[x] - 1))
<1>1. v[x] \in Nat
  OBVIOUS
<1>2. Below(v, s) = A \cup B /\ A \cap B = {}
  <2>1. ASSUME NEW p \in Below(v, s) PROVE p \in A \cup B
    <3>1. p \in s \X Nat /\ p[2] < v[p[1]]
      BY DEF Below
    <3>2. CASE p[1] = x
      BY <3>1, <3>2, <1>1
    <3>3. CASE p[1] # x
      BY <3>1, <3>3 DEF Below
    <3> QED
      BY <3>2, <3>3
  <2>2. ASSUME NEW p \in A PROVE p \in Below(v, s) /\ p \notin B
    BY DEF Below
  <2>3. ASSUME NEW p \in B PROVE p \in Below(v, s)
    BY <1>1 DEF Below
  <2> QED
    BY <2>1, <2>2, <2>3
<1>3. IsFiniteSet(Below(v, s)) /\ IsFiniteSet(A)
  <2>1. IsFiniteSet(Below(v, S))
    BY BelowFinite
  <2>2. Below(v, s) \in SUBSET Below(v, S) /\ A \in SUBSET Below(v, S)
    BY DEF Below
  <2> QED
    BY <2>1, <2>2, FS_Subset
<1>4. IsFiniteSet(B) /\ Cardinality(B) = v[x]
  <2>1. IsFiniteSet({x}) /\ Cardinality({x}) = 1
    BY FS_Singleton
  <2> DEFINE V == 0..(v[x] - 1)
  <2>2. IsFiniteSet(V) /\ Cardinality(V) = v[x]
    BY <1>1, FS_Interval
  <2> HIDE DEF V
  <2>3. IsFiniteSet({x} \X V) /\ Cardinality({x} \X V) = Cardinality({x}) * Cardinality(V)
    BY <2>1, <2>2, FS_Product, Zenon
  <2>4. Cardinality({x} \X V) = v[x]
    BY <1>1, <2>1, <2>2, <2>3
  <2> QED
    BY <2>3, <2>4 DEF V
<1> HIDE DEF A, B
<1>5. Cardinality(A \cup B) = Cardinality(A) + Cardinality(B) - Cardinality({})
  BY <1>2, <1>3, <1>4, FS_Union
<1>6. Cardinality({}) = 0 /\ Cardinality(A) \in Nat
  BY <1>3, FS_EmptySet, FS_CardinalityType
<1>7. Cardinality(Below(v, s)) = v[x] + Cardinality(A)
  BY <1>1, <1>2, <1>4, <1>5, <1>6
<1> QED
  BY <1>1, <1>6, <1>7 DEF A

\* What adds up the values is one function, and it counts pairs.
LEMMA AddsSize ==
  ASSUME NEW S, IsFiniteSet(S), NEW v \in [S -> Nat]
  PROVE  /\ \E g : Adds(g, v, S)
         /\ \A g : Adds(g, v, S) => g[S] = Cardinality(Below(v, S))
<1> DEFINE h == [s \in SUBSET S |-> Cardinality(Below(v, s))]
<1>0. \A s \in SUBSET S : s # {} => First(s) \in s
  BY DEF First
<1>1. Below(v, {}) = {} /\ Cardinality({}) = 0
  BY FS_EmptySet DEF Below
<1>2. \A s \in SUBSET S : h[s] = IF s = {} THEN 0 ELSE v[First(s)] + h[s \ {First(s)}]
  <2> TAKE s \in SUBSET S
  <2>1. CASE s = {}
    BY <2>1, <1>1
  <2>2. CASE s # {}
    <3>1. First(s) \in s /\ s \ {First(s)} \in SUBSET S
      BY <2>2, <1>0
    <3>2. Cardinality(Below(v, s)) = v[First(s)] + Cardinality(Below(v, s \ {First(s)}))
      BY <3>1, BelowAdds
    <3> QED
      BY <2>2, <3>1, <3>2
  <2> QED
    BY <2>1, <2>2
<1>3. Adds(h, v, S)
  <2> DEFINE r == [s \in SUBSET S |-> IF s = {} THEN 0 ELSE v[First(s)] + h[s \ {First(s)}]]
  <2>1. h = r
    <3>1. h \in [SUBSET S -> {h[s] : s \in SUBSET S}]
      OBVIOUS
    <3> QED
      BY <1>2
  <2> QED
    BY <2>1 DEF Adds
<1>4. SUFFICES ASSUME NEW g, Adds(g, v, S)
               PROVE  g[S] = Cardinality(Below(v, S))
  BY <1>3
<1>5. \A s \in SUBSET S : g[s] = IF s = {} THEN 0 ELSE v[First(s)] + g[s \ {First(s)}]
  BY <1>4 DEF Adds
<1>6. \A s \in SUBSET S : IsFiniteSet(s) /\ Cardinality(s) \in Nat
  BY FS_Subset, FS_CardinalityType
<1> HIDE DEF h
<1>7. \A s \in SUBSET S : g[s] = h[s]
  <2> DEFINE bad == {s \in SUBSET S : g[s] # h[s]}
             N == {Cardinality(s) : s \in bad}
  <2> SUFFICES ASSUME bad # {} PROVE FALSE
    OBVIOUS
  <2>1. N \in SUBSET Nat /\ N # {}
    BY <1>6
  <2>2. PICK m \in N : \A k \in N : m <= k
    BY <2>1, LeastNat
  <2>3. PICK s \in bad : m = Cardinality(s)
    BY <2>2
  <2>4. s # {}
    BY <1>2, <1>5, <2>3
  <2> DEFINE t == s \ {First(s)}
  <2>5. First(s) \in s /\ t \in SUBSET S
    BY <1>0, <2>3, <2>4
  <2>6. Cardinality(t) = m - 1 /\ m \in Nat
    BY <1>6, <2>3, <2>5, FS_RemoveElement
  <2>7. t \notin bad
    BY <2>2, <2>6
  <2>8. g[t] = h[t]
    BY <2>5, <2>7
  <2>9. g[s] = h[s]
    BY <1>2, <1>5, <2>3, <2>4, <2>8
  <2> QED
    BY <2>3, <2>9
<1>8. h[S] = Cardinality(Below(v, S))
  BY DEF h
<1> QED
  BY <1>7, <1>8

LEMMA SumIsSize ==
  ASSUME NEW S, IsFiniteSet(S), NEW v \in [S -> Nat]
  PROVE  SumOf(v, S) = Cardinality(Below(v, S)) /\ SumOf(v, S) \in Nat
<1> DEFINE g == CHOOSE gg : Adds(gg, v, S)
<1>1. Adds(g, v, S)
  BY AddsSize
<1>2. SumOf(v, S) = g[S]
  BY DEF SumOf
<1> HIDE DEF g
<1>3. Cardinality(Below(v, S)) \in Nat
  BY BelowFinite, FS_CardinalityType
<1> QED
  BY <1>1, <1>2, <1>3, AddsSize

\* One value grows.
LEMMA SumGrows ==
  ASSUME NEW S, IsFiniteSet(S), NEW v \in [S -> Nat], NEW w \in [S -> Nat],
         NEW x \in S, NEW k \in Nat, w[x] = v[x] + k, \A y \in S \ {x} : w[y] = v[y]
  PROVE  SumOf(w, S) = SumOf(v, S) + k
<1>1. /\ SumOf(v, S) = v[x] + Cardinality(Below(v, S \ {x})) /\ v[x] \in Nat
      /\ SumOf(w, S) = w[x] + Cardinality(Below(w, S \ {x})) /\ w[x] \in Nat
      /\ Cardinality(Below(v, S \ {x})) \in Nat
  <2>1. S \in SUBSET S
    OBVIOUS
  <2> QED
    BY <2>1, SumIsSize, BelowAdds
<1>2. Below(v, S \ {x}) = Below(w, S \ {x})
  BY DEF Below
<1> QED
  BY <1>1, <1>2

\* Sums of sums.
AddUp(u, v, w, S) == \A x \in S : u[x] = v[x] + w[x]
LEMMA SumAdds ==
  ASSUME NEW S, IsFiniteSet(S), NEW u \in [S -> Nat], NEW v \in [S -> Nat], NEW w \in [S -> Nat],
         AddUp(u, v, w, S)
  PROVE  SumOf(u, S) = SumOf(v, S) + SumOf(w, S)
<1> DEFINE h == [s \in SUBSET S |-> Cardinality(Below(v, s)) + Cardinality(Below(w, s))]
           r == [s \in SUBSET S |-> IF s = {} THEN 0 ELSE u[First(s)] + h[s \ {First(s)}]]
<1>1. \A s \in SUBSET S : h[s] = r[s]
  <2> TAKE s \in SUBSET S
  <2>1. CASE s = {}
    <3>1. Below(v, s) = {} /\ Below(w, s) = {} /\ IsFiniteSet({})
      BY <2>1, FS_EmptySet DEF Below
    <3>2. Cardinality(Below(v, s)) = 0 /\ Cardinality(Below(w, s)) = 0
      BY <3>1, FS_EmptySet, Zenon
    <3>3. h[s] = 0
      BY <3>2
    <3>4. r[s] = 0
      BY <2>1
    <3> QED
      BY <3>3, <3>4
  <2>2. CASE s # {}
    <3>1. First(s) \in s /\ s \ {First(s)} \in SUBSET S
      BY <2>2 DEF First
    <3>2. ASSUME NEW f \in [S -> Nat]
          PROVE  /\ Cardinality(Below(f, s))
                    = f[First(s)] + Cardinality(Below(f, s \ {First(s)}))
                 /\ Cardinality(Below(f, s)) \in Nat
                 /\ Cardinality(Below(f, s \ {First(s)})) \in Nat /\ f[First(s)] \in Nat
      BY <3>1, BelowAdds
    <3>3. v \in [S -> Nat] /\ w \in [S -> Nat]
      OBVIOUS
    <3>4. v[First(s)] \in Nat /\ w[First(s)] \in Nat /\ First(s) \in S
      BY <3>1, <3>2, <3>3
    <3>5. u[First(s)] = v[First(s)] + w[First(s)]
      BY <3>4 DEF AddUp
    <3>6. /\ Cardinality(Below(v, s)) = v[First(s)] + Cardinality(Below(v, s \ {First(s)}))
          /\ Cardinality(Below(v, s)) \in Nat /\ Cardinality(Below(v, s \ {First(s)})) \in Nat
          /\ Cardinality(Below(w, s)) = w[First(s)] + Cardinality(Below(w, s \ {First(s)}))
          /\ Cardinality(Below(w, s)) \in Nat /\ Cardinality(Below(w, s \ {First(s)})) \in Nat
      BY <3>2, <3>3
    <3> QED
      BY <2>2, <3>1, <3>4, <3>5, <3>6
  <2> QED
    BY <2>1, <2>2
<1>2. Adds(h, u, S)
  <2>1. h = r
    <3>1. h \in [SUBSET S -> {h[s] : s \in SUBSET S}]
      OBVIOUS
    <3>2. r \in [SUBSET S -> {r[s] : s \in SUBSET S}]
      OBVIOUS
    <3> HIDE DEF h, r
    <3> QED
      BY <1>1, <3>1, <3>2
  <2> QED
    BY <2>1 DEF Adds
<1>3. h[S] = Cardinality(Below(v, S)) + Cardinality(Below(w, S))
  OBVIOUS
<1> HIDE DEF h
<1>4. h[S] = Cardinality(Below(u, S))
  BY <1>2, AddsSize
<1> QED
  BY <1>3, <1>4, SumIsSize

\* A sum of ones.
LEMMA SumOfOnes ==
  ASSUME NEW S, IsFiniteSet(S), NEW U \in SUBSET S
  PROVE  /\ [x \in S |-> IF x \in U THEN 1 ELSE 0] \in [S -> Nat]
         /\ SumOf([x \in S |-> IF x \in U THEN 1 ELSE 0], S) = Cardinality(U)
<1> DEFINE v == [x \in S |-> IF x \in U THEN 1 ELSE 0]
           h == [s \in SUBSET S |-> Cardinality(s \cap U)]
           r == [s \in SUBSET S |-> IF s = {} THEN 0 ELSE v[First(s)] + h[s \ {First(s)}]]
<1>0. v \in [S -> Nat]
  OBVIOUS
<1>1. \A s \in SUBSET S : h[s] = r[s]
  <2> TAKE s \in SUBSET S
  <2>1. CASE s = {}
    <3>1. s \cap U = {} /\ Cardinality({}) = 0
      BY <2>1, FS_EmptySet
    <3> QED
      BY <2>1, <3>1
  <2>2. CASE s # {}
    <3> DEFINE x == First(s)
               t == (s \ {x}) \cap U
    <3>1. x \in s /\ s \ {x} \in SUBSET S
      BY <2>2 DEF First
    <3>2. IsFiniteSet(t) /\ Cardinality(t) \in Nat /\ x \notin t
      BY <3>1, FS_Subset, FS_CardinalityType
    <3> DEFINE p == s \cap U
               q == t \cup {x}
    <3>3. (x \in U => p = q) /\ (x \notin U => p = t)
      BY <3>1
    <3>4. /\ Cardinality(q) = Cardinality(t) + 1
          /\ x \in U => v[x] = 1
          /\ x \notin U => v[x] = 0
      BY <3>1, <3>2, FS_AddElement
    <3>5. Cardinality(p) = v[x] + Cardinality(t)
      <4> HIDE DEF p, q, t, v, x
      <4> QED
        BY <3>2, <3>3, <3>4
    <3> QED
      BY <2>2, <3>1, <3>5
  <2> QED
    BY <2>1, <2>2
<1>2. Adds(h, v, S)
  <2>1. h = r
    <3>1. h \in [SUBSET S -> {h[s] : s \in SUBSET S}]
      OBVIOUS
    <3>2. r \in [SUBSET S -> {r[s] : s \in SUBSET S}]
      OBVIOUS
    <3> HIDE DEF h, r
    <3> QED
      BY <1>1, <3>1, <3>2
  <2> QED
    BY <2>1 DEF Adds
<1>3. h[S] = Cardinality(U)
  <2>1. S \cap U = U
    OBVIOUS
  <2> QED
    BY <2>1
<1> HIDE DEF h, v
<1>4. h[S] = Cardinality(Below(v, S)) /\ SumOf(v, S) = Cardinality(Below(v, S))
  BY <1>0, <1>2, AddsSize, SumIsSize
<1> QED
  BY <1>0, <1>3, <1>4 DEF v

-----------------------------------------------------------------------------
\* eet | online.  What eet has written are the lines read, but for those a thread still
\* holds; what online has kept back are the examples behind the answers, and it
\* keeps back only while the model is incomplete.
EetLines(f) == IF f \in Unterminated THEN Len(Input[f]) - 1 ELSE Len(Input[f])
EetWritten == [f \in Files |-> IF reader[f] = "write" THEN at[f] - 1 ELSE at[f]]
EetReads ==
  /\ \A f \in Files : /\ at[f] <= EetLines(f)
                      /\ reader[f] = "write" => at[f] > 0
                      /\ reader[f] = "done" => at[f] = EetLines(f)
  /\ written = SumOf(EetWritten, Files)
OnlineKeeps ==
  /\ \A i \in DOMAIN online.kept : online.kept[i] = Len(output) + i - 1
  /\ online.id = Len(output) + Len(online.kept)
  /\ online.size >= K => online.kept = <<>> /\ ~online.waiting
  /\ online.size < K => output = <<>> /\ online.waiting
EetIInv == Eet!TypeOK /\ Eet!AnswersInOrder /\ OnlineKeeps /\ EetReads

LEMMA EetConstants ==
  /\ K \in Nat \ {0} /\ IsFiniteSet(Files) /\ Input \in [Files -> Seq({"C", "E"})]
  /\ Unterminated \in SUBSET Files
  /\ \A f \in Files : /\ Len(Input[f]) \in Nat /\ EetLines(f) \in Nat
                      /\ f \in Unterminated => Len(Input[f]) > 0 /\ EetLines(f) = Len(Input[f]) - 1
                      /\ f \notin Unterminated => EetLines(f) = Len(Input[f])
<1>1. /\ K \in Nat \ {0} /\ Eet!IsFiniteSet(Files)
      /\ Input \in [Files -> Seq({"C", "E"})]
      /\ Unterminated \subseteq {f \in Files : Input[f] # <<>>}
  BY ProgramsAssumption DEF Eet!MergedAssumption
<1>2. IsFiniteSet(Files)
  BY <1>1, Zenon DEF Eet!IsFiniteSet, IsFiniteSet
<1>3. ASSUME NEW f \in Files
      PROVE  /\ Len(Input[f]) \in Nat /\ EetLines(f) \in Nat
             /\ f \in Unterminated => Len(Input[f]) > 0 /\ EetLines(f) = Len(Input[f]) - 1
             /\ f \notin Unterminated => EetLines(f) = Len(Input[f])
  <2> DEFINE s == Input[f]
  <2>1. s \in Seq({"C", "E"}) /\ (f \in Unterminated => s # <<>>)
    BY <1>1, <1>3
  <2> HIDE DEF s
  <2>2. Len(s) \in Nat /\ (s # <<>> => Len(s) > 0)
    BY <2>1
  <2> DEFINE n == Len(s)
  <2>3. EetLines(f) = IF f \in Unterminated THEN n - 1 ELSE n
    BY DEF EetLines, s
  <2> HIDE DEF n
  <2>4. /\ n \in Nat /\ EetLines(f) \in Nat
        /\ f \in Unterminated => n > 0 /\ EetLines(f) = n - 1
        /\ f \notin Unterminated => EetLines(f) = n
    BY <2>1, <2>2, <2>3 DEF n
  <2> QED
    BY <2>4 DEF n, s
<1> QED
  BY <1>1, <1>2, <1>3

LEMMA EetInit == ProgramInit => EetIInv
<1> SUFFICES ASSUME ProgramInit PROVE EetIInv
  OBVIOUS
<1>1. Eet!Init
  BY DEF ProgramInit
<1>0. /\ output = <<>> /\ pipe = <<>> /\ written = 0 /\ Len(<<>>) = 0
      /\ online = [pc |-> "run", line |-> "none", size |-> 0, id |-> 0, kept |-> <<>>,
                   waiting |-> TRUE]
  BY <1>1 DEF Eet!Init
<1>2. Eet!TypeOK /\ Eet!AnswersInOrder
  <2>1. at \in [Files -> Nat] /\ \A f \in Files : at[f] <= Len(Input[f])
    BY <1>1, EetConstants DEF Eet!Init
  <2>2. reader \in [Files -> {"read", "write", "done"}]
    BY <1>1 DEF Eet!Init
  <2>3. online \in [pc : {"run", "done"}, line : {"C", "E", "none"}, size : Nat,
                    id : Nat, kept : Seq(Nat), waiting : BOOLEAN]
    BY <1>0
  <2> QED
    BY <1>0, <2>1, <2>2, <2>3 DEF Eet!TypeOK, Eet!AnswersInOrder
<1>3. OnlineKeeps
  <2>1. 0 < K /\ ~(0 >= K)
    BY EetConstants
  <2>2. online.kept = <<>> /\ online.id = 0 /\ online.size = 0 /\ online.waiting
    BY <1>0
  <2> QED
    BY <1>0, <2>1, <2>2 DEF OnlineKeeps
<1>4. written = SumOf(EetWritten, Files)
  <2> DEFINE U == {}
  <2>1. EetWritten = [f \in Files |-> IF f \in U THEN 1 ELSE 0]
    <3>1. \A f \in Files : at[f] = 0 /\ reader[f] = "read" /\ f \notin U
      BY <1>1 DEF Eet!Init
    <3> HIDE DEF U
    <3>2. \A f \in Files : (IF reader[f] = "write" THEN at[f] - 1 ELSE at[f])
                             = (IF f \in U THEN 1 ELSE 0)
      BY <3>1
    <3> QED
      BY <3>2 DEF EetWritten
  <2>2. U \in SUBSET Files
    OBVIOUS
  <2> HIDE DEF U
  <2>3. SumOf(EetWritten, Files) = Cardinality(U)
    BY <2>1, <2>2, EetConstants, SumOfOnes
  <2>4. Cardinality(U) = 0
    BY FS_EmptySet DEF U
  <2> QED
    BY <1>1, <2>3, <2>4 DEF Eet!Init
<1>5. \A f \in Files : at[f] = 0 /\ reader[f] = "read"
  BY <1>1 DEF Eet!Init
<1>6. EetReads
  BY <1>4, <1>5, EetConstants DEF EetReads
<1> QED
  BY <1>2, <1>3, <1>6 DEF EetIInv

LEMMA EetWrittenType ==
  ASSUME Eet!TypeOK, EetReads
  PROVE  EetWritten \in [Files -> Nat]
<1> SUFFICES ASSUME NEW f \in Files
             PROVE  (IF reader[f] = "write" THEN at[f] - 1 ELSE at[f]) \in Nat
  BY DEF EetWritten
<1>1. at[f] \in Nat /\ (reader[f] = "write" => at[f] > 0)
  BY DEF Eet!TypeOK, EetReads
<1> QED
  BY <1>1

\* A thread reads a line, or leaves its file.
LEMMA ReadLineKeeps ==
  ASSUME EetIInv, NEW f \in Files, Eet!ReadLine(f)
  PROVE  EetIInv'
<1> USE DEF EetIInv
<1>1. /\ pipe' = pipe /\ written' = written /\ online' = online /\ output' = output
      /\ reader[f] = "read"
  BY DEF Eet!ReadLine
<1>2. at \in [Files -> Nat] /\ reader \in [Files -> {"read", "write", "done"}]
      /\ at[f] <= Len(Input[f]) /\ at[f] <= EetLines(f)
  BY DEF Eet!TypeOK, EetReads
<1>3. /\ Len(Input[f]) \in Nat
      /\ f \in Unterminated => EetLines(f) = Len(Input[f]) - 1
      /\ f \notin Unterminated => EetLines(f) = Len(Input[f])
  BY EetConstants
<1>4. \/ /\ reader' = [reader EXCEPT ![f] = "done"] /\ at' = at /\ at[f] = EetLines(f)
      \/ /\ reader' = [reader EXCEPT ![f] = "write"] /\ at' = [at EXCEPT ![f] = @ + 1]
         /\ at[f] + 1 <= EetLines(f)
  <2> DEFINE a == at[f]
             n == Len(Input[f])
             k == EetLines(f)
  <2>1. IF (a + 1 = n /\ f \in Unterminated) \/ a + 1 > n
          THEN reader' = [reader EXCEPT ![f] = "done"] /\ at' = at
          ELSE reader' = [reader EXCEPT ![f] = "write"] /\ at' = [at EXCEPT ![f] = @ + 1]
    BY DEF Eet!ReadLine, Eet!AtEnd
  <2>2. a \in Nat /\ n \in Nat /\ a <= n /\ a <= k
        /\ (f \in Unterminated => k = n - 1) /\ (f \notin Unterminated => k = n)
    BY <1>2, <1>3
  <2> HIDE DEF a, n, k
  <2>3. (a + 1 = n /\ f \in Unterminated) \/ a + 1 > n <=> a = k
    BY <2>2
  <2>4. a # k => a + 1 <= k
    BY <2>2
  <2> QED
    BY <2>1, <2>3, <2>4 DEF a, k
<1>5. \A g \in Files : /\ at'[g] \in Nat /\ at'[g] <= EetLines(g)
                       /\ reader'[g] = "write" => at'[g] > 0
                       /\ reader'[g] = "done" => at'[g] = EetLines(g)
  <2>1. \A g \in Files : /\ at[g] \in Nat /\ at[g] <= EetLines(g)
                         /\ reader[g] = "write" => at[g] > 0
                         /\ reader[g] = "done" => at[g] = EetLines(g)
    BY <1>2 DEF EetReads
  <2>2. CASE reader' = [reader EXCEPT ![f] = "done"] /\ at' = at /\ at[f] = EetLines(f)
    BY <1>2, <2>1, <2>2
  <2>3. CASE /\ reader' = [reader EXCEPT ![f] = "write"] /\ at' = [at EXCEPT ![f] = @ + 1]
             /\ at[f] + 1 <= EetLines(f)
    BY <1>2, <2>1, <2>3
  <2> QED
    BY <1>4, <2>2, <2>3
<1>6. at' \in [Files -> Nat] /\ reader' \in [Files -> {"read", "write", "done"}]
  BY <1>2, <1>4
<1>7. \A g \in Files : at'[g] <= Len(Input[g])
  BY <1>5, EetConstants DEF EetLines
<1>8. Eet!TypeOK' /\ Eet!AnswersInOrder' /\ OnlineKeeps'
  BY <1>1, <1>6, <1>7 DEF Eet!TypeOK, Eet!AnswersInOrder, OnlineKeeps, Eet!Answer
<1>9. EetWritten' = EetWritten
  <2>1. \A g \in Files : (IF reader'[g] = "write" THEN at'[g] - 1 ELSE at'[g])
                          = (IF reader[g] = "write" THEN at[g] - 1 ELSE at[g])
    BY <1>1, <1>2, <1>4
  <2> QED
    BY <2>1 DEF EetWritten
<1>10. EetReads'
  BY <1>1, <1>5, <1>9 DEF EetReads
<1> QED
  BY <1>8, <1>10

\* It writes the line.
LEMMA WriteLineKeeps ==
  ASSUME EetIInv, NEW f \in Files, Eet!WriteLine(f)
  PROVE  EetIInv'
<1> USE DEF EetIInv
<1>1. /\ pipe' = Append(pipe, Input[f][at[f]]) /\ written' = written + 1
      /\ online' = online /\ output' = output
      /\ reader[f] = "write" /\ reader' = [reader EXCEPT ![f] = "read"] /\ at' = at
  BY DEF Eet!WriteLine
<1>2. at \in [Files -> Nat] /\ reader \in [Files -> {"read", "write", "done"}]
      /\ at[f] <= Len(Input[f]) /\ at[f] > 0 /\ at[f] \in Nat
  BY <1>1 DEF Eet!TypeOK, EetReads
<1>3. Input[f][at[f]] \in {"C", "E"}
  <2> DEFINE s == Input[f]
  <2>1. s \in Seq({"C", "E"})
    BY EetConstants
  <2> HIDE DEF s
  <2>2. s[at[f]] \in {"C", "E"}
    BY <1>2, <2>1, EetConstants DEF s
  <2> QED
    BY <2>2 DEF s
<1>4. pipe' \in Seq({"C", "E"})
  <2> DEFINE v == Input[f][at[f]]
  <2>1. pipe \in Seq({"C", "E"})
    BY DEF Eet!TypeOK
  <2> HIDE DEF v
  <2>2. Append(pipe, v) \in Seq({"C", "E"})
    BY <1>3, <2>1 DEF v
  <2> QED
    BY <1>1, <2>2 DEF v
<1>5. reader' \in [Files -> {"read", "write", "done"}]
  BY <1>1, <1>2
<1>6. Eet!TypeOK' /\ Eet!AnswersInOrder' /\ OnlineKeeps'
  <2>1. written' \in Nat
    BY <1>1 DEF Eet!TypeOK
  <2>2. Eet!TypeOK'
    BY <1>1, <1>4, <1>5, <2>1 DEF Eet!TypeOK
  <2>3. Eet!AnswersInOrder'
    BY <1>1 DEF Eet!AnswersInOrder
  <2> QED
    BY <1>1, <2>2, <2>3 DEF OnlineKeeps
<1>7. \A g \in Files : /\ at'[g] <= EetLines(g)
                       /\ reader'[g] = "write" => at'[g] > 0
                       /\ reader'[g] = "done" => at'[g] = EetLines(g)
  BY <1>1, <1>2 DEF EetReads
<1>8. EetWritten \in [Files -> Nat]
  BY EetWrittenType
<1>9. /\ EetWritten' \in [Files -> Nat] /\ EetWritten'[f] = EetWritten[f] + 1
      /\ \A g \in Files \ {f} : EetWritten'[g] = EetWritten[g]
  <2>1. \A g \in Files :
          /\ EetWritten'[g] = IF reader'[g] = "write" THEN at'[g] - 1 ELSE at'[g]
          /\ EetWritten[g] = IF reader[g] = "write" THEN at[g] - 1 ELSE at[g]
    BY DEF EetWritten
  <2>2. \A g \in Files \ {f} : EetWritten'[g] = EetWritten[g]
    BY <1>1, <1>2, <2>1
  <2>3. EetWritten'[f] = EetWritten[f] + 1
    BY <1>1, <1>2, <2>1
  <2>4. EetWritten' = [g \in Files |-> EetWritten'[g]]
    BY DEF EetWritten
  <2>5. \A g \in Files : EetWritten'[g] \in Nat
    BY <1>8, <2>2, <2>3
  <2> HIDE DEF EetWritten
  <2> QED
    BY <2>2, <2>3, <2>4, <2>5
<1>10. SumOf(EetWritten', Files) = SumOf(EetWritten, Files) + 1
  <2> DEFINE v == EetWritten
             w == EetWritten'
  <2>1. /\ v \in [Files -> Nat] /\ w \in [Files -> Nat] /\ IsFiniteSet(Files)
        /\ f \in Files /\ 1 \in Nat /\ w[f] = v[f] + 1
        /\ \A g \in Files \ {f} : w[g] = v[g]
    BY <1>8, <1>9, EetConstants
  <2> HIDE DEF v, w
  <2>2. SumOf(w, Files) = SumOf(v, Files) + 1
    BY <2>1, SumGrows
  <2> QED
    BY <2>2 DEF v, w
<1>11. written' = SumOf(EetWritten', Files)
  BY <1>1, <1>10 DEF EetReads
<1>12. EetReads'
  BY <1>7, <1>11 DEF EetReads
<1> QED
  BY <1>6, <1>12

LEMMA OnlineTypes ==
  ASSUME EetIInv
  PROVE  /\ online \in [pc : {"run", "done"}, line : {"C", "E", "none"}, size : Nat,
                        id : Nat, kept : Seq(Nat), waiting : BOOLEAN]
         /\ pipe \in Seq({"C", "E"}) /\ output \in Seq(Eet!Answer) /\ K \in Nat \ {0}
BY EetConstants DEF EetIInv, Eet!TypeOK

\* What a line changes of online.
OnlineState(T) == [pc : {"run", "done"}, line : {"C", "E", "none"}, size : Nat,
                   id : Nat, kept : T, waiting : BOOLEAN]

\* The answers to what was kept back.
LEMMA BlockOfAnswers ==
  ASSUME NEW kept \in Seq(Nat), NEW s \in Nat, NEW q,
         q = [i \in DOMAIN kept |-> [id |-> kept[i], size |-> s]]
  PROVE  /\ q \in Seq(Eet!Answer) /\ Len(q) = Len(kept) /\ <<>> \o q = q
         /\ DOMAIN q = 1..Len(kept)
         /\ \A i \in 1..Len(kept) : q[i].id = kept[i] /\ q[i].size = s
<1> DEFINE n == Len(kept)
           block == [i \in 1..n |-> [id |-> kept[i], size |-> s]]
<1>1. n \in Nat /\ DOMAIN kept = 1..n /\ \A i \in 1..n : kept[i] \in Nat
  OBVIOUS
<1> HIDE DEF n
<1>2. \A i \in 1..n : [id |-> kept[i], size |-> s] \in Eet!Answer
  BY <1>1 DEF Eet!Answer
<1>3. block \in [1..n -> Eet!Answer]
  BY <1>2
<1>4. \A i \in 1..n : block[i].id = kept[i] /\ block[i].size = s
  OBVIOUS
<1> HIDE DEF block
<1>5. block \in Seq(Eet!Answer) /\ Len(block) = n /\ DOMAIN block = 1..n
  BY <1>1, <1>3
<1>6. <<>> \o block = block
  BY <1>5, ConcatEmptySeq
<1> QED
  BY <1>1, <1>4, <1>5, <1>6 DEF n, block

\* What online does with a line.
LEMMA HandleLineKeeps ==
  ASSUME EetIInv, NEW o \in OnlineState(Seq(Nat)),
         o.size = online.size, o.id = online.id, o.kept = online.kept,
         o.waiting = online.waiting, Eet!HandleLine(o)
  PROVE  /\ online' \in OnlineState(Seq(Nat)) /\ output' \in Seq(Eet!Answer)
         /\ Eet!AnswersInOrder' /\ OnlineKeeps'
<1> DEFINE T == Seq(Nat)
           n == Len(output)
           kept == o.kept
           size == o.size
           id == o.id
           m == Len(kept)
<1>0. /\ o.kept = kept /\ o.size = size /\ o.id = id /\ o \in OnlineState(T)
      /\ online.kept = kept /\ online.size = size /\ online.id = id /\ T = Seq(Nat)
      /\ m = Len(kept) /\ n = Len(output)
  OBVIOUS
<1> HIDE DEF T, kept, size, id, m, n
<1>1. /\ output \in Seq(Eet!Answer) /\ n \in Nat /\ DOMAIN output = 1..n /\ K \in Nat \ {0}
      /\ kept \in Seq(Nat) /\ kept \in T /\ m \in Nat /\ DOMAIN kept = 1..m
      /\ size \in Nat /\ id \in Nat
  <2>1. output \in Seq(Eet!Answer) /\ K \in Nat \ {0}
    BY OnlineTypes
  <2>2. kept \in T /\ size \in Nat /\ id \in Nat /\ T = Seq(Nat)
    BY <1>0 DEF OnlineState
  <2> QED
    BY <2>1, <2>2 DEF n, m
<1>2. /\ \A i \in 1..n : output[i].id = i - 1 /\ output[i].size >= K
      /\ \A i \in 1..m : kept[i] = n + i - 1
      /\ id = n + m
      /\ size >= K => kept = <<>> /\ ~o.waiting
      /\ size < K => output = <<>> /\ o.waiting
  BY <1>0, <1>1 DEF EetIInv, Eet!AnswersInOrder, OnlineKeeps
<1>3. <<>> \in T /\ Len(<<>>) = 0 /\ DOMAIN <<>> = 1..0
  BY <1>0
\* The claim about the answers q and the state r that come next.
<1> DEFINE Good(q, r) ==
      /\ r \in OnlineState(T) /\ q \in Seq(Eet!Answer)
      /\ \A i \in DOMAIN q : q[i].id = i - 1 /\ q[i].size >= K
      /\ \A i \in DOMAIN r.kept : r.kept[i] = Len(q) + i - 1
      /\ r.id = Len(q) + Len(r.kept)
      /\ r.size >= K => r.kept = <<>> /\ ~r.waiting
      /\ r.size < K => q = <<>> /\ r.waiting
<1>4. CASE online' = o /\ output' = output
  <2>1. Good(output, o)
    BY <1>0, <1>1, <1>2
  <2> QED
    BY <1>0, <1>4, <2>1 DEF Eet!AnswersInOrder, OnlineKeeps
<1>5. CASE Eet!ClusterLine(o)
  <2> DEFINE s == size + 1
  <2>0. s \in Nat /\ s = size + 1
    BY <1>1
  <2> HIDE DEF s
  <2>1. CASE Eet!Completes(o, s)
    <3> DEFINE q == [i \in DOMAIN kept |-> [id |-> kept[i], size |-> s]]
               r == [o EXCEPT !.size = s, !.kept = <<>>, !.waiting = FALSE]
    <3>1. output' = output \o q /\ online' = r
      BY <1>0, <1>5, <2>0, <2>1 DEF Eet!ClusterLine
    <3>2. s >= K /\ o.waiting
      BY <2>1 DEF Eet!Completes
    <3>3. output = <<>> /\ n = 0
      BY <1>0, <1>1, <1>2, <1>3, <2>0, <3>2
    <3>4. /\ q \in Seq(Eet!Answer) /\ Len(q) = m /\ <<>> \o q = q /\ DOMAIN q = 1..m
          /\ \A i \in 1..m : q[i].id = kept[i] /\ q[i].size = s
      <4> q = [i \in DOMAIN kept |-> [id |-> kept[i], size |-> s]]
        OBVIOUS
      <4> HIDE DEF q
      <4>1. kept \in Seq(Nat) /\ s \in Nat
        BY <1>1, <2>0
      <4>2. /\ q \in Seq(Eet!Answer) /\ Len(q) = Len(kept) /\ <<>> \o q = q
            /\ DOMAIN q = 1..Len(kept)
            /\ \A i \in 1..Len(kept) : q[i].id = kept[i] /\ q[i].size = s
        BY <4>1, BlockOfAnswers
      <4> QED
        BY <1>0, <4>2
    <3> HIDE DEF q
    <3>5. /\ r \in OnlineState(T)
          /\ r.size = s /\ r.id = id /\ r.kept = <<>> /\ ~r.waiting
      BY <1>0, <1>3, <2>0 DEF OnlineState
    <3> HIDE DEF r
    <3>6. output' = q
      BY <3>1, <3>3, <3>4
    <3>7. \A i \in 1..m : q[i].id = i - 1 /\ q[i].size >= K
      BY <1>1, <1>2, <3>2, <3>3, <3>4
    <3>8. r.id = Len(q) + 0 /\ ~(r.size < K)
      BY <1>1, <1>2, <2>0, <3>2, <3>3, <3>4, <3>5
    <3>9. Good(q, r)
      BY <1>1, <1>3, <3>4, <3>5, <3>7, <3>8
    <3> QED
      BY <1>0, <3>1, <3>6, <3>9 DEF Eet!AnswersInOrder, OnlineKeeps
  <2>2. CASE ~Eet!Completes(o, s)
    <3> DEFINE r == [o EXCEPT !.size = s]
    <3>1. output' = output /\ online' = r
      BY <1>0, <1>5, <2>0, <2>2 DEF Eet!ClusterLine
    <3>2. /\ r \in OnlineState(T)
          /\ r.size = s /\ r.id = id /\ r.kept = kept /\ r.waiting = o.waiting
      BY <1>0, <2>0 DEF OnlineState
    <3> HIDE DEF r
    <3>3. ~(o.waiting /\ s >= K)
      BY <2>2 DEF Eet!Completes
    <3>4. /\ s >= K => kept = <<>> /\ ~o.waiting
          /\ s < K => output = <<>> /\ o.waiting
      BY <1>1, <1>2, <2>0, <3>3
    <3>5. Good(output, r)
      BY <1>0, <1>1, <1>2, <3>2, <3>4
    <3> QED
      BY <1>0, <3>1, <3>5 DEF Eet!AnswersInOrder, OnlineKeeps
  <2> QED
    BY <2>1, <2>2
<1>6. CASE Eet!ExampleLine(o)
  <2> DEFINE d == id + 1
  <2>0. d \in Nat /\ d = id + 1
    BY <1>1
  <2> HIDE DEF d
  <2>1. CASE Eet!KeepsBack(o)
    <3> DEFINE k == Append(kept, id)
               r == [o EXCEPT !.id = d, !.kept = k]
    <3>1. output' = output /\ online' = r
      BY <1>0, <1>6, <2>0, <2>1 DEF Eet!ExampleLine
    <3>2. size < K
      BY <1>0, <2>1 DEF Eet!KeepsBack
    <3>3. /\ k \in Seq(Nat) /\ k \in T /\ Len(k) = m + 1 /\ DOMAIN k = 1..(m + 1)
          /\ \A i \in 1..m : k[i] = kept[i]
          /\ k[m + 1] = id
      BY <1>0, <1>1
    <3> HIDE DEF k
    <3>4. /\ r \in OnlineState(T)
          /\ r.size = size /\ r.id = d /\ r.kept = k /\ r.waiting = o.waiting
      BY <1>0, <2>0, <3>3 DEF OnlineState
    <3> HIDE DEF r
    <3>5. \A i \in 1..(m + 1) : k[i] = n + i - 1
      <4> SUFFICES ASSUME NEW i \in 1..(m + 1) PROVE k[i] = n + i - 1
        OBVIOUS
      <4>1. CASE i = m + 1
        BY <1>1, <1>2, <3>3, <4>1
      <4>2. CASE i # m + 1
        <5>1. i \in 1..m
          BY <1>1, <4>2
        <5> QED
          BY <1>2, <3>3, <5>1
      <4> QED
        BY <4>1, <4>2
    <3>6. d = n + (m + 1) /\ ~(size >= K) /\ output = <<>> /\ o.waiting
      BY <1>1, <1>2, <2>0, <3>2
    <3>7. Good(output, r)
      BY <1>0, <1>1, <1>2, <3>3, <3>4, <3>5, <3>6
    <3> QED
      BY <1>0, <3>1, <3>7 DEF Eet!AnswersInOrder, OnlineKeeps
  <2>2. CASE ~Eet!KeepsBack(o)
    <3> DEFINE a == [id |-> id, size |-> size]
               q == Append(output, a)
               r == [o EXCEPT !.id = d]
    <3>1. output' = q /\ online' = r
      BY <1>0, <1>6, <2>0, <2>2 DEF Eet!ExampleLine
    <3>2. size >= K /\ kept = <<>> /\ ~o.waiting /\ m = 0
      BY <1>0, <1>1, <1>2, <1>3, <2>2 DEF Eet!KeepsBack
    <3>3. a \in Eet!Answer /\ a.id = id /\ a.size = size
      BY <1>1 DEF Eet!Answer
    <3> HIDE DEF a
    <3>4. /\ q \in Seq(Eet!Answer) /\ Len(q) = n + 1 /\ DOMAIN q = 1..(n + 1)
          /\ \A i \in 1..n : q[i] = output[i]
          /\ q[n + 1] = a
      BY <1>0, <1>1, <3>3
    <3> HIDE DEF q
    <3>5. /\ r \in OnlineState(T)
          /\ r.size = size /\ r.id = d /\ r.kept = kept /\ r.waiting = o.waiting
      BY <1>0, <2>0 DEF OnlineState
    <3> HIDE DEF r
    <3>6. \A i \in 1..(n + 1) : q[i].id = i - 1 /\ q[i].size >= K
      <4> SUFFICES ASSUME NEW i \in 1..(n + 1) PROVE q[i].id = i - 1 /\ q[i].size >= K
        OBVIOUS
      <4>1. CASE i = n + 1
        BY <1>1, <1>2, <3>2, <3>3, <3>4, <4>1
      <4>2. CASE i # n + 1
        <5>1. i \in 1..n
          BY <1>1, <4>2
        <5> QED
          BY <1>2, <3>4, <5>1
      <4> QED
        BY <4>1, <4>2
    <3>7. d = (n + 1) + 0 /\ ~(size < K)
      BY <1>1, <1>2, <2>0, <3>2
    <3>8. Good(q, r)
      <4>1. \A i \in DOMAIN r.kept : r.kept[i] = Len(q) + i - 1
        BY <1>1, <3>2, <3>5
      <4> QED
        BY <1>1, <1>3, <3>2, <3>4, <3>5, <3>6, <3>7, <4>1
    <3> QED
      BY <1>0, <3>1, <3>8 DEF Eet!AnswersInOrder, OnlineKeeps
  <2> QED
    BY <2>1, <2>2
<1> QED
  BY <1>4, <1>5, <1>6 DEF Eet!HandleLine

LEMMA OnlineEetKeeps ==
  ASSUME EetIInv, Eet!Online
  PROVE  EetIInv'
<1> DEFINE T == Seq(Nat)
<1>1. /\ online \in OnlineState(T) /\ pipe \in Seq({"C", "E"})
  BY OnlineTypes DEF OnlineState
<1>2. at' = at /\ reader' = reader /\ written' = written
  BY DEF Eet!Online, Eet!TakeLine, Eet!TakeEnd, Eet!eetVars
<1>3. /\ pipe' \in Seq({"C", "E"})
      /\ \E o \in OnlineState(T) :
           /\ o.size = online.size /\ o.id = online.id /\ o.kept = online.kept
           /\ o.waiting = online.waiting /\ Eet!HandleLine(o)
  <2>1. CASE Eet!TakeLine
    <3> DEFINE v == Head(pipe)
               o == [online EXCEPT !.line = v]
    <3>1. pipe # <<>> /\ pipe' = Tail(pipe) /\ Eet!HandleLine(o)
      BY <2>1 DEF Eet!TakeLine
    <3>2. v \in {"C", "E"} /\ Tail(pipe) \in Seq({"C", "E"})
      BY <1>1, <3>1
    <3> HIDE DEF v, T
    <3>3. /\ o \in OnlineState(T) /\ o.size = online.size /\ o.id = online.id
          /\ o.kept = online.kept /\ o.waiting = online.waiting
      BY <1>1, <3>2 DEF OnlineState
    <3> HIDE DEF o
    <3> QED
      BY <3>1, <3>2, <3>3
  <2>2. CASE Eet!TakeEnd
    <3> DEFINE o == [online EXCEPT !.pc = "done"]
    <3>1. pipe' = pipe /\ Eet!HandleLine(o)
      BY <2>2 DEF Eet!TakeEnd
    <3> HIDE DEF T
    <3>2. /\ o \in OnlineState(T) /\ o.size = online.size /\ o.id = online.id
          /\ o.kept = online.kept /\ o.waiting = online.waiting
      BY <1>1 DEF OnlineState
    <3> HIDE DEF o
    <3> QED
      BY <1>1, <3>1, <3>2
  <2> QED
    BY <2>1, <2>2 DEF Eet!Online
<1>4. /\ online' \in OnlineState(T) /\ output' \in Seq(Eet!Answer)
      /\ Eet!AnswersInOrder' /\ OnlineKeeps'
  BY <1>3, HandleLineKeeps
<1>5. Eet!TypeOK'
  <2>1. /\ at \in [Files -> Nat] /\ \A f \in Files : at[f] <= Len(Input[f])
        /\ reader \in [Files -> {"read", "write", "done"}] /\ written \in Nat
    BY DEF EetIInv, Eet!TypeOK
  <2> QED
    BY <1>2, <1>3, <1>4, <2>1, Zenon DEF Eet!TypeOK, OnlineState
<1>6. EetReads'
  <2>1. EetWritten' = EetWritten
    BY <1>2 DEF EetWritten
  <2> QED
    BY <1>2, <2>1 DEF EetIInv, EetReads
<1> QED
  BY <1>4, <1>5, <1>6 DEF EetIInv

LEMMA EetNext ==
  ASSUME EetIInv, [ProgramNext]_programVars
  PROVE  EetIInv'
<1>1. CASE InEet /\ Eet!Next
  <2>1. CASE Eet!Ended /\ UNCHANGED Eet!vars
    BY <2>1 DEF EetIInv, Eet!TypeOK, Eet!AnswersInOrder, OnlineKeeps, EetReads, EetWritten,
                Eet!vars, Eet!eetVars
  <2> QED
    BY <1>1, <2>1, ReadLineKeeps, WriteLineKeeps, OnlineEetKeeps DEF Eet!Next
<1>2. CASE UNCHANGED eetVars
  BY <1>2 DEF EetIInv, Eet!TypeOK, Eet!AnswersInOrder, OnlineKeeps, EetReads, EetWritten, eetVars
<1> QED
  BY <1>1, <1>2 DEF ProgramNext, InClassifier, InDetection, InOffline, programVars

\* The sum that the model of eet takes.
EetLens == [f \in Files |-> Len(Input[f])]
AddsLines(g) ==
  g = [s \in SUBSET Files |->
         IF s = {} THEN 0 ELSE Len(Input[First(s)]) + g[s \ {First(s)}]]

LEMMA LinesOfInputDef ==
  Eet!MapThenSumSet(LAMBDA f : Len(Input[f]), Files) = (CHOOSE g : AddsLines(g))[Files]
BY Zenon DEF Eet!MapThenSumSet, Eet!MapThenFoldSet, AddsLines, First

LEMMA AddsLinesIsAdds ==
  ASSUME NEW g
  PROVE  Adds(g, EetLens, Files) <=> AddsLines(g)
<1> DEFINE a(s) == IF s = {} THEN 0 ELSE EetLens[First(s)] + g[s \ {First(s)}]
           b(s) == IF s = {} THEN 0 ELSE Len(Input[First(s)]) + g[s \ {First(s)}]
<1>1. ASSUME NEW s \in SUBSET Files PROVE a(s) = b(s)
  <2>1. CASE s = {}
    BY <2>1
  <2>2. CASE s # {}
    <3>1. First(s) \in Files
      BY <2>2 DEF First
    <3>2. EetLens[First(s)] = Len(Input[First(s)])
      BY <3>1 DEF EetLens
    <3> QED
      BY <3>2
  <2> QED
    BY <2>1, <2>2
<1> HIDE DEF a, b
<1>2. [s \in SUBSET Files |-> a(s)] = [s \in SUBSET Files |-> b(s)]
  BY <1>1
<1> QED
  BY <1>2, Zenon DEF Adds, AddsLines, a, b

LEMMA LinesOfInput ==
  /\ Eet!MapThenSumSet(LAMBDA f : Len(Input[f]), Files) = SumOf(EetLens, Files)
  /\ EetLens \in [Files -> Nat]
<1>1. EetLens \in [Files -> Nat]
  BY EetConstants DEF EetLens
<1>2. IsFiniteSet(Files)
  BY EetConstants
<1>4. \A g : Adds(g, EetLens, Files) <=> AddsLines(g)
  BY AddsLinesIsAdds
<1> DEFINE h == CHOOSE g : AddsLines(g)
<1>5. \E g : Adds(g, EetLens, Files)
  BY <1>1, <1>2, AddsSize
<1>6. AddsLines(h)
  BY <1>4, <1>5
<1>7. Adds(h, EetLens, Files)
  BY <1>4, <1>6
<1>8. Eet!MapThenSumSet(LAMBDA f : Len(Input[f]), Files) = h[Files]
  BY LinesOfInputDef
<1> HIDE DEF h
<1>9. h[Files] = Cardinality(Below(EetLens, Files))
  BY <1>1, <1>2, <1>7, AddsSize
<1>10. SumOf(EetLens, Files) = Cardinality(Below(EetLens, Files))
  BY <1>1, <1>2, SumIsSize
<1> QED
  BY <1>1, <1>8, <1>9, <1>10, Zenon

LEMMA AllWritten ==
  ASSUME EetIInv, Eet!EetDone
  PROVE  SumOf(EetLens, Files) = written + Cardinality(Unterminated)
<1> DEFINE lens == EetLens
           ones == [f \in Files |-> IF f \in Unterminated THEN 1 ELSE 0]
           w == EetWritten
<1>1. w \in [Files -> Nat] /\ written = SumOf(w, Files) /\ IsFiniteSet(Files)
  BY EetWrittenType, EetConstants DEF EetIInv, EetReads
<1>2. lens \in [Files -> Nat] /\ ones \in [Files -> Nat]
  BY LinesOfInput
<1>3. AddUp(lens, w, ones, Files)
  <2> SUFFICES ASSUME NEW f \in Files PROVE lens[f] = w[f] + ones[f]
    BY DEF AddUp
  <2>1. reader[f] = "done" /\ at[f] = EetLines(f)
    BY DEF EetIInv, EetReads, Eet!EetDone
  <2>2. w[f] = EetLines(f)
    BY <2>1 DEF EetWritten
  <2>3. lens[f] = Len(Input[f]) /\ ones[f] = IF f \in Unterminated THEN 1 ELSE 0
    BY DEF EetLens
  <2> HIDE DEF w, lens, ones
  <2>4. CASE f \in Unterminated
    BY <2>2, <2>3, <2>4, EetConstants
  <2>5. CASE f \notin Unterminated
    BY <2>2, <2>3, <2>5, EetConstants
  <2> QED
    BY <2>4, <2>5
<1>4. SumOf(ones, Files) = Cardinality(Unterminated)
  BY EetConstants, SumOfOnes
<1> HIDE DEF w, lens, ones
<1>5. SumOf(lens, Files) = SumOf(w, Files) + SumOf(ones, Files)
  BY <1>1, <1>2, <1>3, SumAdds
<1> QED
  BY <1>1, <1>4, <1>5 DEF lens

\* eet | online answers in the order of the input, by a complete model, each example
\* once; online keeps back only what it has not answered, and eet loses exactly the
\* last lines without a newline (eet.c, online.c): for any number of files with any
\* lines, any kParam and any pipe.
THEOREM EetLosesOnlyUnterminated == ProgramSpec => []EetInv
<1>1. ProgramInit => EetIInv
  BY EetInit
<1>2. EetIInv /\ [ProgramNext]_programVars => EetIInv'
  BY EetNext
<1>3. EetIInv => EetInv
  <2> SUFFICES ASSUME EetIInv PROVE EetInv
    OBVIOUS
  <2>1. Eet!TypeOK /\ Eet!AnswersInOrder
    BY DEF EetIInv
  <2>2. Eet!NoneForgotten
    BY DEF EetIInv, OnlineKeeps, Eet!NoneForgotten
  <2>3. Eet!LastLineLost
    <3> SUFFICES ASSUME Eet!EetDone
                 PROVE  written = Eet!MapThenSumSet(LAMBDA f : Len(Input[f]), Files)
                                  - Eet!Cardinality(Unterminated)
      BY Zenon DEF Eet!LastLineLost
    <3> DEFINE sum == Eet!MapThenSumSet(LAMBDA f : Len(Input[f]), Files)
               c == Eet!Cardinality(Unterminated)
    <3>1. sum = written + Cardinality(Unterminated)
      BY LinesOfInput, AllWritten, Zenon
    <3>2. c = Cardinality(Unterminated)
      BY Zenon DEF Eet!Cardinality, Cardinality
    <3>3. c \in Nat
      <4>1. IsFiniteSet(Unterminated)
        BY EetConstants, FS_Subset
      <4> QED
        BY <3>2, <4>1, FS_CardinalityType
    <3>4. written \in Nat
      BY <2>1 DEF Eet!TypeOK
    <3> HIDE DEF sum, c
    <3>5. written = sum - c
      BY <3>1, <3>2, <3>3, <3>4
    <3> QED
      BY <3>5, Zenon DEF sum, c
  <2> QED
    BY <2>1, <2>2, <2>3 DEF EetInv, Eet!Inv
<1> QED
  BY <1>1, <1>2, <1>3, PTL DEF ProgramSpec

-----------------------------------------------------------------------------
\* The detection of partials.  Where compressing puts an example: as many places to the
\* front as examples before it are dropped.
PlaceOf(drop, e) == e - Cardinality({x \in drop : x < e})

LEMMA PlaceFacts ==
  ASSUME NEW n \in Nat, NEW drop \in SUBSET (0..(n - 1))
  PROVE  /\ PlaceOf(drop, 0) = 0
         /\ PlaceOf(drop, n) = n - Cardinality(drop) /\ Cardinality(drop) \in 0..n
         /\ \A a \in 0..n : PlaceOf(drop, a) \in 0..a
         /\ \A a \in 0..(n - 1) : PlaceOf(drop, a + 1) = IF a \in drop THEN PlaceOf(drop, a)
                                                                      ELSE PlaceOf(drop, a) + 1
         /\ \A a, b \in 0..n : a <= b => PlaceOf(drop, a) <= PlaceOf(drop, b)
         /\ \A a, b \in 0..n : a < b /\ a \notin drop => PlaceOf(drop, a) < PlaceOf(drop, b)
<1> DEFINE part(a, b) == {x \in drop : a <= x /\ x < b}
<1>0. \A x \in drop : x \in Int /\ 0 <= x /\ x < n
  <2>1. \A x \in 0..(n - 1) : x \in Int /\ 0 <= x /\ x < n
    OBVIOUS
  <2> QED
    BY <2>1
<1>1. \A a \in 0..n, b \in 0..n : a <= b => /\ IsFiniteSet(part(a, b))
                                   /\ Cardinality(part(a, b)) \in 0..(b - a)
  <2> SUFFICES ASSUME NEW a \in 0..n, NEW b \in 0..n, a <= b
               PROVE  IsFiniteSet(part(a, b)) /\ Cardinality(part(a, b)) \in 0..(b - a)
    OBVIOUS
  <2> DEFINE I == a..(b - 1)
             P == part(a, b)
  <2>1. IsFiniteSet(I) /\ Cardinality(I) = b - a
    <3>1. IsFiniteSet(a..(b-1)) /\ Cardinality(a..(b-1)) = IF a > b - 1 THEN 0 ELSE (b-1) - a + 1
      BY FS_Interval
    <3> QED
      BY <3>1
  <2>2. P \in SUBSET I
    <3>1. ASSUME NEW x \in drop, a <= x, x < b PROVE x \in a..(b - 1)
      BY <1>0, <3>1
    <3> QED
      BY <3>1
  <2> HIDE DEF I, P
  <2>3. IsFiniteSet(P) /\ Cardinality(P) <= Cardinality(I)
    BY <2>1, <2>2, FS_Subset
  <2>4. Cardinality(P) \in Nat
    BY <2>3, FS_CardinalityType
  <2>5. Cardinality(P) \in 0..(b - a)
    BY <2>1, <2>3, <2>4
  <2> QED
    BY <2>3, <2>5 DEF P
<1>2. \A a \in 0..n : PlaceOf(drop, a) = a - Cardinality(part(0, a))
  <2> SUFFICES ASSUME NEW a \in 0..n PROVE {x \in drop : x < a} = part(0, a)
    BY DEF PlaceOf
  <2>1. \A x \in drop : x < a <=> 0 <= x /\ x < a
    BY <1>0
  <2> QED
    BY <2>1
<1>3. \A a \in 0..n, b \in 0..n : a <= b =>
        Cardinality(part(0, b)) = Cardinality(part(0, a)) + Cardinality(part(a, b))
  <2> SUFFICES ASSUME NEW a \in 0..n, NEW b \in 0..n, a <= b
               PROVE  Cardinality(part(0, b)) = Cardinality(part(0, a)) + Cardinality(part(a, b))
    OBVIOUS
  <2> DEFINE A == part(0, a)
             B == part(a, b)
             U == part(0, b)
  <2>1. IsFiniteSet(A) /\ IsFiniteSet(B) /\ Cardinality(A) \in Nat /\ Cardinality(B) \in Nat
    <3>1. IsFiniteSet(A) /\ IsFiniteSet(B)
      BY <1>1
    <3> HIDE DEF A, B
    <3> QED
      BY <3>1, FS_CardinalityType
  <2>0. \A x \in drop : /\ (0 <= x /\ x < b <=> (0 <= x /\ x < a) \/ (a <= x /\ x < b))
                         /\ ~(0 <= x /\ x < a /\ a <= x /\ x < b)
    BY <1>0
  <2>2. U = A \cup B
    BY <2>0
  <2>3. \A x \in A : x \notin B
    BY <2>0
  <2> HIDE DEF A, B, U
  <2>4. Cardinality(A \cap B) = 0
    <3>1. A \cap B = {}
      BY <2>3
    <3> QED
      BY <3>1, FS_EmptySet, Zenon
  <2>6. Cardinality(A \cup B) = Cardinality(A) + Cardinality(B) - Cardinality(A \cap B)
    BY <2>1, FS_Union, Zenon
  <2>5. Cardinality(A \cup B) = Cardinality(A) + Cardinality(B)
    BY <2>1, <2>4, <2>6
  <2> QED
    BY <2>2, <2>5 DEF A, B, U
<1>4. part(0, n) = drop /\ part(0, 0) = {}
  <2>1. \A x \in drop : (0 <= x /\ x < n) /\ ~(0 <= x /\ x < 0)
    BY <1>0
  <2>2. part(0, n) = drop
    BY <2>1
  <2>3. part(0, 0) = {}
    BY <2>1
  <2> QED
    BY <2>2, <2>3
<1>5. \A a \in 0..(n - 1) : part(a, a + 1) = IF a \in drop THEN {a} ELSE {}
  <2> SUFFICES ASSUME NEW a \in 0..(n - 1)
               PROVE  part(a, a + 1) = IF a \in drop THEN {a} ELSE {}
    OBVIOUS
  <2>1. \A x \in drop : a <= x /\ x < a + 1 <=> x = a
    BY <1>0
  <2> QED
    BY <2>1
<1>6. \A a \in 0..(n - 1) : Cardinality(part(a, a + 1)) = IF a \in drop THEN 1 ELSE 0
  <2>1. \A a : Cardinality({a}) = 1 
    BY FS_Singleton
  <2>2. Cardinality({}) = 0
    BY FS_EmptySet
  <2> HIDE DEF part
  <2> QED
    BY <1>5, <2>1, <2>2
<1>7. Cardinality(part(0, 0)) = 0
  BY <1>4, FS_EmptySet
<1>8. \A a \in 0..n : Cardinality(part(0, a)) \in 0..a
  <2> SUFFICES ASSUME NEW a \in 0..n PROVE Cardinality(part(0, a)) \in 0..a
    OBVIOUS
  <2>1. Cardinality(part(0, a)) \in 0..(a - 0)
    <3>1. 0 \in 0..n /\ 0 <= a
      OBVIOUS
    <3> HIDE DEF part
    <3> QED
      BY <1>1, <3>1
  <2>2. a - 0 = a
    OBVIOUS
  <2> QED
    BY <2>1, <2>2
<1>9. Cardinality(part(0, n)) = Cardinality(drop)
  BY <1>4
<1> HIDE DEF part
<1>10. \A a \in 0..(n - 1) : PlaceOf(drop, a + 1) = IF a \in drop THEN PlaceOf(drop, a)
                                                                ELSE PlaceOf(drop, a) + 1
  <2> SUFFICES ASSUME NEW a \in 0..(n - 1)
               PROVE  PlaceOf(drop, a + 1) = IF a \in drop THEN PlaceOf(drop, a)
                                                         ELSE PlaceOf(drop, a) + 1
    OBVIOUS
  <2>1. a \in 0..n /\ a + 1 \in 0..n /\ a <= a + 1
    OBVIOUS
  <2>2. Cardinality(part(0, a + 1)) = Cardinality(part(0, a)) + Cardinality(part(a, a + 1))
    BY <1>3, <2>1
  <2>3. Cardinality(part(a, a + 1)) = IF a \in drop THEN 1 ELSE 0
    BY <1>6
  <2>4. Cardinality(part(0, a)) \in Nat
    BY <1>8, <2>1
  <2> QED
    BY <1>2, <2>1, <2>2, <2>3, <2>4
<1>11. \A a, b \in 0..n : a <= b => PlaceOf(drop, a) <= PlaceOf(drop, b)
  <2> SUFFICES ASSUME NEW a \in 0..n, NEW b \in 0..n, a <= b
               PROVE  PlaceOf(drop, a) <= PlaceOf(drop, b)
    OBVIOUS
  <2> DEFINE c == Cardinality(part(a, b))
             d == Cardinality(part(0, a))
             e == Cardinality(part(0, b))
  <2>1. e = d + c /\ c \in 0..(b - a) /\ d \in 0..a
    BY <1>1, <1>3, <1>8
  <2>2. PlaceOf(drop, a) = a - d /\ PlaceOf(drop, b) = b - e
    BY <1>2
  <2> HIDE DEF c, d, e
  <2> QED
    BY <2>1, <2>2
<1>12. \A a \in 0..n : PlaceOf(drop, a) \in 0..a
  BY <1>2, <1>8
<1>13. \A a, b \in 0..n : a < b /\ a \notin drop => PlaceOf(drop, a) < PlaceOf(drop, b)
  <2> SUFFICES ASSUME NEW a \in 0..n, NEW b \in 0..n, a < b, a \notin drop
               PROVE  PlaceOf(drop, a) < PlaceOf(drop, b)
    OBVIOUS
  <2>1. a \in 0..(n - 1) /\ a + 1 \in 0..n /\ a + 1 <= b
    OBVIOUS
  <2>2. PlaceOf(drop, a + 1) = PlaceOf(drop, a) + 1 /\ PlaceOf(drop, a + 1) <= PlaceOf(drop, b)
    BY <1>10, <1>11, <2>1
  <2> QED
    BY <1>12, <2>1, <2>2
<1>14. /\ PlaceOf(drop, 0) = 0 /\ PlaceOf(drop, n) = n - Cardinality(drop)
       /\ Cardinality(drop) \in 0..n
  BY <1>2, <1>7, <1>8, <1>9
<1> QED
  BY <1>10, <1>11, <1>12, <1>13, <1>14

LEMMA MaxOf ==
  ASSUME NEW n \in Nat, NEW S \in SUBSET (0..(n - 1)), S # {}
  PROVE  Detection!Max(S) \in S /\ \A y \in S : y <= Detection!Max(S)
<1> DEFINE D == {k \in 0..n : n - k \in S}
<1>0. \A x \in S : x \in 0..(n - 1)
  OBVIOUS
<1>1. PICK x \in S : TRUE
  OBVIOUS
<1>2. n - x \in D
  <2>1. n - x \in 0..n /\ n - (n - x) = x
    BY <1>0
  <2> QED
    BY <2>1
<1>3. D \in SUBSET Nat /\ D # {}
  <2>1. \A k \in D : k \in Nat
    OBVIOUS
  <2> HIDE DEF D
  <2> QED
    BY <1>2, <2>1
<1>4. PICK m \in D : \A k \in D : m <= k
  <2> HIDE DEF D
  <2> QED
    BY <1>3, LeastNat
<1>5. n - m \in S /\ \A y \in S : n - m >= y
  <2>1. ASSUME NEW y \in S PROVE n - m >= y
    <3>1. y \in 0..(n - 1) /\ n - y \in 0..n /\ n - (n - y) = y
      BY <1>0
    <3>2. n - y \in D
      BY <3>1
    <3>3. m <= n - y /\ m \in 0..n
      BY <1>4, <3>2
    <3> QED
      BY <3>1, <3>3
  <2> QED
    BY <1>4, <2>1
<1>6. \E u \in S : \A y \in S : u >= y
  BY <1>5
<1>7. Detection!Max(S) = CHOOSE u \in S : \A y \in S : u >= y
  BY Zenon DEF Detection!Max
<1> DEFINE mx == CHOOSE u \in S : \A y \in S : u >= y
<1>8. mx \in S /\ \A y \in S : mx >= y
  BY <1>6
<1> HIDE DEF mx
<1>9. \A y \in S : y <= mx
  BY <1>0, <1>8
<1> QED
  BY <1>7, <1>8, <1>9 DEF mx

\* Each place up to what is left is that of one example which stays, the last of those
\* copied there.
LEMMA Sources ==
  ASSUME NEW n \in Nat, NEW drop \in SUBSET (0..(n - 1)),
         NEW j \in 0..(n - Cardinality(drop) - 1)
  PROVE  \E s \in (0..(n - 1)) \ drop :
           /\ PlaceOf(drop, s) = j
           /\ \A e \in 0..(n - 1) : PlaceOf(drop, e) = j => e <= s
<1> DEFINE E == {e \in 0..n : PlaceOf(drop, e) > j}
           m == n - Cardinality(drop)
<1>1. m \in 0..n /\ j \in 0..(m - 1) /\ PlaceOf(drop, n) = m /\ PlaceOf(drop, 0) = 0
  BY PlaceFacts
<1>2. n \in E
  BY <1>1
<1>3. PICK e \in E : \A k \in E : e <= k
  <2>1. E \in SUBSET Nat /\ E # {}
    BY <1>2
  <2> HIDE DEF E
  <2> QED
    BY <2>1, LeastNat
<1>4. e \in 0..n /\ PlaceOf(drop, e) > j /\ \A k \in 0..n : PlaceOf(drop, k) > j => e <= k
  BY <1>3
<1>5. \A k \in 0..n : PlaceOf(drop, k) \in Nat
  <2>1. \A k \in 0..n : PlaceOf(drop, k) \in 0..k
    BY PlaceFacts
  <2> QED
    BY <2>1
<1> HIDE DEF E, m
<1>6. e # 0
  BY <1>1, <1>4
<1> DEFINE s == e - 1
<1>7. s \in 0..(n - 1) /\ s \in 0..n /\ s + 1 = e /\ ~(e <= s)
  BY <1>4, <1>6
<1> HIDE DEF s
<1>8. ~(PlaceOf(drop, s) > j)
  BY <1>4, <1>7
<1>9. PlaceOf(drop, e) = IF s \in drop THEN PlaceOf(drop, s) ELSE PlaceOf(drop, s) + 1
  BY <1>7, PlaceFacts
<1>10. s \notin drop /\ PlaceOf(drop, s) = j
  BY <1>1, <1>4, <1>5, <1>7, <1>8, <1>9
<1>11. ASSUME NEW x \in 0..(n - 1), PlaceOf(drop, x) = j
       PROVE  x <= s
  <2>1. \A a, b \in 0..n : a <= b => PlaceOf(drop, a) <= PlaceOf(drop, b)
    BY PlaceFacts
  <2>2. x \in 0..n
    OBVIOUS
  <2>3. ~(e <= x)
    BY <1>1, <1>4, <1>5, <1>11, <2>1, <2>2
  <2> QED
    BY <1>4, <1>7, <2>2, <2>3
<1> QED
  BY <1>7, <1>10, <1>11

\* A list compressed: the examples that stay, once each and in order, in front.
Compacts(list, new, n, drop, src) ==
  LET m == n - Cardinality(drop)
  IN /\ src \in [0..(m - 1) -> (0..(n - 1)) \ drop]
     /\ \A j \in 0..(m - 1) : new[j] = list[src[j]]
     /\ \A i, j \in 0..(m - 1) : i < j => src[i] < src[j]
     /\ \A e \in (0..(n - 1)) \ drop : \E j \in 0..(m - 1) : src[j] = e

LEMMA DetectionConstants ==
  LET T == Detection!NoveltyDetectionTrigger
  IN /\ T \in Nat /\ T > 2 /\ Detection!UnknownsMaxSize = 2 * T
     /\ Detection!Slots = 0..(2 * T)
     /\ DetectionK \in Nat \ {0} /\ MinEx \in Nat \ {0} /\ MaxId \in Nat
     /\ MaxGap \in Nat /\ MaxSize \in Nat
<1>1. Detection!DetectionAssumption
  BY ProgramsAssumption
<1> DEFINE T == Detection!NoveltyDetectionTrigger
<1>2. T = MinEx * DetectionK /\ DetectionK \in Nat \ {0} /\ MinEx \in Nat \ {0} /\ T > 2
      /\ MaxId \in Nat /\ MaxGap \in Nat /\ MaxSize \in Nat
  BY <1>1 DEF Detection!DetectionAssumption, Detection!NoveltyDetectionTrigger
<1>3. T \in Nat
  BY <1>2
<1>4. Detection!UnknownsMaxSize = 2 * T /\ Detection!Slots = 0..(2 * T)
  BY DEF Detection!UnknownsMaxSize, Detection!Slots
<1> HIDE DEF T
<1> QED
  BY <1>2, <1>3, <1>4 DEF T

Copied(n, drop, j) == {ex \in 0..(n - 1) : PlaceOf(drop, ex) = j}

LEMMA CompressedFacts ==
  ASSUME NEW R, NEW list \in [Detection!Slots -> R],
         NEW n \in 0..(Detection!UnknownsMaxSize + 1), NEW drop \in SUBSET (0..(n - 1))
  PROVE  /\ Detection!Compressed(list, n, drop) \in [Detection!Slots -> R]
         /\ drop = {} => Detection!Compressed(list, n, drop) = list
         /\ \E src : Compacts(list, Detection!Compressed(list, n, drop), n, drop, src)
<1> DEFINE new == Detection!Compressed(list, n, drop)
           m == n - Cardinality(drop)
           T == Detection!NoveltyDetectionTrigger
<1>1. T \in Nat /\ n \in 0..(2 * T + 1) /\ Detection!Slots = 0..(2 * T) /\ n \in Nat
  <2>1. T \in Nat /\ Detection!UnknownsMaxSize = 2 * T /\ Detection!Slots = 0..(2 * T)
    BY DetectionConstants
  <2> HIDE DEF T
  <2> QED
    BY <2>1
<1>2. m \in 0..n
  <2>1. Cardinality(drop) \in 0..n
    BY <1>1, PlaceFacts
  <2> QED
    BY <1>1, <2>1
<1> HIDE DEF m, T
<1>3. \A i \in 0..(n - 1) : i \in Detection!Slots
  BY <1>1
<1>4. new = [j \in Detection!Slots |->
               IF Copied(n, drop, j) = {} THEN list[j]
                                          ELSE list[Detection!Max(Copied(n, drop, j))]]
  BY Zenon DEF Detection!Compressed, Copied, PlaceOf, Detection!Cardinality, Cardinality
<1> HIDE DEF new
<1>5. \A j : Copied(n, drop, j) # {} =>
        /\ Detection!Max(Copied(n, drop, j)) \in Copied(n, drop, j)
        /\ \A y \in Copied(n, drop, j) : y <= Detection!Max(Copied(n, drop, j))
  <2> SUFFICES ASSUME NEW j, Copied(n, drop, j) # {}
               PROVE  /\ Detection!Max(Copied(n, drop, j)) \in Copied(n, drop, j)
                      /\ \A y \in Copied(n, drop, j) : y <= Detection!Max(Copied(n, drop, j))
    OBVIOUS
  <2> DEFINE C == Copied(n, drop, j)
  <2>1. C \in SUBSET (0..(n - 1)) /\ C # {}
    BY DEF Copied
  <2> HIDE DEF C
  <2>2. Detection!Max(C) \in C /\ \A y \in C : y <= Detection!Max(C)
    BY <1>1, <2>1, MaxOf
  <2> QED
    BY <2>2 DEF C
<1>6. \A j : Copied(n, drop, j) \in SUBSET (0..(n - 1))
  BY DEF Copied
<1>7. new \in [Detection!Slots -> R]
  <2> SUFFICES ASSUME NEW j \in Detection!Slots, Copied(n, drop, j) # {}
               PROVE  list[Detection!Max(Copied(n, drop, j))] \in R
    BY <1>4
  <2>1. Detection!Max(Copied(n, drop, j)) \in 0..(n - 1)
    BY <1>5, <1>6
  <2> QED
    BY <1>3, <2>1
<1>8. ASSUME drop = {}
      PROVE  new = list
  <2>1. \A a \in 0..(n - 1) : PlaceOf(drop, a) = a
    <3>1. \A a : {x \in drop : x < a} = drop
      BY <1>8
    <3>2. Cardinality(drop) = 0
      BY <1>8, FS_EmptySet, Zenon
    <3>3. \A a : PlaceOf(drop, a) = a - 0
      BY <3>1, <3>2 DEF PlaceOf
    <3> QED
      BY <3>3
  <2>2. ASSUME NEW j \in Detection!Slots
        PROVE  new[j] = list[j]
    <3>1. \A ex \in Copied(n, drop, j) : ex = j
      BY <2>1 DEF Copied
    <3>2. Copied(n, drop, j) # {} => Detection!Max(Copied(n, drop, j)) = j
      BY <1>5, <3>1
    <3> QED
      BY <1>4, <3>2
  <2> QED
    BY <1>7, <2>2
<1> DEFINE src == [j \in 0..(m - 1) |-> Detection!Max(Copied(n, drop, j))]
<1>9. \A j \in 0..(m - 1) : /\ Detection!Max(Copied(n, drop, j)) \in (0..(n - 1)) \ drop
                            /\ PlaceOf(drop, Detection!Max(Copied(n, drop, j))) = j
                            /\ new[j] = list[Detection!Max(Copied(n, drop, j))]
  <2> SUFFICES ASSUME NEW j \in 0..(m - 1)
               PROVE  /\ Detection!Max(Copied(n, drop, j)) \in (0..(n - 1)) \ drop
                      /\ PlaceOf(drop, Detection!Max(Copied(n, drop, j))) = j
                      /\ new[j] = list[Detection!Max(Copied(n, drop, j))]
    OBVIOUS
  <2> DEFINE C == Copied(n, drop, j)
             mx == Detection!Max(C)
  <2>1. PICK s \in (0..(n - 1)) \ drop :
           /\ PlaceOf(drop, s) = j
           /\ \A e \in 0..(n - 1) : PlaceOf(drop, e) = j => e <= s
    <3>1. j \in 0..(n - Cardinality(drop) - 1)
      BY DEF m
    <3> QED
      BY <1>1, <3>1, Sources
  <2>2. s \in C /\ C # {}
    BY <2>1 DEF Copied
  <2>3. mx \in C /\ \A y \in C : y <= mx
    BY <1>5, <2>2
  <2>4. mx \in 0..(n - 1) /\ PlaceOf(drop, mx) = j
    BY <2>3 DEF Copied
  <2>5. new[j] = list[mx]
    <3>1. j \in Detection!Slots
      BY <1>1, <1>2, <1>3
    <3> HIDE DEF mx
    <3>2. new[j] = IF C = {} THEN list[j] ELSE list[mx]
      BY <1>4, <3>1 DEF mx
    <3> QED
      BY <2>2, <3>2
  <2> HIDE DEF C, mx
  <2>6. mx = s
    <3>1. mx <= s /\ s <= mx
      BY <2>1, <2>2, <2>3, <2>4
    <3> QED
      BY <2>1, <2>4, <3>1
  <2> QED
    BY <2>1, <2>4, <2>5, <2>6 DEF mx, C
<1>10. /\ src \in [0..(m - 1) -> (0..(n - 1)) \ drop]
       /\ \A j \in 0..(m - 1) : PlaceOf(drop, src[j]) = j /\ new[j] = list[src[j]]
  BY <1>9
<1> HIDE DEF src
<1>11. \A i, j \in 0..(m - 1) : i < j => src[i] < src[j]
  <2> SUFFICES ASSUME NEW i \in 0..(m - 1), NEW j \in 0..(m - 1), i < j
               PROVE  src[i] < src[j]
    OBVIOUS
  <2>1. \A a, b \in 0..n : a <= b => PlaceOf(drop, a) <= PlaceOf(drop, b)
    BY <1>1, PlaceFacts
  <2> DEFINE a == src[i]
             b == src[j]
  <2>2. /\ a \in 0..(n - 1) /\ b \in 0..(n - 1) /\ a \in 0..n /\ b \in 0..n
        /\ PlaceOf(drop, a) = i /\ PlaceOf(drop, b) = j
    BY <1>1, <1>10
  <2> HIDE DEF a, b
  <2>3. ~(b <= a)
    BY <1>2, <2>1, <2>2
  <2>4. a < b
    BY <2>2, <2>3
  <2> QED
    BY <2>4 DEF a, b
<1>12. ASSUME NEW e \in (0..(n - 1)) \ drop
       PROVE  \E j \in 0..(m - 1) : src[j] = e
  <2> DEFINE j == PlaceOf(drop, e)
  <2>1. /\ \A a, b \in 0..n : a < b /\ a \notin drop => PlaceOf(drop, a) < PlaceOf(drop, b)
        /\ PlaceOf(drop, n) = m /\ PlaceOf(drop, e) \in 0..e
    <3>1. \A a, b \in 0..n : a < b /\ a \notin drop => PlaceOf(drop, a) < PlaceOf(drop, b)
      BY <1>1, PlaceFacts
    <3>2. PlaceOf(drop, n) = m
      BY <1>1, PlaceFacts DEF m
    <3>3. \A a \in 0..n : PlaceOf(drop, a) \in 0..a
      BY <1>1, PlaceFacts
    <3>4. e \in 0..n
      BY <1>1
    <3> QED
      BY <3>1, <3>2, <3>3, <3>4
  <2>2. e \in 0..n /\ n \in 0..n /\ e < n /\ e \notin drop
    BY <1>1
  <2>3. j < m /\ j \in 0..e
    BY <2>1, <2>2
  <2> DEFINE a == src[j]
  <2> HIDE DEF j
  <2>4. j \in 0..(m - 1)
    BY <1>2, <2>2, <2>3
  <2>5. a \in 0..(n - 1) /\ a \in 0..n /\ a \notin drop /\ PlaceOf(drop, a) = j
    BY <1>1, <1>10, <2>4
  <2> HIDE DEF a
  <2>6. ~(a < e) /\ ~(e < a)
    BY <2>1, <2>2, <2>3, <2>4, <2>5 DEF j
  <2>7. a = e
    BY <2>2, <2>5, <2>6
  <2> QED
    BY <2>4, <2>7 DEF a
<1>13. Compacts(list, new, n, drop, src)
  BY <1>10, <1>11, <1>12 DEF Compacts, m
<1> QED
  BY <1>7, <1>8, <1>13 DEF new

\* What holds of the first n entries of the list, compressed or not: ids in order, in
\* the end perhaps with the last one twice, none from before lo or after hi, values of
\* the entry itself or a later one; and until the first detection each entry has a cell
\* of its own.
Entries == [id : 0..MaxId, val : Detection!Slots]
InOrder(list, n) == \A i, j \in 0..(n - 1) : i < j => list[i].id < list[j].id
InTwos(list, n, x) ==
  /\ \A i, j \in 0..(n - 1) : i < j => \/ list[i].id < list[j].id
                                       \/ list[i].id = x /\ list[j].id = x
  /\ \A i, j, k \in 0..(n - 1) : i < j /\ j < k => list[i].id < list[k].id
Dated(list, n, lo, hi) == \A i \in 0..(n - 1) : lo <= list[i].id /\ list[i].id <= hi
Valued(list, n, v) == \A i \in 0..(n - 1) : list[i].id <= v[list[i].val]
OwnCells(list) == \A i \in Detection!Slots : list[i].val = i
OwnValues(list, n, v) == \A i \in 0..(n - 1) : v[list[i].val] = list[i].id

KeptBy(list, new, n, drop, lo, hi, v) ==
  LET m == n - Cardinality(drop)
  IN /\ m \in 0..n
     /\ InOrder(list, n) => InOrder(new, m)
     /\ InTwos(list, n, hi) => InTwos(new, m, hi)
     /\ Dated(list, n, lo, hi) => Dated(new, m, lo, hi)
     /\ Valued(list, n, v) => Valued(new, m, v)
     /\ \A x : (\A e \in (0..(n - 1)) \ drop : list[e].id >= x)
               => \A i \in 0..(m - 1) : new[i].id >= x
     /\ \A e \in (0..(n - 1)) \ drop : \E j \in 0..(m - 1) : new[j].id = list[e].id

LEMMA CompactsKeeps ==
  ASSUME NEW list, NEW new, NEW src, NEW n \in Nat, NEW drop \in SUBSET (0..(n - 1)),
         Compacts(list, new, n, drop, src), NEW lo, NEW hi, NEW v
  PROVE  KeptBy(list, new, n, drop, lo, hi, v)
<1> DEFINE m == n - Cardinality(drop)
<1>1. m \in 0..n
  <2>1. Cardinality(drop) \in 0..n
    BY PlaceFacts
  <2> QED
    BY <2>1
<1>2. /\ \A j \in 0..(m - 1) : src[j] \in 0..(n - 1) /\ src[j] \notin drop /\ new[j] = list[src[j]]
      /\ \A i, j \in 0..(m - 1) : i < j => src[i] < src[j]
      /\ \A e \in (0..(n - 1)) \ drop : \E j \in 0..(m - 1) : src[j] = e
  BY DEF Compacts
<1> HIDE DEF m
<1>3. InOrder(list, n) => InOrder(new, m)
  BY <1>2 DEF InOrder
<1>8. InTwos(list, n, hi) => InTwos(new, m, hi)
  <2> SUFFICES ASSUME InTwos(list, n, hi) PROVE InTwos(new, m, hi)
    OBVIOUS
  <2>1. \A i, j \in 0..(m - 1) : i < j => \/ new[i].id < new[j].id
                                          \/ new[i].id = hi /\ new[j].id = hi
    BY <1>2 DEF InTwos
  <2>2. \A i, j, k \in 0..(m - 1) : i < j /\ j < k => new[i].id < new[k].id
    BY <1>2 DEF InTwos
  <2> QED
    BY <2>1, <2>2 DEF InTwos
<1>4. Dated(list, n, lo, hi) => Dated(new, m, lo, hi)
  BY <1>2 DEF Dated
<1>5. Valued(list, n, v) => Valued(new, m, v)
  BY <1>2 DEF Valued
<1>6. \A x : (\A e \in (0..(n - 1)) \ drop : list[e].id >= x)
             => \A i \in 0..(m - 1) : new[i].id >= x
  BY <1>2
<1>7. \A e \in (0..(n - 1)) \ drop : \E j \in 0..(m - 1) : new[j].id = list[e].id
  BY <1>2
<1> QED
  BY <1>1, <1>3, <1>4, <1>5, <1>6, <1>7, <1>8 DEF m, KeptBy

\* Ids in order are as far apart as their places, at least.
LEMMA Spread ==
  ASSUME NEW n \in Nat, NEW list, \A i \in 0..(n - 1) : list[i].id \in Nat, InOrder(list, n),
         NEW i \in 0..(n - 1), NEW j \in 0..(n - 1), i <= j
  PROVE  list[j].id - list[i].id >= j - i
<1> SUFFICES ASSUME ~(list[j].id - list[i].id >= j - i) PROVE FALSE
  OBVIOUS
<1> DEFINE f(k) == list[k].id
           B == {k \in 0..(n - 1) : i <= k /\ f(k) - f(i) < k - i}
<1>1. \A k \in 0..(n - 1) : f(k) \in Nat
  OBVIOUS
<1>2. \A a, b \in 0..(n - 1) : a < b => f(a) < f(b)
  BY DEF InOrder
<1>3. ~(f(j) - f(i) >= j - i)
  OBVIOUS
<1> HIDE DEF f
<1>4. j \in B
  BY <1>1, <1>3
<1>5. PICK k \in B : \A b \in B : k <= b
  <2>1. B \in SUBSET Nat /\ B # {}
    BY <1>4
  <2> HIDE DEF B
  <2> QED
    BY <2>1, LeastNat
<1>6. k \in 0..(n - 1) /\ i <= k /\ f(k) - f(i) < k - i
  BY <1>5
<1>7. k # i
  BY <1>1, <1>6
<1>8. k - 1 \in 0..(n - 1) /\ i <= k - 1 /\ k - 1 < k /\ ~(k <= k - 1)
  BY <1>6, <1>7
<1>9. k - 1 \notin B
  BY <1>5, <1>8
<1>10. ~(f(k - 1) - f(i) < k - 1 - i)
  BY <1>8, <1>9
<1>11. f(k - 1) < f(k)
  BY <1>2, <1>6, <1>8
<1> QED
  BY <1>1, <1>6, <1>8, <1>10, <1>11

-----------------------------------------------------------------------------
\* The list of unknowns.  In order as they are, few entries are from after the last
\* detection: more would have set off another one.  So a full list, which is of
\* twice the length, has some from before.
DetT == Detection!NoveltyDetectionTrigger
Counted == lastNDCheck > 0 \/ ~late
FewYoung(list, n, check) ==
  /\ n <= 2 * DetT - 1
  /\ \A i \in 0..(n - 1) : i + DetT + 1 < n => list[i].id < check

DetectionIInv ==
  /\ Detection!TypeOK /\ Detection!UnknownsFit
  /\ Detection!Reading => InOrder(unknowns, unknownsSize)
  /\ InTwos(unknowns, unknownsSize, detectionId)
  /\ Dated(unknowns, unknownsSize, earlierCheck, detectionId)
  /\ Valued(unknowns, unknownsSize, val)
  /\ \A c \in Detection!Slots : val[c] <= detectionId
  /\ lastNDCheck = 0 => OwnCells(unknowns) /\ OwnValues(unknowns, unknownsSize, val)
  /\ Detection!Reading /\ Counted => FewYoung(unknowns, unknownsSize, lastNDCheck)
  /\ lastNDCheck > 0 => detectionSize >= DetectionK
  /\ ~late => unknownsSize = 0 \/ detectionSize >= DetectionK

LEMMA DetectionFacts ==
  ASSUME DetectionIInv
  PROVE  /\ DetT \in Nat /\ DetT > 2 /\ Detection!UnknownsMaxSize = 2 * DetT
         /\ Detection!Slots = 0..(2 * DetT)
         /\ detectionId \in 0..MaxId /\ lastNDCheck \in 0..detectionId
         /\ earlierCheck \in 0..lastNDCheck /\ late \in BOOLEAN
         /\ unknowns \in [Detection!Slots -> Entries] /\ unknownsSize \in 0..(2 * DetT + 1)
         /\ val \in [Detection!Slots -> 0..MaxId] /\ detectionSize \in 0..MaxSize
         /\ MaxId \in Nat /\ MaxSize \in Nat /\ DetectionK \in Nat
<1>1. /\ DetT \in Nat /\ DetT > 2 /\ Detection!UnknownsMaxSize = 2 * DetT
      /\ Detection!Slots = 0..(2 * DetT) /\ MaxId \in Nat /\ MaxSize \in Nat /\ DetectionK \in Nat
  BY DetectionConstants DEF DetT
<1>2. Detection!TypeOK
  BY DEF DetectionIInv
<1> QED
  BY <1>1, <1>2 DEF Detection!TypeOK, Entries

LEMMA DetectionInit == ProgramInit => DetectionIInv
<1> SUFFICES ASSUME ProgramInit PROVE DetectionIInv
  OBVIOUS
<1>1. Detection!Init
  BY DEF ProgramInit
<1>2. /\ DetT \in Nat /\ DetT > 2 /\ Detection!UnknownsMaxSize = 2 * DetT
      /\ Detection!Slots = 0..(2 * DetT) /\ MaxId \in Nat /\ MaxSize \in Nat /\ DetectionK \in Nat
  BY DetectionConstants DEF DetT
<1>3. /\ detectionPc = "read" /\ lineType = "none" /\ detectionSize = 0 /\ detectionId = 0 /\ lastNDCheck = 0
      /\ earlierCheck = 0 /\ late = FALSE /\ unknownsSize = 0 /\ printed = "nothing"
      /\ unknowns = [i \in Detection!Slots |-> [id |-> 0, val |-> i]]
      /\ val = [c \in Detection!Slots |-> 0]
  BY <1>1 DEF Detection!Init
<1>4. Detection!TypeOK
  <2>1. val \in [Detection!Slots -> 0..MaxId]
    BY <1>2, <1>3
  <2>2. \A i \in Detection!Slots : [id |-> 0, val |-> i] \in [id : 0..MaxId, val : Detection!Slots]
    BY <1>2
  <2>3. unknowns \in [Detection!Slots -> [id : 0..MaxId, val : Detection!Slots]]
    BY <1>3, <2>2
  <2>4. /\ detectionSize \in 0..MaxSize /\ detectionId \in 0..MaxId /\ lastNDCheck \in 0..detectionId
        /\ earlierCheck \in 0..lastNDCheck /\ unknownsSize \in 0..(Detection!UnknownsMaxSize + 1)
    BY <1>2, <1>3
  <2> QED
    BY <1>3, <2>1, <2>3, <2>4 DEF Detection!TypeOK
<1>5. 0..(unknownsSize - 1) = {}
  BY <1>3
<1>6. OwnCells(unknowns) /\ \A c \in Detection!Slots : val[c] <= detectionId
  BY <1>3 DEF OwnCells
<1>7. FewYoung(unknowns, unknownsSize, lastNDCheck)
  BY <1>2, <1>3, <1>5 DEF FewYoung
<1> QED
  BY <1>3, <1>4, <1>5, <1>6, <1>7
  DEF DetectionIInv, InOrder, InTwos, Dated, Valued, OwnValues, Detection!UnknownsFit

\* What is handled is later than the stored ones, or the last of them again.
LEMMA HandledFacts ==
  ASSUME DetectionIInv, Detection!NextId
  PROVE  /\ detectionId' \in 0..MaxId /\ detectionId' >= detectionId
         /\ detectionPc \in {"read", "again"} /\ Detection!Reading
         /\ detectionPc = "read" => detectionId' > detectionId
         /\ lineType' \in {"none", "C", "U"}
         /\ (late' <=> late \/ detectionSize < DetectionK) /\ late' \in BOOLEAN
<1>1. detectionId \in 0..MaxId /\ MaxId \in Nat /\ MaxGap \in Nat /\ late \in BOOLEAN
      /\ lineType \in {"none", "C", "U"}
  BY DetectionFacts, DetectionConstants DEF DetectionIInv, Detection!TypeOK
<1>4. (late' <=> late \/ detectionSize < DetectionK) /\ late' \in BOOLEAN
  <2>1. late' = (late \/ detectionSize < DetectionK)
    BY DEF Detection!NextId
  <2> QED
    BY <1>1, <2>1, Zenon
<1>2. CASE detectionPc = "read" /\ lineType' = "U"
           /\ detectionId' \in (detectionId + 1)..(detectionId + 1 + MaxGap)
           /\ detectionId' <= MaxId
  <2>1. detectionId' \in 0..MaxId /\ detectionId' > detectionId
    BY <1>1, <1>2
  <2>2. detectionId' >= detectionId
    BY <1>1, <2>1
  <2> QED
    BY <1>2, <1>4, <2>1, <2>2 DEF Detection!Reading
<1>3. CASE detectionPc = "again" /\ detectionId' = detectionId /\ UNCHANGED lineType
  <2>1. detectionId' \in 0..MaxId /\ detectionId' >= detectionId
    BY <1>1, <1>3
  <2> QED
    BY <1>1, <1>3, <1>4, <2>1 DEF Detection!Reading
<1> QED
  BY <1>2, <1>3 DEF Detection!NextId

\* The list with the unknown that is read behind the others, and its values written.
Appended == Detection!Named(detectionId')
LEMMA NamedFacts ==
  ASSUME DetectionIInv, unknownsSize \in Detection!Slots, Detection!NextId,
         val' = Detection!Written(detectionId')
  PROVE  LET x == detectionId'
             full == unknownsSize + 1
         IN /\ Appended \in [Detection!Slots -> Entries]
            /\ val' \in [Detection!Slots -> 0..MaxId]
            /\ \A c \in Detection!Slots : val'[c] <= x
            /\ x \in 0..MaxId /\ x >= detectionId
            /\ detectionPc = "read" => InOrder(Appended, full)
            /\ InTwos(Appended, full, x) /\ Dated(Appended, full, earlierCheck, x)
            /\ Valued(Appended, full, val')
            /\ lastNDCheck = 0 => OwnCells(Appended) /\ OwnValues(Appended, full, val')
            /\ \A i \in 0..(unknownsSize - 1) : Appended[i] = unknowns[i]
<1> DEFINE x == detectionId'
           n == unknownsSize
           cell == unknowns[n].val
           m == n + 1
<1>1. /\ x \in 0..MaxId /\ x >= detectionId /\ detectionId \in 0..MaxId /\ x \in Int
      /\ detectionPc = "read" => x > detectionId
  BY HandledFacts, DetectionFacts
<1>2. /\ n \in Detection!Slots /\ n \in Nat /\ \A i \in 0..n : i \in Detection!Slots
      /\ unknowns \in [Detection!Slots -> Entries] /\ val \in [Detection!Slots -> 0..MaxId]
  <2>1. DetT \in Nat /\ Detection!Slots = 0..(2 * DetT)
    BY DetectionFacts
  <2>2. n \in 0..(2 * DetT)
    BY <2>1
  <2>3. \A i \in 0..n : i \in 0..(2 * DetT)
    BY <2>1, <2>2
  <2> QED
    BY <2>1, <2>2, <2>3, DetectionFacts
<1>3. unknowns[n] \in Entries /\ cell \in Detection!Slots
  BY <1>2 DEF Entries
<1>4. Appended = [unknowns EXCEPT ![n] = [unknowns[n] EXCEPT !.id = x]]
  BY DEF Appended, Detection!Named
<1>5. val' = [val EXCEPT ![cell] = x]
  BY DEF Detection!Written
<1> HIDE DEF x
<1>6. [unknowns[n] EXCEPT !.id = x] = [id |-> x, val |-> cell]
  BY <1>3 DEF Entries
<1>7. /\ Appended[n] = [id |-> x, val |-> cell]
      /\ \A i \in Detection!Slots : i # n => Appended[i] = unknowns[i]
      /\ Appended \in [Detection!Slots -> Entries]
  <2> HIDE DEF cell, n
  <2>1. [id |-> x, val |-> cell] \in Entries
    BY <1>1, <1>3 DEF Entries
  <2> QED
    BY <1>2, <1>4, <1>6, <2>1
<1>8. /\ Appended[n].id = x /\ Appended[n].val = cell
      /\ \A i \in 0..(n - 1) : Appended[i] = unknowns[i]
  <2>1. \A i \in 0..(n - 1) : i \in Detection!Slots /\ i # n
    BY <1>2
  <2> QED
    BY <1>7, <2>1
<1>9. /\ val' \in [Detection!Slots -> 0..MaxId] /\ val'[cell] = x
      /\ \A c \in Detection!Slots : c # cell => val'[c] = val[c]
  <2> HIDE DEF cell
  <2> QED
    BY <1>1, <1>2, <1>3, <1>5
<1>10. \A c \in Detection!Slots : val'[c] <= x /\ val'[c] >= val[c]
  <2>1. \A c \in Detection!Slots : val[c] <= detectionId /\ val[c] \in 0..MaxId
    BY <1>2 DEF DetectionIInv
  <2> HIDE DEF cell
  <2> QED
    BY <1>1, <1>9, <2>1
<1>11. \A i \in 0..(n - 1) : /\ unknowns[i].id \in Nat /\ unknowns[i].val \in Detection!Slots
                             /\ unknowns[i].id <= detectionId /\ earlierCheck <= unknowns[i].id
                             /\ unknowns[i].id <= val[unknowns[i].val]
  <2>1. \A i \in 0..(n - 1) : unknowns[i] \in Entries
    BY <1>2
  <2>2. \A i \in 0..(n - 1) : unknowns[i].id \in Nat /\ unknowns[i].val \in Detection!Slots
    BY <2>1 DEF Entries
  <2> QED
    BY <2>2 DEF DetectionIInv, Dated, Valued
<1>12. \A i \in 0..(m - 1) : i \in 0..n /\ (i = n \/ i \in 0..(n - 1))
  BY <1>2
<1> HIDE DEF m
<1>17. \A i, j \in 0..(n - 1) : i < j => unknowns[i].id < unknowns[j].id
  BY HandledFacts DEF DetectionIInv, InOrder
<1>18. \A i, j \in 0..(m - 1) : i < j => i \in 0..(n - 1)
  BY <1>2, <1>12
<1>13. ASSUME detectionPc = "read"
       PROVE  InOrder(Appended, m)
  <2> SUFFICES ASSUME NEW i \in 0..(m - 1), NEW j \in 0..(m - 1), i < j
               PROVE  Appended[i].id < Appended[j].id
    BY DEF InOrder
  <2>1. i \in 0..(n - 1)
    BY <1>18
  <2>2. CASE j = n
    BY <1>1, <1>8, <1>11, <1>13, <2>1, <2>2
  <2>3. CASE j \in 0..(n - 1)
    BY <1>8, <1>17, <2>1, <2>3
  <2> QED
    BY <1>12, <2>2, <2>3
<1>19. InTwos(Appended, m, x)
  <2>1. ASSUME NEW i \in 0..(m - 1), NEW j \in 0..(m - 1), i < j
        PROVE  \/ Appended[i].id < Appended[j].id
               \/ Appended[i].id = x /\ Appended[j].id = x
    <3>1. i \in 0..(n - 1)
      BY <1>18, <2>1
    <3>2. CASE j = n
      BY <1>1, <1>8, <1>11, <3>1, <3>2
    <3>3. CASE j \in 0..(n - 1)
      BY <1>8, <1>17, <2>1, <3>1, <3>3
    <3> QED
      BY <1>12, <3>2, <3>3
  <2>2. ASSUME NEW i \in 0..(m - 1), NEW j \in 0..(m - 1), NEW k \in 0..(m - 1), i < j, j < k
        PROVE  Appended[i].id < Appended[k].id
    <3>1. i \in 0..(n - 1) /\ j \in 0..(n - 1)
      BY <1>18, <2>2
    <3>2. Appended[i].id < Appended[j].id
      BY <1>8, <1>17, <2>2, <3>1
    <3>3. CASE k = n
      BY <1>1, <1>8, <1>11, <3>1, <3>2, <3>3
    <3>4. CASE k \in 0..(n - 1)
      <4>1. i < k
        BY <1>2, <2>2, <3>1, <3>4
      <4> QED
        BY <1>8, <1>17, <3>1, <3>4, <4>1
    <3> QED
      BY <1>12, <3>3, <3>4
  <2> QED
    BY <2>1, <2>2 DEF InTwos
<1>14. Dated(Appended, m, earlierCheck, x)
  <2>1. earlierCheck \in Nat /\ earlierCheck <= x
    BY <1>1, DetectionFacts
  <2> SUFFICES ASSUME NEW i \in 0..(m - 1)
               PROVE  earlierCheck <= Appended[i].id /\ Appended[i].id <= x
    BY DEF Dated
  <2>2. CASE i = n
    BY <1>1, <1>8, <2>1, <2>2
  <2>3. CASE i \in 0..(n - 1)
    BY <1>1, <1>8, <1>11, <2>3
  <2> QED
    BY <1>12, <2>2, <2>3
<1>15. Valued(Appended, m, val')
  <2> SUFFICES ASSUME NEW i \in 0..(m - 1)
               PROVE  Appended[i].id <= val'[Appended[i].val]
    BY DEF Valued
  <2>2. CASE i = n
    BY <1>1, <1>8, <1>9, <2>2
  <2>3. CASE i \in 0..(n - 1)
    <3> DEFINE c == unknowns[i].val
    <3>1. c \in Detection!Slots /\ unknowns[i].id <= val[c] /\ unknowns[i].id \in Nat
      BY <1>11, <2>3
    <3>2. val[c] \in 0..MaxId /\ val'[c] \in 0..MaxId /\ val'[c] >= val[c]
      BY <1>2, <1>9, <1>10, <3>1
    <3>3. unknowns[i].id <= val'[c]
      BY <3>1, <3>2
    <3> QED
      BY <1>8, <2>3, <3>3
  <2> QED
    BY <1>12, <2>2, <2>3
<1>16. ASSUME lastNDCheck = 0
       PROVE  OwnCells(Appended) /\ OwnValues(Appended, m, val')
  <2>1. /\ \A i \in Detection!Slots : unknowns[i].val = i
        /\ \A i \in 0..(n - 1) : val[unknowns[i].val] = unknowns[i].id
    BY <1>16 DEF DetectionIInv, OwnCells, OwnValues
  <2>2. cell = n
    BY <1>2, <2>1
  <2>3. OwnCells(Appended)
    <3> SUFFICES ASSUME NEW i \in Detection!Slots PROVE Appended[i].val = i
      BY DEF OwnCells
    <3> QED
      BY <1>7, <1>8, <2>1, <2>2
  <2>4. OwnValues(Appended, m, val')
    <3> SUFFICES ASSUME NEW i \in 0..(m - 1)
                 PROVE  val'[Appended[i].val] = Appended[i].id
      BY DEF OwnValues
    <3>1. CASE i = n
      BY <1>8, <1>9, <3>1
    <3>2. CASE i \in 0..(n - 1)
      <4>1. i \in Detection!Slots /\ i # cell
        BY <1>2, <2>2, <3>2
      <4>2. unknowns[i].val = i /\ val[i] = unknowns[i].id /\ val'[i] = val[i]
        BY <1>9, <2>1, <3>2, <4>1
      <4> QED
        BY <1>8, <3>2, <4>2
    <3> QED
      BY <1>12, <3>1, <3>2
  <2> QED
    BY <2>3, <2>4
<1> QED
  BY <1>1, <1>7, <1>8, <1>9, <1>10, <1>13, <1>14, <1>15, <1>16, <1>19 DEF x, n, m

\* The list after a full one is collected.
Full == unknownsSize + 1
Gone == Detection!Collected(Appended, Full)
Left == Detection!Compressed(Appended, Full, Gone)
LeftSize == Full - Cardinality(Gone)

Storing ==
  /\ DetectionIInv
  /\ unknownsSize \in Detection!Slots /\ Detection!NextId
  /\ val' = Detection!Written(detectionId')

LEMMA LeftFacts ==
  ASSUME Storing
  PROVE  /\ Left \in [Detection!Slots -> Entries]
         /\ LeftSize \in 0..Full /\ Full \in 1..(2 * DetT + 1)
         /\ detectionPc = "read" => InOrder(Left, LeftSize)
         /\ InTwos(Left, LeftSize, detectionId') /\ Valued(Left, LeftSize, val')
         /\ Dated(Left, LeftSize, earlierCheck, detectionId')
         /\ lastNDCheck = 0 => OwnCells(Left) /\ OwnValues(Left, LeftSize, val')
         /\ Counted => LeftSize <= 2 * DetT - 1
         /\ \A i \in 0..(unknownsSize - 1) : unknowns[i].id >= lastNDCheck =>
              \E j \in 0..(LeftSize - 1) : Left[j].id = unknowns[i].id
<1> DEFINE x == detectionId'
<1>1. /\ Appended \in [Detection!Slots -> Entries]
      /\ detectionPc = "read" => InOrder(Appended, Full)
      /\ InTwos(Appended, Full, x) /\ Dated(Appended, Full, earlierCheck, x)
      /\ Valued(Appended, Full, val')
      /\ lastNDCheck = 0 => OwnCells(Appended) /\ OwnValues(Appended, Full, val')
      /\ \A i \in 0..(unknownsSize - 1) : Appended[i] = unknowns[i]
  BY NamedFacts DEF Storing, Full
<1>2. /\ DetT \in Nat /\ DetT > 2 /\ Detection!UnknownsMaxSize = 2 * DetT
      /\ Detection!Slots = 0..(2 * DetT) /\ lastNDCheck \in Nat
      /\ unknownsSize \in 0..(2 * DetT)
  BY DetectionFacts DEF Storing
<1>3. /\ Full \in 1..(2 * DetT + 1) /\ Full \in 0..(Detection!UnknownsMaxSize + 1) /\ Full \in Nat
      /\ \A i \in 0..(unknownsSize - 1) : i \in 0..(Full - 1) /\ i \in Detection!Slots
      /\ \A i \in 0..(Full - 1) : i \in Detection!Slots
  BY <1>2 DEF Full
<1>4. Gone \in SUBSET (0..(Full - 1))
  BY DEF Gone, Detection!Collected, Detection!Old
<1>5. \A i \in Gone : Appended[i].id < lastNDCheck
  BY DEF Gone, Detection!Collected, Detection!Old
<1>6. lastNDCheck = 0 => Gone = {}
  <2> SUFFICES ASSUME lastNDCheck = 0, NEW i \in Gone PROVE FALSE
    OBVIOUS
  <2>1. Appended[i] \in Entries
    BY <1>1, <1>3, <1>4
  <2>2. Appended[i].id \in 0..MaxId
    BY <2>1 DEF Entries
  <2> QED
    BY <1>5, <2>2
<1>7. /\ Left \in [Detection!Slots -> Entries]
      /\ Gone = {} => Left = Appended
      /\ \E src : Compacts(Appended, Left, Full, Gone, src)
  BY <1>1, <1>3, <1>4, CompressedFacts DEF Left
<1>8. PICK src : Compacts(Appended, Left, Full, Gone, src)
  BY <1>7
<1> HIDE DEF x
<1>9. /\ LeftSize \in 0..Full
      /\ detectionPc = "read" => InOrder(Left, LeftSize)
      /\ InTwos(Left, LeftSize, x) /\ Valued(Left, LeftSize, val')
      /\ Dated(Left, LeftSize, earlierCheck, x)
      /\ \A e \in (0..(Full - 1)) \ Gone : \E j \in 0..(LeftSize - 1) : Left[j].id = Appended[e].id
  <2>1. KeptBy(Appended, Left, Full, Gone, earlierCheck, x, val')
    BY <1>3, <1>4, <1>8, CompactsKeeps
  <2> QED
    BY <1>1, <2>1 DEF KeptBy, LeftSize
<1>10. ASSUME lastNDCheck = 0
       PROVE  OwnCells(Left) /\ OwnValues(Left, LeftSize, val')
  <2>1. Gone = {} /\ Left = Appended
    BY <1>6, <1>7, <1>10
  <2>2. Cardinality(Gone) = 0
    BY <2>1, FS_EmptySet, Zenon
  <2>3. LeftSize = Full
    BY <1>3, <2>2 DEF LeftSize
  <2> QED
    BY <1>1, <1>10, <2>1, <2>3
<1>11. ASSUME Counted
       PROVE  LeftSize <= 2 * DetT - 1
  <2>1. /\ unknownsSize <= 2 * DetT - 1
        /\ \A i \in 0..(unknownsSize - 1) : i + DetT + 1 < unknownsSize => unknowns[i].id < lastNDCheck
    BY <1>11, HandledFacts DEF Storing, DetectionIInv, FewYoung
  <2>2. CASE Full < 2 * DetT
    BY <1>2, <1>3, <1>9, <2>2
  <2>3. CASE ~(Full < 2 * DetT)
    <3>1. unknownsSize = 2 * DetT - 1 /\ Full = 2 * DetT
      BY <1>2, <2>1, <2>3 DEF Full
    <3>2. 0 \in 0..(unknownsSize - 1) /\ 0 + DetT + 1 < unknownsSize
      BY <1>2, <3>1
    <3>3. Appended[0].id < lastNDCheck /\ 0 \in 0..(Full - 1)
      BY <1>1, <1>3, <2>1, <3>2
    <3>4. Gone = {ex \in 0..(Full - 1) : Appended[ex].id < lastNDCheck}
      BY <1>2, <2>3 DEF Gone, Detection!Collected, Detection!Old
    <3>5. 0 \in Gone
      BY <3>3, <3>4
    <3>6. IsFiniteSet(0..(Full - 1))
      BY <1>3, FS_Interval
    <3>7. IsFiniteSet(Gone)
      BY <1>4, <3>6, FS_Subset
    <3>8. Cardinality(Gone) \in Nat /\ Cardinality(Gone) # 0
      BY <3>5, <3>7, FS_CardinalityType, FS_EmptySet
    <3>9. LeftSize = 2 * DetT - Cardinality(Gone)
      BY <3>1 DEF LeftSize
    <3> QED
      BY <1>2, <3>8, <3>9
  <2> QED
    BY <2>2, <2>3
<1>12. ASSUME NEW i \in 0..(unknownsSize - 1), unknowns[i].id >= lastNDCheck
       PROVE  \E j \in 0..(LeftSize - 1) : Left[j].id = unknowns[i].id
  <2>1. i \in 0..(Full - 1) /\ Appended[i] = unknowns[i] /\ unknowns[i] \in Entries
    BY <1>1, <1>3, <1>12
  <2>2. unknowns[i].id \in Nat
    <3>1. MaxId \in Nat
      BY DetectionConstants
    <3> QED
      BY <2>1, <3>1 DEF Entries
  <2>3. i \notin Gone
    BY <1>2, <1>5, <1>12, <2>1, <2>2
  <2>4. \E j \in 0..(LeftSize - 1) : Left[j].id = Appended[i].id
    BY <1>9, <2>1, <2>3
  <2> QED
    BY <2>1, <2>4
<1> QED
  BY <1>3, <1>7, <1>9, <1>10, <1>11, <1>12 DEF x

\* A list that was not due, or that is kept while the model is incomplete.
LEMMA KeepKeeps ==
  ASSUME Storing, Detection!Keep(Left, LeftSize),
         \/ detectionSize < DetectionK /\ Detection!GoOn
         \/ /\ detectionSize >= DetectionK /\ LeftSize >= Detection!UnknownsMaxSize
            /\ detectionPc' = "assert"
         \/ /\ detectionSize >= DetectionK /\ LeftSize < Detection!UnknownsMaxSize
            /\ ~Detection!Due(LeftSize) /\ Detection!GoOn
  PROVE  DetectionIInv'
<1> DEFINE x == detectionId'
           n == LeftSize
<1>1. /\ unknowns' = Left /\ unknownsSize' = n /\ printed' = "nothing"
      /\ detectionSize' = detectionSize /\ lastNDCheck' = lastNDCheck
      /\ earlierCheck' = earlierCheck
  BY DEF Detection!Keep, Detection!checkVars
<1>2. /\ DetT \in Nat /\ DetT > 2 /\ Detection!UnknownsMaxSize = 2 * DetT
      /\ Detection!Slots = 0..(2 * DetT) /\ lastNDCheck \in 0..detectionId
      /\ earlierCheck \in 0..lastNDCheck /\ late \in BOOLEAN /\ detectionId \in 0..MaxId
      /\ detectionSize \in 0..MaxSize
      /\ MaxId \in Nat /\ MaxSize \in Nat /\ DetectionK \in Nat
  BY DetectionFacts DEF Storing
<1>3. /\ x \in 0..MaxId /\ x >= detectionId
      /\ val' \in [Detection!Slots -> 0..MaxId] /\ \A c \in Detection!Slots : val'[c] <= x
  BY NamedFacts DEF Storing
<1>4. /\ detectionPc \in {"read", "again"} /\ (late' <=> late \/ detectionSize < DetectionK)
      /\ late' \in BOOLEAN /\ lineType' \in {"none", "C", "U"} /\ Detection!Reading
      /\ detectionPc' \in {"read", "end", "assert"}
      /\ detectionPc' = "read" => detectionPc = "read"
      /\ detectionPc' = "assert" => detectionSize >= DetectionK /\ n >= Detection!UnknownsMaxSize
      /\ detectionPc' = "read" => detectionSize < DetectionK \/ ~Detection!Due(n)
  BY HandledFacts DEF Storing, Detection!GoOn
<1>5. /\ Left \in [Detection!Slots -> Entries]
      /\ n \in 0..Full /\ Full \in 1..(2 * DetT + 1)
      /\ detectionPc = "read" => InOrder(Left, n)
      /\ InTwos(Left, n, x) /\ Valued(Left, n, val')
      /\ Dated(Left, n, earlierCheck, x)
      /\ lastNDCheck = 0 => OwnCells(Left) /\ OwnValues(Left, n, val')
      /\ Counted => n <= 2 * DetT - 1
  BY LeftFacts
<1> HIDE DEF x, n
<1>6. n \in 0..(2 * DetT + 1)
  BY <1>2, <1>5
<1>7. Detection!TypeOK'
  <2>1. lastNDCheck' \in 0..x /\ earlierCheck' \in 0..lastNDCheck'
    BY <1>1, <1>2, <1>3
  <2>2. unknowns' \in [Detection!Slots -> [id : 0..MaxId, val : Detection!Slots]]
    BY <1>1, <1>5 DEF Entries
  <2>3. unknownsSize' \in 0..(Detection!UnknownsMaxSize + 1)
    BY <1>1, <1>2, <1>6
  <2>4. detectionPc' \in {"read", "again", "end", "overflow", "assert"}
    BY <1>4
  <2> QED
    BY <1>1, <1>2, <1>3, <1>4, <2>1, <2>2, <2>3, <2>4 DEF Detection!TypeOK, x
<1>8. (lastNDCheck > 0 => detectionSize >= DetectionK)
  BY DEF Storing, DetectionIInv
<1>9. Counted' => Counted /\ detectionSize >= DetectionK
  BY <1>1, <1>2, <1>4, <1>8 DEF Counted
<1>10. Detection!UnknownsFit'
  <2> SUFFICES ASSUME detectionPc' \in {"assert", "overflow"}
               PROVE  late' /\ lastNDCheck' = 0
    BY DEF Detection!UnknownsFit
  <2>1. n >= 2 * DetT
    BY <1>2, <1>4
  <2>2. ~Counted
    BY <1>2, <1>5, <1>6, <2>1
  <2> QED
    BY <1>1, <1>2, <1>4, <2>2 DEF Counted
<1>11. ASSUME Counted', detectionPc' = "read"
       PROVE  FewYoung(Left, n, lastNDCheck)
  <2>1. Counted /\ n <= 2 * DetT - 1 /\ detectionSize >= DetectionK
    BY <1>5, <1>9, <1>11
  <2>2. ~Detection!Due(n) /\ InOrder(Left, n)
    <3>1. ~(detectionSize < DetectionK)
      BY <1>2, <2>1
    <3> QED
      BY <1>4, <1>5, <1>11, <3>1
  <2>3. n < DetT \/ x - lastNDCheck <= DetT
    <3>1. ~(n >= DetT /\ x - lastNDCheck > DetT)
      BY <2>2 DEF Detection!Due, DetT, x
    <3> QED
      BY <1>2, <1>3, <1>6, <3>1
  <2> SUFFICES ASSUME NEW i \in 0..(n - 1), i + DetT + 1 < n
               PROVE  Left[i].id < lastNDCheck
    BY <2>1 DEF FewYoung
  <2>4. x - lastNDCheck <= DetT
    BY <1>2, <1>6, <2>3
  <2> DEFINE j == n - 1
  <2>5. j \in 0..(n - 1) /\ i <= j /\ i \in Nat /\ j - i > DetT
    BY <1>2, <1>6
  <2>6. \A k \in 0..(n - 1) : Left[k].id \in Nat
    <3>1. \A k \in 0..(n - 1) : k \in Detection!Slots
      BY <1>2, <1>6
    <3>2. \A k \in 0..(n - 1) : Left[k] \in Entries
      BY <1>5, <3>1
    <3> QED
      BY <1>2, <3>2 DEF Entries
  <2>7. Left[j].id <= x
    BY <1>5, <2>5 DEF Dated
  <2>8. Left[j].id - Left[i].id >= j - i
    <3> HIDE DEF j
    <3>1. n \in Nat
      BY <1>6
    <3> QED
      BY <2>2, <2>5, <2>6, <3>1, Spread
  <2> DEFINE a == Left[i].id
             b == Left[j].id
  <2>9. a \in Nat /\ b \in Nat /\ b <= x /\ b - a >= j - i
    BY <2>5, <2>6, <2>7, <2>8
  <2> HIDE DEF a, b, j
  <2>10. a < lastNDCheck
    BY <1>2, <1>3, <2>4, <2>5, <2>9
  <2> QED
    BY <2>10 DEF a
<1>12. (~late' => unknownsSize' = 0 \/ detectionSize' >= DetectionK)
  BY <1>1, <1>2, <1>4
<1>15. Detection!Reading' => detectionPc' = "read"
  BY <1>4 DEF Detection!Reading
<1>13. /\ Detection!Reading' => InOrder(unknowns, unknownsSize)'
       /\ InTwos(unknowns, unknownsSize, detectionId)'
       /\ Valued(unknowns, unknownsSize, val)'
       /\ Dated(unknowns, unknownsSize, earlierCheck, detectionId)'
       /\ lastNDCheck' = 0 => OwnCells(unknowns)' /\ OwnValues(unknowns, unknownsSize, val)'
  BY <1>1, <1>4, <1>5, <1>15 DEF x, InOrder, InTwos, Valued, Dated, OwnCells, OwnValues
<1>14. Detection!Reading' /\ Counted' => FewYoung(unknowns, unknownsSize, lastNDCheck)'
  BY <1>1, <1>11, <1>15 DEF FewYoung
<1> QED
  BY <1>1, <1>3, <1>7, <1>8, <1>10, <1>12, <1>13, <1>14 DEF DetectionIInv, x

\* A detection: what stays is from after the one before, and none but the last entry
\* is as young as the time of this one.
LEMMA DetectKeeps ==
  ASSUME Storing, detectionSize >= DetectionK, LeftSize < Detection!UnknownsMaxSize,
         Detection!GoOn, Detection!Due(LeftSize), Detection!Detect(Left, LeftSize),
         Detection!Checks
  PROVE  DetectionIInv'
<1> DEFINE x == detectionId'
           n == LeftSize
<1>1. PICK explained \in SUBSET (0..(n - 1)), new \in 1..DetectionK :
        LET drop == explained \cup Detection!Old(Left, n)
        IN /\ detectionSize + new <= MaxSize
           /\ detectionSize' = detectionSize + new
           /\ unknowns' = Detection!Compressed(Left, n, drop)
           /\ unknownsSize' = n - Detection!Cardinality(drop)
  BY DEF Detection!Detect
<1> DEFINE drop == explained \cup Detection!Old(Left, n)
           m == n - Cardinality(drop)
<1>2. /\ detectionSize + new <= MaxSize /\ detectionSize' = detectionSize + new
      /\ unknowns' = Detection!Compressed(Left, n, drop) /\ unknownsSize' = m
      /\ lastNDCheck' = x /\ earlierCheck' = lastNDCheck /\ printed' = "clusters"
  <2>1. Detection!Cardinality(drop) = Cardinality(drop)
    BY Zenon DEF Detection!Cardinality, Cardinality
  <2> QED
    BY <1>1, <2>1 DEF Detection!Detect, Detection!Checks
<1>3. /\ DetT \in Nat /\ DetT > 2 /\ Detection!UnknownsMaxSize = 2 * DetT
      /\ Detection!Slots = 0..(2 * DetT) /\ lastNDCheck \in 0..detectionId
      /\ late \in BOOLEAN /\ detectionId \in 0..MaxId
      /\ detectionSize \in 0..MaxSize
      /\ MaxId \in Nat /\ MaxSize \in Nat /\ DetectionK \in Nat
  BY DetectionFacts DEF Storing
<1>4. /\ x \in 0..MaxId /\ x >= detectionId
      /\ val' \in [Detection!Slots -> 0..MaxId] /\ \A c \in Detection!Slots : val'[c] <= x
  BY NamedFacts DEF Storing
<1>5. /\ detectionPc \in {"read", "again"} /\ late' \in BOOLEAN
      /\ lineType' \in {"none", "C", "U"} /\ detectionPc' \in {"read", "end"}
      /\ detectionPc' = "read" => detectionPc = "read"
  BY HandledFacts DEF Storing, Detection!GoOn
<1>22. x - lastNDCheck > DetT
  BY DEF Detection!Due, DetT
<1>6. /\ Left \in [Detection!Slots -> Entries]
      /\ n \in 0..Full /\ Full \in 1..(2 * DetT + 1)
      /\ detectionPc = "read" => InOrder(Left, n)
      /\ InTwos(Left, n, x) /\ Valued(Left, n, val')
      /\ Dated(Left, n, earlierCheck, x)
  BY LeftFacts
<1>7. drop \in SUBSET (0..(n - 1))
      /\ \A e \in 0..(n - 1) : e \notin drop => ~(Left[e].id < lastNDCheck)
  BY DEF Detection!Old
<1> HIDE DEF x, n, drop
<1>8. n \in 0..(2 * DetT - 1) /\ n \in Nat /\ n \in 0..(Detection!UnknownsMaxSize + 1)
  BY <1>3, <1>6 DEF n
<1>9. /\ unknowns' \in [Detection!Slots -> Entries]
      /\ \E src : Compacts(Left, unknowns', n, drop, src)
  BY <1>2, <1>6, <1>7, <1>8, CompressedFacts
<1>10. KeptBy(Left, unknowns', n, drop, earlierCheck, x, val')
  <2>1. PICK src : Compacts(Left, unknowns', n, drop, src)
    BY <1>9
  <2> QED
    BY <1>7, <1>8, <2>1, CompactsKeeps
<1>11. /\ m \in 0..n /\ Valued(unknowns', m, val')
       /\ detectionPc = "read" => InOrder(unknowns', m)
       /\ InTwos(unknowns', m, x) /\ Dated(unknowns', m, earlierCheck, x)
  BY <1>6, <1>10 DEF KeptBy
<1>12. \A i \in 0..(m - 1) : unknowns'[i].id >= lastNDCheck
  <2>1. \A e \in (0..(n - 1)) \ drop : Left[e].id >= lastNDCheck
    <3> SUFFICES ASSUME NEW e \in 0..(n - 1), e \notin drop
                 PROVE  Left[e].id >= lastNDCheck
      OBVIOUS
    <3>1. e \in Detection!Slots
      BY <1>3, <1>8
    <3>2. Left[e] \in Entries
      BY <1>6, <3>1
    <3>3. Left[e].id \in Nat /\ ~(Left[e].id < lastNDCheck)
      BY <1>3, <1>7, <3>2 DEF Entries
    <3> QED
      BY <1>3, <3>3
  <2> QED
    BY <1>10, <2>1 DEF KeptBy
<1> HIDE DEF m
<1>13. m \in 0..(2 * DetT - 1)
  BY <1>3, <1>8, <1>11
<1>14. Dated(unknowns', m, lastNDCheck, x)
  <2>1. \A i \in 0..(m - 1) : unknowns'[i].id \in Nat
    <3>1. \A i \in 0..(m - 1) : i \in Detection!Slots
      BY <1>3, <1>13
    <3>2. \A i \in 0..(m - 1) : unknowns'[i] \in Entries
      BY <1>9, <3>1
    <3> QED
      BY <1>3, <3>2 DEF Entries
  <2> QED
    BY <1>3, <1>11, <1>12, <2>1 DEF Dated
<1>15. ASSUME detectionPc' = "read"
       PROVE  FewYoung(unknowns', m, x)
  <2> SUFFICES ASSUME NEW i \in 0..(m - 1), i + DetT + 1 < m
               PROVE  unknowns'[i].id < x
    BY <1>3, <1>13 DEF FewYoung
  <2> DEFINE j == m - 1
  <2>1. i \in 0..(m - 1) /\ j \in 0..(m - 1) /\ i < j
    BY <1>3, <1>13
  <2>2. j \in Detection!Slots /\ i \in Detection!Slots
    BY <1>3, <1>13, <2>1
  <2> HIDE DEF j
  <2>3. unknowns'[i].id < unknowns'[j].id
    BY <1>5, <1>11, <1>15, <2>1 DEF InOrder
  <2>4. unknowns'[j].id <= x
    BY <1>14, <2>1 DEF Dated
  <2>5. unknowns'[i] \in Entries /\ unknowns'[j] \in Entries
    BY <1>9, <2>2
  <2> DEFINE a == unknowns'[i].id
             b == unknowns'[j].id
  <2>6. a \in Nat /\ b \in Nat
    BY <1>3, <2>5 DEF Entries
  <2>7. a < b /\ b <= x
    BY <2>3, <2>4
  <2> HIDE DEF a, b
  <2>8. a < x
    BY <1>4, <2>6, <2>7
  <2> QED
    BY <2>8 DEF a
<1>16. lastNDCheck' > 0 /\ lastNDCheck' \in 0..x /\ earlierCheck' \in 0..lastNDCheck'
  BY <1>2, <1>3, <1>4, <1>22
<1>17. detectionSize' \in 0..MaxSize /\ detectionSize' >= DetectionK
  BY <1>2, <1>3
<1>18. Detection!TypeOK'
  <2>1. unknowns' \in [Detection!Slots -> [id : 0..MaxId, val : Detection!Slots]]
    BY <1>9 DEF Entries
  <2>2. unknownsSize' \in 0..(Detection!UnknownsMaxSize + 1)
    BY <1>2, <1>3, <1>13
  <2> QED
    BY <1>2, <1>4, <1>5, <1>16, <1>17, <2>1, <2>2 DEF Detection!TypeOK, x
<1>19. Detection!UnknownsFit'
  BY <1>5 DEF Detection!UnknownsFit
<1>23. Detection!Reading' => detectionPc' = "read" /\ detectionPc = "read"
  BY <1>5 DEF Detection!Reading
<1>20. /\ Detection!Reading' => InOrder(unknowns, unknownsSize)'
       /\ InTwos(unknowns, unknownsSize, detectionId)'
       /\ Valued(unknowns, unknownsSize, val)'
       /\ Dated(unknowns, unknownsSize, earlierCheck, detectionId)'
       /\ Detection!Reading' => FewYoung(unknowns, unknownsSize, lastNDCheck)'
  BY <1>2, <1>11, <1>14, <1>15, <1>23 DEF x, InOrder, InTwos, Valued, Dated, FewYoung
<1>21. lastNDCheck' # 0
  BY <1>16
<1> QED
  BY <1>4, <1>16, <1>17, <1>18, <1>19, <1>20, <1>21 DEF DetectionIInv, x

LEMMA DetectionStep ==
  ASSUME DetectionIInv, [ProgramNext]_programVars
  PROVE  DetectionIInv'
<1>1. CASE InDetection /\ Detection!ReadCluster
  <2>1. /\ detectionPc' = detectionPc /\ detectionPc = "read" /\ detectionId' = detectionId
        /\ unknowns' = unknowns /\ unknownsSize' = unknownsSize /\ val' = val
        /\ lastNDCheck' = lastNDCheck /\ earlierCheck' = earlierCheck /\ late' = late
        /\ printed' \in {"cluster", "nothing"} /\ detectionSize < MaxSize /\ lineType' = "C"
        /\ detectionSize' \in {detectionSize, detectionSize + 1}
    BY <1>1 DEF Detection!ReadCluster, Detection!listVars, Detection!checkVars
  <2>2. /\ detectionSize' \in 0..MaxSize
        /\ detectionSize >= DetectionK => detectionSize' >= DetectionK
    BY <2>1, DetectionFacts
  <2>3. Detection!TypeOK'
    BY <2>1, <2>2 DEF DetectionIInv, Detection!TypeOK
  <2> QED
    BY <2>1, <2>2, <2>3
    DEF DetectionIInv, Detection!UnknownsFit, Detection!Reading, InOrder, InTwos, Dated, Valued,
        OwnCells, OwnValues, Counted, FewYoung
<1>2. ASSUME InDetection, Detection!NextId, Detection!Reclassify \/ Detection!Overflow
      PROVE  DetectionIInv'
  <2>1. /\ unknowns' = unknowns /\ unknownsSize' = unknownsSize /\ val' = val
        /\ lastNDCheck' = lastNDCheck /\ earlierCheck' = earlierCheck
        /\ detectionSize' = detectionSize
        /\ printed' \in {"answer", printed}
        /\ \/ Detection!GoOn /\ detectionSize >= DetectionK
           \/ detectionPc' = "overflow" /\ unknownsSize \notin Detection!Slots
    BY <1>2 DEF Detection!Reclassify, Detection!Overflow, Detection!listVars,
                Detection!checkVars
  <2>2. /\ detectionId' \in 0..MaxId /\ detectionId' >= detectionId /\ late' \in BOOLEAN
        /\ detectionPc \in {"read", "again"} /\ Detection!Reading
        /\ lineType' \in {"none", "C", "U"}
        /\ (late' <=> late \/ detectionSize < DetectionK)
    BY <1>2, HandledFacts
  <2>8. /\ detectionPc' \in {"read", "end", "overflow"}
        /\ detectionPc' = "overflow" => unknownsSize \notin Detection!Slots
    BY <2>1, <2>2 DEF Detection!GoOn
  <2>3. Detection!TypeOK'
    <3>1. Detection!TypeOK /\ lastNDCheck' \in 0..detectionId'
      BY <2>1, <2>2, DetectionFacts DEF DetectionIInv
    <3> QED
      BY <2>1, <2>2, <2>8, <3>1 DEF Detection!TypeOK
  <2>4. Detection!UnknownsFit'
    <3> SUFFICES ASSUME detectionPc' = "overflow" PROVE late' /\ lastNDCheck' = 0
      BY <2>8 DEF Detection!UnknownsFit
    <3>1. ~(unknownsSize <= 2 * DetT - 1)
      BY <2>8, DetectionFacts
    <3>2. ~Counted
      BY <2>2, <3>1 DEF DetectionIInv, FewYoung
    <3> QED
      BY <2>1, <2>2, <3>2, DetectionFacts DEF Counted
  <2>5. /\ \A c \in Detection!Slots : val'[c] <= detectionId'
        /\ Dated(unknowns', unknownsSize', earlierCheck', detectionId')
    <3>1. \A c \in Detection!Slots : val[c] <= detectionId /\ val[c] \in 0..MaxId
      BY DetectionFacts DEF DetectionIInv
    <3>2. \A c \in Detection!Slots : val[c] <= detectionId'
      BY <2>2, <3>1, DetectionFacts
    <3>3. \A i \in 0..(unknownsSize - 1) : earlierCheck <= unknowns[i].id /\ unknowns[i].id <= detectionId
      BY DEF DetectionIInv, Dated
    <3>4. \A i \in 0..(unknownsSize - 1) : unknowns[i].id \in Nat
      <4>1. \A i \in 0..(unknownsSize - 1) : i \in Detection!Slots
        BY DetectionFacts
      <4>2. \A i \in 0..(unknownsSize - 1) : unknowns[i] \in Entries
        BY <4>1, DetectionFacts
      <4> QED
        BY <4>2, DetectionFacts DEF Entries
    <3>5. \A i \in 0..(unknownsSize - 1) : unknowns[i].id <= detectionId'
      BY <2>2, <3>3, <3>4, DetectionFacts
    <3> QED
      BY <2>1, <3>2, <3>3, <3>5 DEF Dated
  <2>6. Counted' => Counted
    BY <2>1, <2>2 DEF Counted
  <2>7. ~late' => unknownsSize' = 0 \/ detectionSize' >= DetectionK
    BY <2>1, <2>2 DEF DetectionIInv
  <2>9. InTwos(unknowns', unknownsSize', detectionId')
    <3>1. \A i, j \in 0..(unknownsSize - 1) : i < j => unknowns[i].id < unknowns[j].id
      BY <2>2 DEF DetectionIInv, InOrder
    <3>2. \A i, j, k \in 0..(unknownsSize - 1) : i < j /\ j < k => unknowns[i].id < unknowns[k].id
      BY DEF DetectionIInv, InTwos
    <3> QED
      BY <2>1, <3>1, <3>2 DEF InTwos
  <2>10. InOrder(unknowns', unknownsSize') /\ (Counted' => FewYoung(unknowns', unknownsSize', lastNDCheck'))
    BY <2>1, <2>2, <2>6 DEF DetectionIInv
  <2> QED
    BY <2>1, <2>3, <2>4, <2>5, <2>7, <2>9, <2>10
    DEF DetectionIInv, InOrder, InTwos, Dated, Valued, OwnCells, OwnValues, FewYoung
<1>3. CASE InDetection /\ Detection!Store
  <2>1. Storing
    BY <1>3 DEF Storing, Detection!Store
  <2>2. \/ detectionSize < DetectionK /\ Detection!Keep(Left, LeftSize)
           /\ Detection!GoOn
        \/ /\ detectionSize >= DetectionK /\ LeftSize >= Detection!UnknownsMaxSize
           /\ Detection!Keep(Left, LeftSize) /\ detectionPc' = "assert"
        \/ /\ detectionSize >= DetectionK /\ LeftSize < Detection!UnknownsMaxSize
           /\ Detection!GoOn
           /\ IF Detection!Due(LeftSize)
                THEN Detection!Detect(Left, LeftSize) /\ Detection!Checks
                ELSE Detection!Keep(Left, LeftSize)
    <3>1. Detection!Cardinality(Gone) = Cardinality(Gone)
      BY Zenon DEF Detection!Cardinality, Cardinality
    <3> QED
      BY <1>3, <3>1 DEF Detection!Store, Left, LeftSize, Gone, Full, Appended
  <2>3. CASE /\ Detection!Keep(Left, LeftSize)
             /\ \/ detectionSize < DetectionK /\ Detection!GoOn
                \/ /\ detectionSize >= DetectionK /\ LeftSize >= Detection!UnknownsMaxSize
                   /\ detectionPc' = "assert"
                \/ /\ detectionSize >= DetectionK /\ LeftSize < Detection!UnknownsMaxSize
                   /\ ~Detection!Due(LeftSize) /\ Detection!GoOn
    BY <2>1, <2>3, KeepKeeps
  <2>4. CASE /\ detectionSize >= DetectionK /\ LeftSize < Detection!UnknownsMaxSize
             /\ Detection!GoOn
             /\ Detection!Due(LeftSize)
             /\ Detection!Detect(Left, LeftSize) /\ Detection!Checks
    BY <2>1, <2>4, DetectKeeps
  <2> QED
    BY <2>2, <2>3, <2>4
<1>4. CASE InDetection /\ Detection!EndOfStream
  <2>1. /\ detectionPc' \in {"end", "again"} /\ lineType' = lineType /\ detectionPc = "read"
        /\ detectionSize' = detectionSize /\ detectionId' = detectionId
        /\ unknowns' = unknowns /\ unknownsSize' = unknownsSize /\ val' = val
        /\ lastNDCheck' = lastNDCheck /\ earlierCheck' = earlierCheck /\ late' = late
        /\ printed' = printed
    BY <1>4 DEF Detection!EndOfStream, Detection!listVars, Detection!checkVars
  <2>2. Detection!TypeOK'
    BY <2>1 DEF DetectionIInv, Detection!TypeOK
  <2> QED
    BY <2>1, <2>2
    DEF DetectionIInv, Detection!UnknownsFit, Detection!Reading, InOrder, InTwos, Dated, Valued,
        OwnCells, OwnValues, Counted, FewYoung
<1>5. CASE UNCHANGED detectionVars
  <2>1. /\ detectionPc' = detectionPc /\ detectionSize' = detectionSize
        /\ detectionId' = detectionId /\ lineType' = lineType
        /\ unknowns' = unknowns /\ unknownsSize' = unknownsSize /\ val' = val
        /\ lastNDCheck' = lastNDCheck /\ earlierCheck' = earlierCheck /\ late' = late
        /\ printed' = printed
    BY <1>5 DEF detectionVars
  <2>2. Detection!TypeOK'
    BY <2>1 DEF DetectionIInv, Detection!TypeOK
  <2> QED
    BY <2>1, <2>2
    DEF DetectionIInv, Detection!UnknownsFit, Detection!Reading, InOrder, InTwos, Dated, Valued,
        OwnCells, OwnValues, Counted, FewYoung
<1>6. CASE InDetection /\ Detection!Ended
  <2>1. UNCHANGED detectionVars
    BY <1>6 DEF Detection!Ended, Detection!vars, Detection!listVars, Detection!checkVars,
                detectionVars
  <2> QED
    BY <1>5, <2>1
<1>7. CASE InDetection /\ (Detection!Reclassify \/ Detection!Overflow)
  <2>1. Detection!NextId
    BY <1>7 DEF Detection!Reclassify, Detection!Overflow
  <2> QED
    BY <1>2, <1>7, <2>1
<1> QED
  BY <1>1, <1>3, <1>4, <1>5, <1>6, <1>7
  DEF ProgramNext, programVars, InEet, InClassifier, InOffline, Detection!Next

\* In every reachable state.
LEMMA DetectionInvariance == ProgramSpec => []DetectionIInv
<1>1. ProgramInit => DetectionIInv
  BY DetectionInit
<1>2. DetectionIInv /\ [ProgramNext]_programVars => DetectionIInv'
  BY DetectionStep
<1> QED
  BY <1>1, <1>2, PTL DEF ProgramSpec

\* The detection keeps its list in order, with the last unknown twice at most once the
\* stream has ended, and within its limits, lets no unknown take part
\* in a third detection, and gives none the values of an earlier one; its assertion
\* fails, or its array overflows, only if unknowns came before the model was complete and
\* there was no detection yet (partials/detection.c): for any sizes of the groups, any
\* number of clusters and any gaps between the ids.
THEOREM DetectionIsSafe == ProgramSpec => []DetectionInv
<1>1. DetectionIInv => DetectionInv
  <2> SUFFICES ASSUME DetectionIInv PROVE DetectionInv
    OBVIOUS
  <2>1. Detection!TypeOK /\ Detection!UnknownsFit
    BY DEF DetectionIInv
  <2>2. Detection!OrderKept
    BY DEF DetectionIInv, InOrder, InTwos, Detection!OrderKept
  <2>3. \A i \in 0..(unknownsSize - 1) : unknowns[i].id \in Nat /\ unknowns[i].val \in Detection!Slots
    <3>1. \A i \in 0..(unknownsSize - 1) : i \in Detection!Slots
      BY DetectionFacts
    <3>2. \A i \in 0..(unknownsSize - 1) : unknowns[i] \in Entries
      BY <3>1, DetectionFacts
    <3> QED
      BY <3>2, DetectionFacts DEF Entries
  <2>4. Detection!AtMostTwoRounds
    <3>1. \A i \in 0..(unknownsSize - 1) : earlierCheck <= unknowns[i].id
      BY DEF DetectionIInv, Dated
    <3>2. \A i \in 0..(unknownsSize - 1) : unknowns[i].id >= earlierCheck
      BY <2>3, <3>1, DetectionFacts
    <3> QED
      BY <3>2 DEF Detection!AtMostTwoRounds, Detection!Ids
  <2>5. Detection!ValuesOwnOrLater
    <3> SUFFICES ASSUME NEW i \in 0..(unknownsSize - 1)
                 PROVE  /\ val[unknowns[i].val] >= unknowns[i].id
                        /\ lastNDCheck = 0 => val[unknowns[i].val] = unknowns[i].id
      BY DEF Detection!ValuesOwnOrLater
    <3> DEFINE v == val[unknowns[i].val]
               x == unknowns[i].id
    <3>1. x <= v /\ (lastNDCheck = 0 => v = x)
      BY DEF DetectionIInv, Valued, OwnValues
    <3>2. x \in Nat /\ v \in 0..MaxId
      BY <2>3, DetectionFacts
    <3> HIDE DEF v, x
    <3>3. v >= x
      BY <3>1, <3>2, DetectionFacts
    <3> QED
      BY <3>1, <3>3 DEF v, x
  <2> QED
    BY <2>1, <2>2, <2>4, <2>5 DEF DetectionInv, Detection!Inv
<1> QED
  BY <1>1, DetectionInvariance, PTL

\* Between two detections the list loses nothing that the last one has not seen
\* (partials/detection.c, the clean-up of a full list).
THEOREM OnlyOldIsCollected == ProgramSpec => OnlyOldCollected
<1> DEFINE Loses == lastNDCheck' = lastNDCheck =>
                      \A x \in Detection!Ids : x >= lastNDCheck => x \in Detection!Ids'
<1>1. DetectionIInv /\ [ProgramNext]_programVars => [Loses]_(Detection!vars)
  <2> SUFFICES ASSUME DetectionIInv, [ProgramNext]_programVars, ~(UNCHANGED Detection!vars)
               PROVE  Loses
    OBVIOUS
  <2>1. CASE InDetection /\ Detection!Store
    <3>1. Storing
      BY <2>1 DEF Storing, Detection!Store
    <3> SUFFICES ASSUME lastNDCheck' = lastNDCheck, NEW i \in 0..(unknownsSize - 1),
                        unknowns[i].id >= lastNDCheck
                 PROVE  \E j \in 0..(unknownsSize' - 1) : unknowns'[j].id = unknowns[i].id
      BY DEF Detection!Ids
    <3>2. \/ Detection!Keep(Left, LeftSize)
          \/ Detection!Checks /\ Detection!Due(LeftSize)
      <4>1. Detection!Cardinality(Gone) = Cardinality(Gone)
        BY Zenon DEF Detection!Cardinality, Cardinality
      <4> QED
        BY <2>1, <4>1 DEF Detection!Store, Left, LeftSize, Gone, Full, Appended
    <3>3. ~(Detection!Checks /\ Detection!Due(LeftSize))
      <4> SUFFICES ASSUME lastNDCheck' = detectionId', detectionId' - lastNDCheck > DetT
                   PROVE  FALSE
        BY DEF Detection!Checks, Detection!Due, DetT
      <4> QED
        BY DetectionFacts
    <3>4. unknowns' = Left /\ unknownsSize' = LeftSize
      BY <3>2, <3>3 DEF Detection!Keep
    <3> QED
      BY <3>1, <3>4, LeftFacts
  <2>2. CASE unknowns' = unknowns /\ unknownsSize' = unknownsSize
    <3>1. Detection!Ids' = Detection!Ids
      BY <2>2 DEF Detection!Ids
    <3> QED
      BY <3>1
  <2>3. (InDetection /\ Detection!Store) \/ (unknowns' = unknowns /\ unknownsSize' = unknownsSize)
    BY DEF ProgramNext, programVars, InEet, InClassifier, InOffline, detectionVars,
           Detection!Next, Detection!ReadCluster, Detection!Reclassify, Detection!Overflow,
           Detection!EndOfStream, Detection!Ended, Detection!vars, Detection!listVars
  <2> QED
    BY <2>1, <2>2, <2>3
<1> QED
  BY <1>1, DetectionInvariance, PTL DEF ProgramSpec, OnlyOldCollected, Detection!OnlyOldCollected

-----------------------------------------------------------------------------
\* The classifier of partials.  Line i of an input: the clusters come first where both are in one.
Base == IF modelIs = "stdin" THEN nClusters ELSE 0
ClusterLine(i) == [type |-> "C", n |-> i - 1]
ExampleLine(i) == [type |-> "E", n |-> i]
NoLine == [type |-> "none", n |-> 0]
AnInput == modelIs \in {"stdin", "file", "pipe"} /\ nClusters \in K..MaxClusters

LEMMA ClassifierConstants ==
  K \in Nat \ {0} /\ MaxClusters \in Nat /\ MaxClusters >= K /\ NExamples \in Nat
BY ProgramsAssumption DEF Classifier!ClassifierAssumption

LEMMA SourceFacts ==
  ASSUME AnInput
  PROVE  /\ nClusters \in Nat /\ nClusters >= K /\ Base \in Nat
         /\ modelIs = "stdin" => Classifier!modelFile = "stdin" /\ Classifier!Sources = {"stdin"}
                                 /\ Base = nClusters
         /\ modelIs # "stdin" => Classifier!modelFile = "model" /\ Classifier!Sources = {"stdin", "model"}
                                 /\ Base = 0
<1>1. nClusters \in Nat /\ nClusters >= K
  BY ClassifierConstants DEF AnInput
<1>2. CASE modelIs = "stdin"
  BY <1>1, <1>2 DEF Classifier!modelFile, Classifier!Sources, Base
<1>3. CASE modelIs # "stdin"
  BY <1>1, <1>3 DEF Classifier!modelFile, Classifier!Sources, Base
<1> QED
  BY <1>1, <1>2, <1>3

LEMMA LineFacts ==
  ASSUME AnInput, NEW s \in Classifier!Sources
  PROVE  /\ Len(Classifier!Lines(s)) = IF s = "model" THEN nClusters ELSE Base + NExamples
         /\ \A i \in 1..Len(Classifier!Lines(s)) :
              Classifier!Lines(s)[i] = IF s = "model" \/ i <= Base THEN ClusterLine(i)
                                                                  ELSE ExampleLine(i - Base)
<1> DEFINE R == {"C", "E"}
           L == [type : R, n : Int]
           c == Classifier!Clusters
           e == Classifier!Examples
<1>1. nClusters \in Nat /\ NExamples \in Nat
  BY SourceFacts, ClassifierConstants
<1>2. /\ c = [i \in 1..nClusters |-> ClusterLine(i)] /\ e = [i \in 1..NExamples |-> ExampleLine(i)]
  BY DEF Classifier!Clusters, Classifier!Examples, ClusterLine, ExampleLine
<1>3. (\A i \in 1..nClusters : ClusterLine(i) \in L) /\ \A i \in 1..NExamples : ExampleLine(i) \in L
  BY <1>1 DEF ClusterLine, ExampleLine
<1> HIDE DEF c, e, L
<1>4. /\ c \in Seq(L) /\ Len(c) = nClusters /\ \A i \in 1..nClusters : c[i] = ClusterLine(i)
      /\ e \in Seq(L) /\ Len(e) = NExamples /\ \A i \in 1..NExamples : e[i] = ExampleLine(i)
  BY <1>1, <1>2, <1>3
<1>5. CASE s = "model"
  <2>1. Classifier!Lines(s) = c
    BY <1>5 DEF Classifier!Lines, c
  <2> QED
    BY <1>4, <1>5, <2>1
<1>6. CASE s # "model" /\ modelIs = "stdin"
  <2> DEFINE both == c \o e
  <2>1. Classifier!Lines(s) = both /\ Base = nClusters
    BY <1>6 DEF Classifier!Lines, c, e, Base
  <2>2. /\ both \in Seq(L) /\ Len(both) = nClusters + NExamples
        /\ \A i \in 1..(nClusters + NExamples) : both[i] = IF i <= nClusters THEN c[i] ELSE e[i - nClusters]
    BY <1>1, <1>4
  <2> HIDE DEF both
  <2>3. \A i \in 1..(nClusters + NExamples) :
          both[i] = IF i <= nClusters THEN ClusterLine(i) ELSE ExampleLine(i - nClusters)
    <3> SUFFICES ASSUME NEW i \in 1..(nClusters + NExamples)
                 PROVE  both[i] = IF i <= nClusters THEN ClusterLine(i) ELSE ExampleLine(i - nClusters)
      OBVIOUS
    <3>1. CASE i <= nClusters
      BY <1>1, <1>4, <2>2, <3>1
    <3>2. CASE ~(i <= nClusters)
      <4>1. i - nClusters \in 1..NExamples
        BY <1>1, <3>2
      <4> QED
        BY <1>4, <2>2, <3>2, <4>1
    <3> QED
      BY <3>1, <3>2
  <2> QED
    BY <1>6, <2>1, <2>2, <2>3
<1>7. CASE s # "model" /\ modelIs # "stdin"
  <2>1. Classifier!Lines(s) = e /\ Base = 0
    BY <1>7 DEF Classifier!Lines, e, Base
  <2>2. \A i \in 1..NExamples : ~(i <= 0) /\ i - 0 = i
    BY <1>1
  <2> QED
    BY <1>1, <1>4, <1>7, <2>1, <2>2
<1> QED
  BY <1>5, <1>6, <1>7

LEMMA LineSetIs ==
  ASSUME AnInput
  PROVE  /\ \A i \in 1..nClusters : ClusterLine(i) \in Classifier!LineSet
         /\ \A i \in 1..NExamples : ExampleLine(i) \in Classifier!LineSet
         /\ \A x \in Classifier!LineSet : (\E i \in 1..nClusters : x = ClusterLine(i))
                                          \/ (\E i \in 1..NExamples : x = ExampleLine(i))
<1>1. /\ \A x : x \in Classifier!Range(Classifier!Clusters) <=> \E i \in 1..nClusters : x = ClusterLine(i)
      /\ \A x : x \in Classifier!Range(Classifier!Examples) <=> \E i \in 1..NExamples : x = ExampleLine(i)
  BY DEF Classifier!Range, Classifier!Clusters, Classifier!Examples, ClusterLine, ExampleLine
<1> QED
  BY <1>1 DEF Classifier!LineSet

\* What was read: clusters and examples by the lines taken.  The model has the clusters
\* read, the answers are to the examples read, the line in the buffer is the last of
\* either, and a model that was read to its end by the first loop is only looked at
\* once more, before any example.
ClustersRead == IF modelIs # "stdin" THEN taken["model"]
                ELSE IF taken["stdin"] <= nClusters THEN taken["stdin"] ELSE nClusters
ExamplesRead == IF taken["stdin"] <= Base THEN 0 ELSE taken["stdin"] - Base

Flows ==
  /\ AnInput
  /\ sent \in [Classifier!Sources -> Nat] /\ fetched \in [Classifier!Sources -> Nat]
  /\ taken \in [Classifier!Sources -> Nat]
  /\ closed \in [Classifier!Sources -> BOOLEAN] /\ eof \in [Classifier!Sources -> BOOLEAN]
  /\ \A s \in Classifier!Sources :
       /\ taken[s] <= fetched[s] /\ fetched[s] <= sent[s] /\ sent[s] <= Len(Classifier!Lines(s))
       /\ closed[s] => sent[s] = Len(Classifier!Lines(s))
       /\ eof[s] => closed[s] /\ taken[s] = sent[s]
LineIsLast ==
  /\ line \in Classifier!LineSet \cup {NoLine}
  /\ line.type = "C" => line.n < classifierSize
  /\ line.type = "E" => line.n = ExamplesRead /\ ExamplesRead > 0
  /\ line.type = "none" => classifierSize = 0
Answered ==
  /\ answers \in Seq([id : Nat, ex : Nat, unknown : BOOLEAN])
  /\ classifierId = Len(answers)
  /\ \A i \in 1..Len(answers) : /\ answers[i].id = i - 1
                                /\ answers[i].ex = IF i <= ExamplesRead THEN i ELSE ExamplesRead
  /\ \/ Len(answers) = ExamplesRead
     \/ eof["stdin"] /\ Len(answers) = ExamplesRead + 1 /\ ExamplesRead > 0
OnceMore ==
  modelIs # "stdin" /\ nClusters = K =>
    /\ classifierPc = "stdinLine" \/ ExamplesRead > 0 => "model" \notin fds \/ eof["model"]
    /\ classifierPc = "modelLine" /\ "model" \in fds => closed["model"]
ClassifierIInv ==
  /\ Flows /\ LineIsLast /\ Answered /\ OnceMore /\ Classifier!ModelUnderstood
  /\ fds \in (SUBSET Classifier!Sources) \ {{}}
  /\ classifierPc \in {"load", "select", "modelLine", "stdinLine", "end", "assert"}
  /\ classifierSize \in Nat /\ classifierSize = ClustersRead
  /\ classifierPc = "load" => classifierSize <= K /\ ExamplesRead = 0
  /\ classifierPc # "load" => classifierSize >= K
  /\ eof["stdin"] => classifierPc \in {"select", "end"}

\* A line taken: the next cluster, which is added; the next example; or the end.
TookCluster(s, got) ==
  /\ s = Classifier!modelFile /\ got.type = "C" /\ line' = got /\ eof' = eof
  /\ classifierSize' = classifierSize + 1 /\ ClustersRead' = classifierSize + 1
  /\ ExamplesRead' = ExamplesRead /\ got.n < classifierSize' /\ classifierSize < nClusters
TookExample(s, got) ==
  /\ s = "stdin" /\ got.type = "E" /\ line' = got /\ eof' = eof
  /\ classifierSize' = classifierSize /\ ClustersRead' = classifierSize
  /\ classifierSize = nClusters \/ modelIs # "stdin"
  /\ ExamplesRead' = ExamplesRead + 1 /\ got.n = ExamplesRead + 1
TookEnd(s, got) ==
  /\ closed[s] /\ eof' = [eof EXCEPT ![s] = TRUE] /\ got = line /\ line' = line
  /\ classifierSize' = classifierSize /\ ClustersRead' = classifierSize
  /\ ExamplesRead' = ExamplesRead
  /\ s = Classifier!modelFile => classifierSize = nClusters

LEMMA ReadFacts ==
  ASSUME Flows
  PROVE  /\ ExamplesRead \in 0..NExamples /\ ClustersRead \in 0..nClusters
         /\ taken["stdin"] \in Nat /\ "stdin" \in Classifier!Sources
         /\ Classifier!modelFile \in Classifier!Sources
         /\ ClustersRead <= taken[Classifier!modelFile]
         /\ eof["stdin"] => ExamplesRead = NExamples
         /\ eof[Classifier!modelFile] => ClustersRead = nClusters
<1>1. /\ nClusters \in Nat /\ NExamples \in Nat /\ Base \in Nat /\ AnInput
      /\ "stdin" \in Classifier!Sources /\ Classifier!modelFile \in Classifier!Sources
      /\ modelIs = "stdin" => Classifier!modelFile = "stdin" /\ Base = nClusters
      /\ modelIs # "stdin" => Classifier!modelFile = "model" /\ Base = 0
  BY SourceFacts, ClassifierConstants DEF Flows
<1>2. \A s \in Classifier!Sources :
        /\ taken[s] \in Nat /\ taken[s] <= Len(Classifier!Lines(s))
        /\ eof[s] => taken[s] = Len(Classifier!Lines(s))
  <2> SUFFICES ASSUME NEW s \in Classifier!Sources
               PROVE  /\ taken[s] \in Nat /\ taken[s] <= Len(Classifier!Lines(s))
                      /\ eof[s] => taken[s] = Len(Classifier!Lines(s))
    OBVIOUS
  <2> DEFINE n == Len(Classifier!Lines(s))
  <2>1. n \in Nat
    BY <1>1, LineFacts
  <2>2. /\ taken[s] \in Nat /\ fetched[s] \in Nat /\ sent[s] \in Nat
        /\ taken[s] <= fetched[s] /\ fetched[s] <= sent[s] /\ sent[s] <= n
        /\ closed[s] => sent[s] = n
        /\ eof[s] => closed[s] /\ taken[s] = sent[s]
    BY DEF Flows
  <2> HIDE DEF n
  <2>3. taken[s] <= n /\ (eof[s] => taken[s] = n)
    BY <2>1, <2>2
  <2> QED
    BY <2>2, <2>3 DEF n
<1>3. Len(Classifier!Lines("stdin")) = Base + NExamples
  BY <1>1, LineFacts
<1>4. /\ taken["stdin"] \in Nat /\ taken["stdin"] <= Base + NExamples
      /\ eof["stdin"] => taken["stdin"] = Base + NExamples
  BY <1>1, <1>2, <1>3
<1>5. ExamplesRead \in 0..NExamples /\ (eof["stdin"] => ExamplesRead = NExamples)
  BY <1>1, <1>4 DEF ExamplesRead
<1>6. CASE modelIs = "stdin"
  BY <1>1, <1>4, <1>5, <1>6 DEF ClustersRead
<1>7. CASE modelIs # "stdin"
  <2>1. "model" \in Classifier!Sources /\ Classifier!modelFile = "model"
    BY <1>1, <1>7
  <2>2. Len(Classifier!Lines("model")) = nClusters
    BY <1>1, <2>1, LineFacts
  <2>3. /\ taken["model"] \in Nat /\ taken["model"] <= nClusters
        /\ eof["model"] => taken["model"] = nClusters
    BY <1>2, <2>1, <2>2
  <2> QED
    BY <1>1, <1>4, <1>5, <1>7, <2>1, <2>3 DEF ClustersRead
<1> QED
  BY <1>6, <1>7

LEMMA SameInput ==
  ASSUME modelIs' = modelIs, nClusters' = nClusters
  PROVE  /\ Classifier!Sources' = Classifier!Sources /\ Classifier!modelFile' = Classifier!modelFile
         /\ Classifier!LineSet' = Classifier!LineSet /\ Base' = Base /\ (AnInput' <=> AnInput)
         /\ \A s : Classifier!Lines(s)' = Classifier!Lines(s)
<1>1. /\ Classifier!modelFile' = Classifier!modelFile
      /\ Classifier!Clusters' = Classifier!Clusters
      /\ Classifier!Examples' = Classifier!Examples
      /\ Base' = Base /\ (AnInput' <=> AnInput)
  BY DEF Classifier!modelFile, Classifier!Clusters, Classifier!Examples, Base, AnInput
<1>2. Classifier!Sources' = Classifier!Sources /\ Classifier!LineSet' = Classifier!LineSet
  BY <1>1 DEF Classifier!Sources, Classifier!LineSet
<1>3. \A s : Classifier!Lines(s)' = Classifier!Lines(s)
  BY <1>1 DEF Classifier!Lines
<1> QED
  BY <1>1, <1>2, <1>3

LEMMA TakeFacts ==
  ASSUME ClassifierIInv, NEW s \in Classifier!Sources, ~eof[s], NEW got,
         Classifier!Take(s, got), Classifier!Add(got),
         UNCHANGED <<modelIs, nClusters, sent, closed>>
  PROVE  /\ Flows' /\ line' \in Classifier!LineSet \cup {NoLine}
         /\ TookCluster(s, got) \/ TookExample(s, got) \/ TookEnd(s, got)
<1> DEFINE n == Len(Classifier!Lines(s))
           i == taken[s] + 1
<1>0. Flows /\ LineIsLast /\ classifierSize \in Nat /\ classifierSize = ClustersRead
  BY DEF ClassifierIInv
<1>1. modelIs' = modelIs /\ nClusters' = nClusters /\ sent' = sent /\ closed' = closed
  OBVIOUS
<1>2. /\ Classifier!Sources' = Classifier!Sources /\ Classifier!modelFile' = Classifier!modelFile
      /\ Base' = Base /\ (AnInput' <=> AnInput)
      /\ \A t : Classifier!Lines(t)' = Classifier!Lines(t)
  BY <1>1, SameInput
<1>3. /\ nClusters \in Nat /\ NExamples \in Nat /\ Base \in Nat /\ AnInput
      /\ modelIs = "stdin" => Classifier!modelFile = "stdin" /\ Base = nClusters
                              /\ Classifier!Sources = {"stdin"}
      /\ modelIs # "stdin" => Classifier!modelFile = "model" /\ Base = 0
                              /\ Classifier!Sources = {"stdin", "model"}
  BY <1>0, SourceFacts, ClassifierConstants DEF Flows
<1>4. /\ n = IF s = "model" THEN nClusters ELSE Base + NExamples
      /\ \A k \in 1..n : Classifier!Lines(s)[k] = IF s = "model" \/ k <= Base THEN ClusterLine(k)
                                                                           ELSE ExampleLine(k - Base)
  BY <1>3, LineFacts
<1>5. /\ sent \in [Classifier!Sources -> Nat] /\ fetched \in [Classifier!Sources -> Nat]
      /\ taken \in [Classifier!Sources -> Nat]
      /\ closed \in [Classifier!Sources -> BOOLEAN] /\ eof \in [Classifier!Sources -> BOOLEAN]
      /\ \A t \in Classifier!Sources :
           /\ taken[t] <= fetched[t] /\ fetched[t] <= sent[t] /\ sent[t] <= Len(Classifier!Lines(t))
           /\ closed[t] => sent[t] = Len(Classifier!Lines(t))
           /\ eof[t] => closed[t] /\ taken[t] = sent[t]
  BY <1>0 DEF Flows
<1>6. n \in Nat
  BY <1>3, <1>4
<1>7. \/ /\ Classifier!Fetch(s)
         /\ got = Classifier!Lines(s)[i] /\ line' = got
         /\ taken' = [taken EXCEPT ![s] = @ + 1] /\ eof' = eof
      \/ /\ closed[s] /\ taken[s] = n
         /\ eof' = [eof EXCEPT ![s] = TRUE]
         /\ got = line /\ fetched' = fetched /\ taken' = taken /\ line' = line
  BY DEF Classifier!Take
<1>8. CASE /\ Classifier!Fetch(s)
           /\ got = Classifier!Lines(s)[i] /\ line' = got
           /\ taken' = [taken EXCEPT ![s] = @ + 1] /\ eof' = eof
  <2>1. \/ taken[s] < fetched[s] /\ fetched' = fetched
        \/ /\ ~(taken[s] < fetched[s])
           /\ \E upTo \in (taken[s] + 1)..sent[s] : fetched' = [fetched EXCEPT ![s] = upTo]
    BY <1>8 DEF Classifier!Fetch
  <2>2. /\ fetched' \in [Classifier!Sources -> Nat] /\ taken' \in [Classifier!Sources -> Nat]
        /\ i <= fetched'[s] /\ fetched'[s] <= sent[s] /\ taken'[s] = i
        /\ \A t \in Classifier!Sources : t # s => fetched'[t] = fetched[t] /\ taken'[t] = taken[t]
    <3>1. taken[s] \in Nat /\ fetched[s] \in Nat /\ sent[s] \in Nat
          /\ taken[s] <= fetched[s] /\ fetched[s] <= sent[s]
      BY <1>5
    <3>2. taken' \in [Classifier!Sources -> Nat] /\ taken'[s] = i
          /\ \A t \in Classifier!Sources : t # s => taken'[t] = taken[t]
      BY <1>5, <1>8, <3>1
    <3>3. CASE taken[s] < fetched[s] /\ fetched' = fetched
      BY <1>5, <3>1, <3>2, <3>3
    <3>4. CASE \E upTo \in (taken[s] + 1)..sent[s] : fetched' = [fetched EXCEPT ![s] = upTo]
      <4>1. PICK upTo \in (taken[s] + 1)..sent[s] : fetched' = [fetched EXCEPT ![s] = upTo]
        BY <3>4
      <4>2. upTo \in Nat /\ i <= upTo /\ upTo <= sent[s]
        BY <3>1
      <4>3. /\ fetched' \in [Classifier!Sources -> Nat] /\ fetched'[s] = upTo
            /\ \A t \in Classifier!Sources : t # s => fetched'[t] = fetched[t]
        BY <1>5, <4>1, <4>2
      <4> QED
        BY <3>2, <4>2, <4>3
    <3> QED
      BY <2>1, <3>3, <3>4
  <2>3. i \in 1..n
    BY <1>5, <1>6, <2>2
  <2> HIDE DEF n, i
  <2>4. Flows'
    <3>1. \A t \in Classifier!Sources :
            /\ taken'[t] <= fetched'[t] /\ fetched'[t] <= sent[t] /\ sent[t] <= Len(Classifier!Lines(t))
            /\ closed[t] => sent[t] = Len(Classifier!Lines(t))
            /\ eof[t] => closed[t] /\ taken'[t] = sent[t]
      <4> SUFFICES ASSUME NEW t \in Classifier!Sources
                   PROVE  /\ taken'[t] <= fetched'[t] /\ fetched'[t] <= sent[t]
                          /\ eof[t] => closed[t] /\ taken'[t] = sent[t]
        BY <1>5
      <4>1. CASE t = s
        BY <2>2, <4>1
      <4>2. CASE t # s
        BY <1>5, <2>2, <4>2
      <4> QED
        BY <4>1, <4>2
    <3>2. eof' = eof
      BY <1>8
    <3> QED
      BY <1>1, <1>2, <1>3, <1>5, <2>2, <3>1, <3>2 DEF Flows
  <2>5. CASE s = "model" \/ i <= Base
    <3>1. got = ClusterLine(i) /\ s = Classifier!modelFile /\ i \in 1..nClusters
      BY <1>3, <1>4, <1>8, <2>3, <2>5
    <3>2. got.type = "C" /\ got.n = i - 1 /\ i \in Nat /\ got \in Classifier!LineSet
      BY <1>3, <3>1, LineSetIs DEF ClusterLine
    <3>3. classifierSize = i - 1 /\ ClustersRead' = i
      <4>1. taken[s] = i - 1 /\ i \in Nat
        BY <1>5, <2>3 DEF i
      <4>2. CASE modelIs = "stdin"
        BY <1>0, <1>1, <1>3, <2>2, <3>1, <4>1, <4>2 DEF ClustersRead
      <4>3. CASE modelIs # "stdin"
        BY <1>0, <1>1, <1>3, <2>2, <3>1, <4>1, <4>3 DEF ClustersRead
      <4> QED
        BY <4>2, <4>3
    <3>4. ExamplesRead' = ExamplesRead
      <4>1. taken[s] = i - 1 /\ i \in Nat /\ taken["stdin"] \in Nat
        BY <1>0, <1>5, <2>3, ReadFacts DEF i
      <4>2. CASE s = "stdin"
        BY <1>1, <1>2, <1>3, <2>2, <2>5, <4>1, <4>2 DEF ExamplesRead
      <4>3. CASE s # "stdin"
        <5>1. taken'["stdin"] = taken["stdin"]
          BY <1>0, <2>2, <4>3, ReadFacts
        <5> QED
          BY <1>2, <5>1 DEF ExamplesRead
      <4> QED
        BY <4>2, <4>3
    <3>5. classifierSize' = classifierSize + 1
      BY <3>2, <3>3 DEF Classifier!Add
    <3>6. got.n < classifierSize' /\ classifierSize < nClusters
      BY <1>3, <3>1, <3>2, <3>3, <3>5
    <3>7. TookCluster(s, got)
      BY <1>8, <3>1, <3>2, <3>3, <3>4, <3>5, <3>6 DEF TookCluster
    <3> QED
      BY <1>8, <2>4, <3>2, <3>7
  <2>6. CASE ~(s = "model" \/ i <= Base)
    <3>1. got = ExampleLine(i - Base) /\ s = "stdin" /\ i - Base \in 1..NExamples
      BY <1>3, <1>4, <1>8, <2>3, <2>6
    <3>2. got.type = "E" /\ got.n = i - Base /\ got \in Classifier!LineSet
      BY <1>3, <3>1, LineSetIs DEF ExampleLine
    <3>3. taken["stdin"] = i - 1 /\ i \in Nat /\ taken'["stdin"] = i
      BY <1>5, <2>2, <2>3, <3>1 DEF i
    <3>4. ExamplesRead = i - 1 - Base /\ ExamplesRead' = i - Base
      BY <1>1, <1>2, <1>3, <2>6, <3>3 DEF ExamplesRead
    <3>5. classifierSize' = classifierSize
      BY <3>2 DEF Classifier!Add
    <3>6. ClustersRead' = ClustersRead /\ (ClustersRead = nClusters \/ modelIs # "stdin")
      <4>1. CASE modelIs = "stdin"
        BY <1>1, <1>3, <2>6, <3>3, <4>1 DEF ClustersRead
      <4>2. CASE modelIs # "stdin"
        <5>1. taken'["model"] = taken["model"]
          BY <1>3, <2>2, <3>1, <4>2
        <5> QED
          BY <1>1, <4>2, <5>1 DEF ClustersRead
      <4> QED
        BY <4>1, <4>2
    <3>7. ExamplesRead' = ExamplesRead + 1 /\ got.n = ExamplesRead + 1
      BY <1>3, <3>2, <3>3, <3>4
    <3>8. TookExample(s, got)
      BY <1>0, <1>8, <3>1, <3>2, <3>5, <3>6, <3>7 DEF TookExample
    <3> QED
      BY <1>8, <2>4, <3>2, <3>8
  <2> QED
    BY <2>5, <2>6
<1>9. CASE /\ closed[s] /\ taken[s] = n
           /\ eof' = [eof EXCEPT ![s] = TRUE]
           /\ got = line /\ fetched' = fetched /\ taken' = taken /\ line' = line
  <2>1. Flows'
    <3>1. eof' \in [Classifier!Sources -> BOOLEAN] /\ eof'[s] = TRUE
          /\ \A t \in Classifier!Sources : t # s => eof'[t] = eof[t]
      BY <1>5, <1>9
    <3>2. \A t \in Classifier!Sources : eof'[t] => closed[t] /\ taken[t] = sent[t]
      <4> SUFFICES ASSUME NEW t \in Classifier!Sources, eof'[t]
                   PROVE  closed[t] /\ taken[t] = sent[t]
        OBVIOUS
      <4>1. CASE t = s
        BY <1>5, <1>9, <4>1
      <4>2. CASE t # s
        BY <1>5, <3>1, <4>2
      <4> QED
        BY <4>1, <4>2
    <3> QED
      BY <1>1, <1>2, <1>3, <1>5, <1>9, <3>1, <3>2 DEF Flows
  <2>2. ClustersRead' = ClustersRead /\ ExamplesRead' = ExamplesRead
    BY <1>1, <1>2, <1>9 DEF ClustersRead, ExamplesRead
  <2>3. classifierSize' = classifierSize
    <3>1. line.type = "C" => ~(classifierSize <= line.n)
      <4>1. line.type = "C" => line.n \in Nat
        BY <1>0, <1>3, LineSetIs DEF LineIsLast, NoLine, ClusterLine, ExampleLine
      <4> QED
        BY <1>0, <4>1 DEF LineIsLast
    <3> QED
      BY <1>9, <3>1 DEF Classifier!Add
  <2>4. s = Classifier!modelFile => classifierSize = nClusters
    <3>1. CASE modelIs = "stdin"
      BY <1>0, <1>3, <1>4, <1>9, <3>1 DEF ClustersRead
    <3>2. CASE modelIs # "stdin"
      BY <1>0, <1>3, <1>4, <1>9, <3>2 DEF ClustersRead
    <3> QED
      BY <3>1, <3>2
  <2>5. TookEnd(s, got)
    BY <1>0, <1>9, <2>2, <2>3, <2>4 DEF TookEnd
  <2> QED
    BY <1>0, <1>9, <2>1, <2>5 DEF LineIsLast
<1> QED
  BY <1>7, <1>8, <1>9

LEMMA SameRead ==
  ASSUME modelIs' = modelIs, nClusters' = nClusters, taken' = taken
  PROVE  ClustersRead' = ClustersRead /\ ExamplesRead' = ExamplesRead
BY DEF ClustersRead, ExamplesRead, Base

LEMMA ClassifierFacts ==
  ASSUME ClassifierIInv
  PROVE  /\ Flows /\ AnInput /\ LineIsLast /\ Answered /\ OnceMore /\ Classifier!ModelUnderstood
         /\ K \in Nat \ {0} /\ nClusters \in Nat /\ nClusters >= K /\ NExamples \in Nat
         /\ classifierSize = ClustersRead /\ classifierSize \in 0..nClusters
         /\ ExamplesRead \in 0..NExamples
         /\ "stdin" \in Classifier!Sources /\ Classifier!modelFile \in Classifier!Sources
         /\ modelIs = "stdin" => Classifier!modelFile = "stdin" /\ Classifier!Sources = {"stdin"}
         /\ modelIs # "stdin" => Classifier!modelFile = "model"
                                 /\ Classifier!Sources = {"stdin", "model"}
         /\ eof["stdin"] => ExamplesRead = NExamples
         /\ eof \in [Classifier!Sources -> BOOLEAN] /\ closed \in [Classifier!Sources -> BOOLEAN]
<1>1. /\ Flows /\ LineIsLast /\ Answered /\ OnceMore /\ Classifier!ModelUnderstood
      /\ classifierSize = ClustersRead
  BY DEF ClassifierIInv
<1>2. AnInput /\ eof \in [Classifier!Sources -> BOOLEAN] /\ closed \in [Classifier!Sources -> BOOLEAN]
  BY <1>1 DEF Flows
<1>3. /\ nClusters \in Nat /\ nClusters >= K
      /\ modelIs = "stdin" => Classifier!modelFile = "stdin" /\ Classifier!Sources = {"stdin"}
      /\ modelIs # "stdin" => Classifier!modelFile = "model"
                              /\ Classifier!Sources = {"stdin", "model"}
  BY <1>2, SourceFacts
<1>4. /\ ExamplesRead \in 0..NExamples /\ ClustersRead \in 0..nClusters
      /\ "stdin" \in Classifier!Sources /\ Classifier!modelFile \in Classifier!Sources
      /\ eof["stdin"] => ExamplesRead = NExamples
  BY <1>1, ReadFacts
<1>5. classifierSize \in 0..nClusters
  BY <1>1, <1>4
<1> QED
  BY <1>1, <1>2, <1>3, <1>4, <1>5, ClassifierConstants

LEMMA ClassifierInit == ProgramInit => ClassifierIInv
<1> SUFFICES ASSUME Classifier!Init
             PROVE  ClassifierIInv
  BY DEF ProgramInit
<1> DEFINE S == Classifier!Sources
<1>1. /\ AnInput /\ modelIs \in {"stdin", "file", "pipe"}
      /\ sent = [s \in S |-> IF s = "model" /\ modelIs = "file" THEN nClusters ELSE 0]
      /\ closed = [s \in S |-> s = "model" /\ modelIs = "file"]
      /\ fetched = [s \in S |-> 0] /\ taken = fetched
      /\ eof = [s \in S |-> FALSE] /\ fds = S /\ line = NoLine
      /\ classifierPc = "load" /\ classifierSize = 0 /\ classifierId = 0 /\ answers = <<>>
  BY DEF Classifier!Init, AnInput, NoLine
<1>2. /\ nClusters \in Nat /\ nClusters >= K /\ Base \in Nat /\ NExamples \in Nat /\ K \in Nat \ {0}
      /\ modelIs = "stdin" => S = {"stdin"}
      /\ modelIs # "stdin" => S = {"stdin", "model"}
  BY <1>1, SourceFacts, ClassifierConstants
<1>3. \A s \in S : Len(Classifier!Lines(s)) = IF s = "model" THEN nClusters ELSE Base + NExamples
  BY <1>1, LineFacts
<1> HIDE DEF S
<1>4. \A s \in S : /\ taken[s] = 0 /\ fetched[s] = 0 /\ eof[s] = FALSE
                   /\ sent[s] = IF s = "model" /\ modelIs = "file" THEN nClusters ELSE 0
                   /\ closed[s] <=> s = "model" /\ modelIs = "file"
  BY <1>1
<1>5. /\ sent \in [S -> Nat] /\ fetched \in [S -> Nat] /\ taken \in [S -> Nat]
      /\ closed \in [S -> BOOLEAN] /\ eof \in [S -> BOOLEAN]
  BY <1>1, <1>2
<1>6. \A s \in S : /\ taken[s] <= fetched[s] /\ fetched[s] <= sent[s]
                   /\ sent[s] <= Len(Classifier!Lines(s))
                   /\ closed[s] => sent[s] = Len(Classifier!Lines(s))
                   /\ ~eof[s]
  BY <1>2, <1>3, <1>4
<1>7. Flows
  BY <1>1, <1>5, <1>6 DEF Flows, S
<1>8. "stdin" \in S
  BY <1>2
<1>9. ExamplesRead = 0 /\ ClustersRead = 0
  <2>1. taken["stdin"] = 0
    BY <1>4, <1>8
  <2>2. modelIs # "stdin" => taken["model"] = 0
    BY <1>2, <1>4
  <2> QED
    BY <1>2, <2>1, <2>2 DEF ExamplesRead, ClustersRead
<1>10. LineIsLast
  BY <1>1, <1>9 DEF LineIsLast, NoLine
<1>11. Answered
  BY <1>1, <1>9 DEF Answered
<1>12. OnceMore /\ Classifier!ModelUnderstood
  BY <1>1, <1>9 DEF OnceMore, Classifier!ModelUnderstood
<1>13. fds \in (SUBSET S) \ {{}} /\ ~eof["stdin"]
  BY <1>1, <1>4, <1>8
<1> QED
  BY <1>1, <1>2, <1>7, <1>9, <1>10, <1>11, <1>12, <1>13 DEF ClassifierIInv, S

\* The inputs go on while the program stays.
LEMMA ProgramStays ==
  ASSUME ClassifierIInv, Flows',
         UNCHANGED <<modelIs, nClusters, taken, eof, fds, line, classifierPc, classifierSize,
                     classifierId, answers>>,
         \A s \in Classifier!Sources : closed[s] => closed'[s]
  PROVE  ClassifierIInv'
<1>1. /\ modelIs' = modelIs /\ nClusters' = nClusters /\ taken' = taken /\ eof' = eof
      /\ fds' = fds /\ line' = line /\ classifierPc' = classifierPc
      /\ classifierSize' = classifierSize /\ classifierId' = classifierId /\ answers' = answers
  OBVIOUS
<1>2. /\ Classifier!Sources' = Classifier!Sources /\ Classifier!LineSet' = Classifier!LineSet
      /\ ClustersRead' = ClustersRead /\ ExamplesRead' = ExamplesRead
  BY <1>1, SameInput, SameRead
<1>3. LineIsLast' /\ Answered'
  BY <1>1, <1>2, ClassifierFacts DEF LineIsLast, Answered, NoLine
<1>4. OnceMore'
  BY <1>1, <1>2, ClassifierFacts DEF OnceMore
<1>5. Classifier!ModelUnderstood'
  BY <1>1, ClassifierFacts DEF Classifier!ModelUnderstood
<1> QED
  BY <1>1, <1>2, <1>3, <1>4, <1>5 DEF ClassifierIInv

LEMMA InputStep ==
  ASSUME ClassifierIInv, NEW s \in Classifier!Sources, Classifier!Write(s)
  PROVE  ClassifierIInv'
<1> DEFINE n == Len(Classifier!Lines(s))
<1>1. UNCHANGED <<modelIs, nClusters, fetched, taken, eof, fds, line, classifierPc,
                  classifierSize, classifierId, answers>>
  BY DEF Classifier!Write, Classifier!argVars, Classifier!fileVars
<1>2. /\ ~closed[s]
      /\ \/ sent[s] < n /\ sent' = [sent EXCEPT ![s] = @ + 1] /\ closed' = closed
         \/ ~(sent[s] < n) /\ closed' = [closed EXCEPT ![s] = TRUE] /\ sent' = sent
  BY DEF Classifier!Write
<1>3. /\ sent \in [Classifier!Sources -> Nat] /\ fetched \in [Classifier!Sources -> Nat]
      /\ taken \in [Classifier!Sources -> Nat]
      /\ closed \in [Classifier!Sources -> BOOLEAN] /\ eof \in [Classifier!Sources -> BOOLEAN]
      /\ \A t \in Classifier!Sources :
           /\ taken[t] <= fetched[t] /\ fetched[t] <= sent[t] /\ sent[t] <= Len(Classifier!Lines(t))
           /\ closed[t] => sent[t] = Len(Classifier!Lines(t))
           /\ eof[t] => closed[t] /\ taken[t] = sent[t]
  BY ClassifierFacts DEF Flows
<1>4. n \in Nat
  BY ClassifierFacts, LineFacts, SourceFacts
<1>5. /\ Classifier!Sources' = Classifier!Sources /\ (AnInput' <=> AnInput)
      /\ \A t : Classifier!Lines(t)' = Classifier!Lines(t)
  BY <1>1, SameInput
<1> HIDE DEF n
<1>6. /\ sent' \in [Classifier!Sources -> Nat] /\ closed' \in [Classifier!Sources -> BOOLEAN]
      /\ sent[s] <= sent'[s] /\ sent'[s] <= n /\ (closed'[s] => sent'[s] = n) /\ ~eof[s]
      /\ \A t \in Classifier!Sources : /\ t # s => sent'[t] = sent[t] /\ closed'[t] = closed[t]
                                       /\ closed[t] => closed'[t]
  <2>1. sent[s] \in Nat /\ sent[s] <= n /\ ~eof[s]
    BY <1>2, <1>3 DEF n
  <2>2. CASE sent[s] < n /\ sent' = [sent EXCEPT ![s] = @ + 1] /\ closed' = closed
    <3>1. sent'[s] = sent[s] + 1 /\ sent' \in [Classifier!Sources -> Nat]
          /\ \A t \in Classifier!Sources : t # s => sent'[t] = sent[t]
      BY <1>3, <2>1, <2>2
    <3> QED
      BY <1>2, <1>3, <1>4, <2>1, <2>2, <3>1
  <2>3. CASE ~(sent[s] < n) /\ closed' = [closed EXCEPT ![s] = TRUE] /\ sent' = sent
    <3>1. closed' \in [Classifier!Sources -> BOOLEAN]
          /\ \A t \in Classifier!Sources : /\ t # s => closed'[t] = closed[t]
                                           /\ closed[t] => closed'[t]
      BY <1>3, <2>3
    <3>2. sent' = sent /\ ~(sent[s] < n)
      BY <2>3
    <3>3. sent'[s] = sent[s] /\ sent[s] = n
      BY <1>4, <2>1, <3>2
    <3>4. sent' \in [Classifier!Sources -> Nat]
          /\ \A t \in Classifier!Sources : sent'[t] = sent[t]
      BY <1>3, <3>2
    <3> QED
      BY <2>1, <3>1, <3>3, <3>4
  <2> QED
    BY <1>2, <2>2, <2>3
<1>7. Flows'
  <2>1. \A t \in Classifier!Sources :
          /\ taken[t] <= fetched[t] /\ fetched[t] <= sent'[t] /\ sent'[t] <= Len(Classifier!Lines(t))
          /\ closed'[t] => sent'[t] = Len(Classifier!Lines(t))
          /\ eof[t] => closed'[t] /\ taken[t] = sent'[t]
    <3> SUFFICES ASSUME NEW t \in Classifier!Sources
                 PROVE  /\ taken[t] <= fetched[t] /\ fetched[t] <= sent'[t]
                        /\ sent'[t] <= Len(Classifier!Lines(t))
                        /\ closed'[t] => sent'[t] = Len(Classifier!Lines(t))
                        /\ eof[t] => closed'[t] /\ taken[t] = sent'[t]
      OBVIOUS
    <3>1. CASE t = s
      <4>1. taken[s] \in Nat /\ fetched[s] \in Nat /\ sent[s] \in Nat /\ sent'[s] \in Nat
        BY <1>3, <1>6
      <4>2. taken[s] <= fetched[s] /\ fetched[s] <= sent[s]
        BY <1>3
      <4> QED
        BY <1>6, <3>1, <4>1, <4>2 DEF n
    <3>2. CASE t # s
      BY <1>3, <1>6, <3>2
    <3> QED
      BY <3>1, <3>2
  <2> QED
    BY <1>1, <1>3, <1>5, <1>6, <2>1, ClassifierFacts DEF Flows
<1> QED
  BY <1>1, <1>6, <1>7, ProgramStays

\* The first loop takes only clusters.
LEMMA LoadStep ==
  ASSUME ClassifierIInv, Classifier!Load
  PROVE  ClassifierIInv'
<1>1. PICK got : /\ Classifier!Take(Classifier!modelFile, got) /\ Classifier!Add(got)
                 /\ classifierPc' = IF got.type = "C" THEN classifierPc ELSE "assert"
  BY DEF Classifier!Load
<1>2. /\ classifierPc = "load" /\ classifierSize < K
      /\ fds' = fds /\ classifierId' = classifierId /\ answers' = answers
      /\ modelIs' = modelIs /\ nClusters' = nClusters /\ sent' = sent /\ closed' = closed
  BY DEF Classifier!Load, Classifier!inputVars, Classifier!argVars
<1> DEFINE s == Classifier!modelFile
<1>3. ~eof[s] /\ classifierSize < nClusters /\ s \in Classifier!Sources
  <2>1. eof[s] => ClustersRead = nClusters
    BY ClassifierFacts, ReadFacts
  <2> QED
    BY <1>2, <2>1, ClassifierFacts
<1> HIDE DEF s
<1>4. /\ Flows' /\ line' \in Classifier!LineSet \cup {NoLine}
      /\ TookCluster(s, got) \/ TookExample(s, got) \/ TookEnd(s, got)
  BY <1>1, <1>2, <1>3, TakeFacts DEF s
<1>5. TookCluster(s, got)
  <2>1. ~TookExample(s, got)
    BY <1>3, ClassifierFacts DEF TookExample, s
  <2>2. ~TookEnd(s, got)
    BY <1>3, ClassifierFacts DEF TookEnd, s
  <2> QED
    BY <1>4, <2>1, <2>2
<1>6. /\ line' = got /\ got.type = "C" /\ eof' = eof /\ got.n < classifierSize'
      /\ classifierSize' = classifierSize + 1 /\ ClustersRead' = classifierSize'
      /\ ExamplesRead' = ExamplesRead
  BY <1>5 DEF TookCluster
<1>7. classifierPc' = "load" /\ ExamplesRead = 0 /\ ~eof["stdin"]
  BY <1>1, <1>2, <1>6, ClassifierFacts DEF ClassifierIInv
<1>8. /\ Classifier!Sources' = Classifier!Sources /\ Classifier!LineSet' = Classifier!LineSet
  BY <1>2, SameInput
<1>9. LineIsLast'
  BY <1>4, <1>6, <1>8 DEF LineIsLast, NoLine
<1>10. Answered'
  BY <1>2, <1>6, ClassifierFacts DEF Answered
<1>11. OnceMore' /\ Classifier!ModelUnderstood'
  BY <1>6, <1>7 DEF OnceMore, Classifier!ModelUnderstood
<1>12. /\ fds' \in (SUBSET Classifier!Sources) \ {{}} /\ classifierSize' \in Nat
       /\ classifierSize' <= K
  BY <1>2, <1>6, ClassifierFacts DEF ClassifierIInv
<1> QED
  BY <1>4, <1>6, <1>7, <1>8, <1>9, <1>10, <1>11, <1>12 DEF ClassifierIInv

\* The program goes on without reading.
LEMMA ProgramMoves ==
  ASSUME ClassifierIInv, classifierSize >= K, ~eof["stdin"] \/ classifierPc' = "end",
         UNCHANGED <<modelIs, nClusters, sent, closed, fetched, taken, eof, line,
                     classifierSize, classifierId, answers>>,
         classifierPc' \in {"select", "modelLine", "stdinLine", "end"},
         fds' \in (SUBSET fds) \ {{}}, OnceMore'
  PROVE  ClassifierIInv'
<1>1. /\ modelIs' = modelIs /\ nClusters' = nClusters /\ sent' = sent /\ closed' = closed
      /\ fetched' = fetched /\ taken' = taken /\ eof' = eof /\ line' = line
      /\ classifierSize' = classifierSize /\ classifierId' = classifierId /\ answers' = answers
  OBVIOUS
<1>2. /\ Classifier!Sources' = Classifier!Sources /\ Classifier!LineSet' = Classifier!LineSet
      /\ ClustersRead' = ClustersRead /\ ExamplesRead' = ExamplesRead
      /\ (AnInput' <=> AnInput) /\ \A s : Classifier!Lines(s)' = Classifier!Lines(s)
  BY <1>1, SameInput, SameRead
<1>3. Flows'
  BY <1>1, <1>2, ClassifierFacts DEF Flows
<1>4. LineIsLast' /\ Answered'
  BY <1>1, <1>2, ClassifierFacts DEF LineIsLast, Answered, NoLine
<1>5. Classifier!ModelUnderstood' /\ classifierPc' # "load"
  BY DEF Classifier!ModelUnderstood
<1>6. fds' \in (SUBSET Classifier!Sources) \ {{}}
  BY DEF ClassifierIInv
<1>7. classifierSize' \in Nat /\ classifierSize' = ClustersRead' /\ classifierSize' >= K
  BY <1>1, <1>2, ClassifierFacts
<1> QED
  BY <1>1, <1>2, <1>3, <1>4, <1>5, <1>6, <1>7 DEF ClassifierIInv

LEMMA ModelComplete ==
  ASSUME ClassifierIInv, Classifier!Loaded
  PROVE  ClassifierIInv'
<1>1. /\ classifierPc = "load" /\ classifierSize >= K /\ classifierPc' = "select"
      /\ UNCHANGED <<modelIs, nClusters, sent, closed, fetched, taken, eof, fds, line,
                     classifierSize, classifierId, answers>>
  BY DEF Classifier!Loaded, Classifier!inputVars, Classifier!argVars, Classifier!fileVars
<1>2. ExamplesRead = 0
  BY <1>1 DEF ClassifierIInv
<1>3. ~eof["stdin"] /\ fds \in (SUBSET fds) \ {{}}
  BY <1>1 DEF ClassifierIInv
<1>4. OnceMore'
  <2>1. ExamplesRead' = ExamplesRead
    BY <1>1, SameRead
  <2> QED
    BY <1>1, <1>2, <2>1 DEF OnceMore
<1>5. /\ modelIs' = modelIs /\ nClusters' = nClusters /\ sent' = sent /\ closed' = closed
      /\ fetched' = fetched /\ taken' = taken /\ eof' = eof /\ line' = line /\ fds' = fds
      /\ classifierSize' = classifierSize /\ classifierId' = classifierId /\ answers' = answers
  BY <1>1
<1> QED
  BY <1>1, <1>3, <1>4, <1>5, ProgramMoves

LEMMA SelectStep ==
  ASSUME ClassifierIInv, Classifier!Select
  PROVE  ClassifierIInv'
<1>1. /\ classifierPc = "select" /\ ~eof["stdin"] /\ classifierPc' = "modelLine"
      /\ (\E s \in fds : Classifier!Ready(s)) /\ fds' = {s \in fds : Classifier!Ready(s)}
      /\ modelIs' = modelIs /\ nClusters' = nClusters /\ sent' = sent /\ closed' = closed
      /\ fetched' = fetched /\ taken' = taken /\ eof' = eof /\ line' = line
      /\ classifierSize' = classifierSize /\ classifierId' = classifierId /\ answers' = answers
  BY DEF Classifier!Select, Classifier!inputVars, Classifier!argVars, Classifier!fileVars
<1>2. fds' \in (SUBSET fds) \ {{}}
  BY <1>1
<1>3. classifierSize >= K
  BY <1>1 DEF ClassifierIInv
<1>4. OnceMore'
  <2>1. ExamplesRead' = ExamplesRead
    BY <1>1, SameRead
  <2> SUFFICES ASSUME modelIs # "stdin", nClusters = K
               PROVE  /\ ExamplesRead > 0 => "model" \notin fds' \/ eof["model"]
                      /\ "model" \in fds' => closed["model"]
    BY <1>1, <2>1 DEF OnceMore
  <2>2. ExamplesRead > 0 => "model" \notin fds' \/ eof["model"]
    BY <1>2, ClassifierFacts DEF OnceMore
  <2>3. ASSUME "model" \in fds'
        PROVE  closed["model"]
    <3>1. sent["model"] > fetched["model"] \/ closed["model"]
      BY <1>1, <2>3 DEF Classifier!Ready
    <3>2. "model" \in Classifier!Sources
      BY ClassifierFacts
    <3>3. Len(Classifier!Lines("model")) = nClusters
      BY <3>2, ClassifierFacts, LineFacts
    <3>4. /\ sent["model"] \in Nat /\ fetched["model"] \in Nat /\ taken["model"] \in Nat
          /\ taken["model"] <= fetched["model"] /\ sent["model"] <= nClusters
      BY <3>2, <3>3, ClassifierFacts DEF Flows
    <3>5. taken["model"] = classifierSize
      BY ClassifierFacts DEF ClustersRead
    <3> QED
      BY <1>3, <3>1, <3>4, <3>5, ClassifierFacts
  <2> QED
    BY <2>2, <2>3
<1> QED
  BY <1>1, <1>2, <1>3, <1>4, ProgramMoves

LEMMA EndStep ==
  ASSUME ClassifierIInv, Classifier!End
  PROVE  ClassifierIInv'
<1>1. /\ classifierPc = "select" /\ classifierPc' = "end" /\ fds' = fds
      /\ modelIs' = modelIs /\ nClusters' = nClusters /\ sent' = sent /\ closed' = closed
      /\ fetched' = fetched /\ taken' = taken /\ eof' = eof /\ line' = line
      /\ classifierSize' = classifierSize /\ classifierId' = classifierId /\ answers' = answers
  BY DEF Classifier!End, Classifier!inputVars, Classifier!argVars, Classifier!fileVars
<1>2. fds' \in (SUBSET fds) \ {{}} /\ classifierSize >= K
  BY <1>1 DEF ClassifierIInv
<1>3. OnceMore'
  <2>1. ExamplesRead' = ExamplesRead
    BY <1>1, SameRead
  <2> QED
    BY <1>1, <2>1, ClassifierFacts DEF OnceMore
<1> QED
  BY <1>1, <1>2, <1>3, ProgramMoves

LEMMA LineTaken ==
  ASSUME ClassifierIInv, modelIs' = modelIs, nClusters' = nClusters, NEW s, NEW got,
         line' \in Classifier!LineSet \cup {NoLine},
         TookCluster(s, got) \/ TookExample(s, got) \/ TookEnd(s, got)
  PROVE  /\ LineIsLast' /\ classifierSize' = ClustersRead'
         /\ classifierSize' \in Nat /\ classifierSize' >= classifierSize
<1>1. classifierSize \in Nat /\ ExamplesRead \in Nat /\ LineIsLast
  BY ClassifierFacts
<1>2. Classifier!LineSet' = Classifier!LineSet
  BY SameInput
<1>3. CASE TookCluster(s, got)
  BY <1>1, <1>2, <1>3 DEF TookCluster, LineIsLast, NoLine
<1>4. CASE TookExample(s, got)
  BY <1>1, <1>2, <1>4 DEF TookExample, LineIsLast, NoLine
<1>5. CASE TookEnd(s, got)
  BY <1>1, <1>2, <1>5 DEF TookEnd, LineIsLast, NoLine
<1> QED
  BY <1>3, <1>4, <1>5

\* A line of the model is a cluster, or its end behind an example.
LEMMA ModelLineStep ==
  ASSUME ClassifierIInv, Classifier!ModelLine
  PROVE  ClassifierIInv'
<1>1. /\ classifierPc = "modelLine" /\ fds' = fds
      /\ modelIs' = modelIs /\ nClusters' = nClusters /\ sent' = sent /\ closed' = closed
      /\ classifierId' = classifierId /\ answers' = answers
  BY DEF Classifier!ModelLine, Classifier!inputVars, Classifier!argVars
<1>2. \/ /\ modelIs # "stdin" /\ "model" \in fds /\ ~eof["model"]
         /\ \E got : /\ Classifier!Take("model", got) /\ Classifier!Add(got)
                     /\ classifierPc' = IF got.type = "C" THEN "stdinLine" ELSE "assert"
      \/ /\ modelIs = "stdin" \/ "model" \notin fds \/ eof["model"]
         /\ classifierPc' = "stdinLine" /\ classifierSize' = classifierSize
         /\ fetched' = fetched /\ taken' = taken /\ eof' = eof /\ line' = line
  BY DEF Classifier!ModelLine, Classifier!modelFile, Classifier!fileVars
<1>3. /\ classifierSize >= K /\ ~eof["stdin"] /\ fds \in (SUBSET fds) \ {{}}
      /\ fds \in (SUBSET Classifier!Sources) \ {{}}
  BY <1>1 DEF ClassifierIInv
<1>4. /\ Classifier!Sources' = Classifier!Sources
  BY <1>1, SameInput
<1>5. CASE /\ modelIs = "stdin" \/ "model" \notin fds \/ eof["model"]
           /\ classifierPc' = "stdinLine" /\ classifierSize' = classifierSize
           /\ fetched' = fetched /\ taken' = taken /\ eof' = eof /\ line' = line
  <2>1. OnceMore'
    BY <1>1, <1>5 DEF OnceMore
  <2> QED
    BY <1>1, <1>3, <1>5, <2>1, ProgramMoves
<1>6. CASE /\ modelIs # "stdin" /\ "model" \in fds /\ ~eof["model"]
           /\ \E got : /\ Classifier!Take("model", got) /\ Classifier!Add(got)
                       /\ classifierPc' = IF got.type = "C" THEN "stdinLine" ELSE "assert"
  <2>1. PICK got : /\ Classifier!Take("model", got) /\ Classifier!Add(got)
                   /\ classifierPc' = IF got.type = "C" THEN "stdinLine" ELSE "assert"
    BY <1>6
  <2>2. "model" \in Classifier!Sources /\ Classifier!modelFile = "model"
    BY <1>6, ClassifierFacts
  <2>3. /\ Flows' /\ line' \in Classifier!LineSet \cup {NoLine}
        /\ TookCluster("model", got) \/ TookExample("model", got) \/ TookEnd("model", got)
    BY <1>1, <1>6, <2>1, <2>2, TakeFacts
  <2>4. /\ LineIsLast' /\ classifierSize' = ClustersRead'
        /\ classifierSize' \in Nat /\ classifierSize' >= classifierSize
    BY <1>1, <2>3, LineTaken
  <2>5. ~TookExample("model", got)
    BY DEF TookExample
  <2>6. ExamplesRead' = ExamplesRead /\ eof'["stdin"] = eof["stdin"]
    BY <2>3, <2>5, ClassifierFacts DEF TookCluster, TookEnd
  <2>7. Answered'
    BY <1>1, <2>6, ClassifierFacts DEF Answered
  <2>8. classifierSize' >= K
    BY <1>3, <2>4, ClassifierFacts
  <2>9. CASE TookCluster("model", got)
    <3>1. got.type = "C" /\ classifierSize < nClusters
      BY <2>9 DEF TookCluster
    <3>2. classifierPc' = "stdinLine" /\ nClusters # K
      BY <1>3, <2>1, <3>1, ClassifierFacts
    <3>3. OnceMore' /\ Classifier!ModelUnderstood'
      BY <1>1, <3>2 DEF OnceMore, Classifier!ModelUnderstood
    <3> QED
      BY <1>1, <1>3, <1>4, <2>3, <2>4, <2>6, <2>7, <2>8, <3>2, <3>3 DEF ClassifierIInv
  <2>10. CASE TookEnd("model", got)
    <3>1. eof'["model"] /\ got = line /\ line' = line
      BY <2>2, <2>10, ClassifierFacts DEF TookEnd
    <3>2. line.type \in {"C", "E"}
      <4>1. classifierSize > 0
        BY <1>3, ClassifierFacts
      <4>2. line.type # "none"
        BY <4>1, ClassifierFacts DEF LineIsLast
      <4> QED
        BY <4>2, ClassifierFacts, LineSetIs DEF LineIsLast, NoLine, ClusterLine, ExampleLine
    <3>3. line.type = "E" => nClusters > K
      <4>1. line.type = "E" => ExamplesRead > 0
        BY ClassifierFacts DEF LineIsLast
      <4>2. ExamplesRead > 0 => nClusters # K
        BY <1>6, ClassifierFacts DEF OnceMore
      <4> QED
        BY <4>1, <4>2, ClassifierFacts
    <3>4. OnceMore'
      BY <1>1, <2>1, <3>1, <3>2, <3>3, ClassifierFacts DEF OnceMore
    <3>5. Classifier!ModelUnderstood'
      BY <1>1, <1>6, <2>1, <3>1, <3>2, <3>3 DEF Classifier!ModelUnderstood
    <3>6. classifierPc' \in {"stdinLine", "assert"}
      BY <2>1
    <3> QED
      BY <1>1, <1>3, <1>4, <2>3, <2>4, <2>6, <2>7, <2>8, <3>4, <3>5, <3>6 DEF ClassifierIInv
  <2> QED
    BY <2>3, <2>5, <2>9, <2>10
<1> QED
  BY <1>2, <1>5, <1>6

LEMMA OneMoreAnswer ==
  ASSUME Answered, NEW got, got.type = "E", got.n \in Nat, Classifier!Answer(got)
  PROVE  /\ answers' \in Seq([id : Nat, ex : Nat, unknown : BOOLEAN])
         /\ Len(answers') = Len(answers) + 1 /\ classifierId' = Len(answers') /\ Len(answers) \in Nat
         /\ \A i \in 1..Len(answers) : answers'[i] = answers[i]
         /\ answers'[Len(answers) + 1].id = Len(answers)
         /\ answers'[Len(answers) + 1].ex = got.n
<1> DEFINE A == [id : Nat, ex : Nat, unknown : BOOLEAN]
<1>1. answers \in Seq(A) /\ classifierId = Len(answers) /\ Len(answers) \in Nat
  BY DEF Answered
<1>2. PICK unknown \in BOOLEAN :
        answers' = Append(answers, [id |-> classifierId, ex |-> got.n, unknown |-> unknown])
  BY DEF Classifier!Answer
<1>3. classifierId' = classifierId + 1
  BY DEF Classifier!Answer
<1> DEFINE x == [id |-> classifierId, ex |-> got.n, unknown |-> unknown]
<1>4. x \in A /\ x.id = Len(answers) /\ x.ex = got.n
  BY <1>1
<1>5. answers' = Append(answers, x)
  BY <1>2
<1> HIDE DEF x, A
<1>6. /\ answers' \in Seq(A) /\ Len(answers') = Len(answers) + 1
      /\ \A i \in 1..Len(answers) : answers'[i] = answers[i]
      /\ answers'[Len(answers) + 1] = x
  BY <1>1, <1>4, <1>5
<1> QED
  BY <1>1, <1>3, <1>4, <1>6 DEF A

\* An example is answered when it is read, and the last once more at the end.
LEMMA StdinLineStep ==
  ASSUME ClassifierIInv, Classifier!StdinLine
  PROVE  ClassifierIInv'
<1>1. /\ classifierPc = "stdinLine" /\ classifierPc' = "select" /\ fds' = fds
      /\ modelIs' = modelIs /\ nClusters' = nClusters /\ sent' = sent /\ closed' = closed
  BY DEF Classifier!StdinLine, Classifier!inputVars, Classifier!argVars
<1>2. \/ \E got : Classifier!Take("stdin", got) /\ Classifier!Add(got) /\ Classifier!Answer(got)
      \/ /\ classifierSize' = classifierSize /\ classifierId' = classifierId /\ answers' = answers
         /\ fetched' = fetched /\ taken' = taken /\ eof' = eof /\ line' = line
  BY DEF Classifier!StdinLine, Classifier!fileVars
<1>3. /\ classifierSize >= K /\ ~eof["stdin"] /\ fds \in (SUBSET fds) \ {{}}
      /\ fds \in (SUBSET Classifier!Sources) \ {{}}
  BY <1>1 DEF ClassifierIInv
<1>4. /\ Classifier!Sources' = Classifier!Sources
  BY <1>1, SameInput
<1>5. modelIs # "stdin" /\ nClusters = K => "model" \notin fds \/ eof["model"]
  BY <1>1, ClassifierFacts DEF OnceMore
<1>6. CASE /\ classifierSize' = classifierSize /\ classifierId' = classifierId /\ answers' = answers
           /\ fetched' = fetched /\ taken' = taken /\ eof' = eof /\ line' = line
  <2>1. OnceMore'
    BY <1>1, <1>5, <1>6 DEF OnceMore
  <2> QED
    BY <1>1, <1>3, <1>6, <2>1, ProgramMoves
<1>7. CASE \E got : Classifier!Take("stdin", got) /\ Classifier!Add(got) /\ Classifier!Answer(got)
  <2>1. PICK got : Classifier!Take("stdin", got) /\ Classifier!Add(got) /\ Classifier!Answer(got)
    BY <1>7
  <2>2. "stdin" \in Classifier!Sources
    BY ClassifierFacts
  <2>3. /\ Flows' /\ line' \in Classifier!LineSet \cup {NoLine}
        /\ TookCluster("stdin", got) \/ TookExample("stdin", got) \/ TookEnd("stdin", got)
    BY <1>1, <1>3, <2>1, <2>2, TakeFacts
  <2>4. /\ LineIsLast' /\ classifierSize' = ClustersRead'
        /\ classifierSize' \in Nat /\ classifierSize' >= classifierSize
    BY <1>1, <2>3, LineTaken
  <2>5. modelIs # "stdin" => eof'["model"] = eof["model"]
    BY <2>3, ClassifierFacts DEF TookCluster, TookExample, TookEnd
  <2>6. OnceMore' /\ Classifier!ModelUnderstood' /\ classifierSize' >= K
    BY <1>1, <1>3, <1>5, <2>4, <2>5, ClassifierFacts DEF OnceMore, Classifier!ModelUnderstood
  <2>7. /\ Answered /\ Len(answers) = ExamplesRead /\ ExamplesRead \in Nat
        /\ \A i \in 1..Len(answers) : answers[i].id = i - 1 /\ answers[i].ex = i
    BY <1>3, ClassifierFacts DEF Answered
  <2>8. Answered'
    <3>1. CASE got.type # "E"
      <4>1. answers' = answers /\ classifierId' = classifierId
        BY <2>1, <3>1 DEF Classifier!Answer
      <4>2. ExamplesRead' = ExamplesRead
        BY <2>3, <3>1 DEF TookCluster, TookExample, TookEnd
      <4> QED
        BY <2>7, <4>1, <4>2 DEF Answered
    <3>2. CASE got.type = "E"
      <4>1. \/ ExamplesRead' = ExamplesRead + 1 /\ got.n = ExamplesRead + 1
            \/ ExamplesRead' = ExamplesRead /\ got.n = ExamplesRead /\ ExamplesRead > 0 /\ eof'["stdin"]
        <5>1. CASE TookExample("stdin", got)
          BY <5>1 DEF TookExample
        <5>2. CASE TookEnd("stdin", got)
          BY <2>2, <3>2, <5>2, ClassifierFacts DEF TookEnd, LineIsLast
        <5>3. ~TookCluster("stdin", got)
          BY <3>2 DEF TookCluster
        <5> QED
          BY <2>3, <5>1, <5>2, <5>3
      <4>2. /\ answers' \in Seq([id : Nat, ex : Nat, unknown : BOOLEAN])
            /\ Len(answers') = Len(answers) + 1 /\ classifierId' = Len(answers')
            /\ \A i \in 1..Len(answers) : answers'[i] = answers[i]
            /\ answers'[Len(answers) + 1].id = Len(answers)
            /\ answers'[Len(answers) + 1].ex = got.n
        BY <2>1, <2>7, <3>2, <4>1, OneMoreAnswer
      <4>3. \A i \in 1..Len(answers') : /\ answers'[i].id = i - 1
                                        /\ answers'[i].ex = IF i <= ExamplesRead' THEN i ELSE ExamplesRead'
        <5> SUFFICES ASSUME NEW i \in 1..Len(answers')
                     PROVE  /\ answers'[i].id = i - 1
                            /\ answers'[i].ex = IF i <= ExamplesRead' THEN i ELSE ExamplesRead'
          OBVIOUS
        <5>1. CASE i \in 1..Len(answers)
          BY <2>7, <4>1, <4>2, <5>1
        <5>2. CASE i = Len(answers) + 1
          BY <2>7, <4>1, <4>2, <5>2
        <5> QED
          BY <2>7, <4>2, <5>1, <5>2
      <4> QED
        BY <2>7, <4>1, <4>2, <4>3 DEF Answered
    <3> QED
      BY <3>1, <3>2
  <2> QED
    BY <1>1, <1>3, <1>4, <2>3, <2>4, <2>6, <2>8 DEF ClassifierIInv
<1> QED
  BY <1>2, <1>6, <1>7

LEMMA ClassifierStays ==
  ASSUME ClassifierIInv, UNCHANGED classifierVars
  PROVE  ClassifierIInv'
<1>1. /\ modelIs' = modelIs /\ nClusters' = nClusters /\ sent' = sent /\ closed' = closed
      /\ fetched' = fetched /\ taken' = taken /\ eof' = eof /\ line' = line /\ fds' = fds
      /\ classifierPc' = classifierPc /\ classifierSize' = classifierSize
      /\ classifierId' = classifierId /\ answers' = answers
  BY DEF classifierVars
<1>2. /\ Classifier!Sources' = Classifier!Sources /\ (AnInput' <=> AnInput)
      /\ \A s : Classifier!Lines(s)' = Classifier!Lines(s)
  BY <1>1, SameInput
<1>3. Flows'
  BY <1>1, <1>2, ClassifierFacts DEF Flows
<1> QED
  BY <1>1, <1>3, ProgramStays

LEMMA ClassifierStep == ClassifierIInv /\ [ProgramNext]_programVars => ClassifierIInv'
<1> SUFFICES ASSUME ClassifierIInv, [ProgramNext]_programVars
             PROVE  ClassifierIInv'
  OBVIOUS
<1>1. CASE Classifier!Next
  <2>1. ASSUME NEW s \in Classifier!Sources, Classifier!Write(s)
        PROVE  ClassifierIInv'
    BY <2>1, InputStep
  <2>2. CASE Classifier!Load
    BY <2>2, LoadStep
  <2>3. CASE Classifier!Loaded
    BY <2>3, ModelComplete
  <2>4. CASE Classifier!Select
    BY <2>4, SelectStep
  <2>5. CASE Classifier!ModelLine
    BY <2>5, ModelLineStep
  <2>6. CASE Classifier!StdinLine
    BY <2>6, StdinLineStep
  <2>7. CASE Classifier!End
    BY <2>7, EndStep
  <2>8. CASE Classifier!Stopped
    <3>1. UNCHANGED classifierVars
      BY <2>8 DEF Classifier!Stopped, Classifier!vars, Classifier!inputVars, Classifier!argVars,
                  Classifier!fileVars, classifierVars
    <3> QED
      BY <3>1, ClassifierStays
  <2> QED
    BY <1>1, <2>1, <2>2, <2>3, <2>4, <2>5, <2>6, <2>7, <2>8
    DEF Classifier!Next, Classifier!Program
<1>2. CASE ~Classifier!Next
  <2>1. UNCHANGED classifierVars
    BY <1>2 DEF ProgramNext, programVars, InEet, InClassifier, InDetection, InOffline
  <2> QED
    BY <2>1, ClassifierStays
<1> QED
  BY <1>1, <1>2

LEMMA ClassifierInvariance == ProgramSpec => []ClassifierIInv
<1>1. ProgramInit => ClassifierIInv
  BY ClassifierInit
<1>2. ClassifierIInv /\ [ProgramNext]_programVars => ClassifierIInv'
  BY ClassifierStep
<1> QED
  BY <1>1, <1>2, PTL DEF ProgramSpec

\* The classifier of partials answers the examples in order, each once, but for the last
\* when its input ends behind it; its model is a prefix of what it has read and is
\* complete before any answer; it fails only at the end of a model with an input of its
\* own and more clusters than kParam, behind an example (partials/classifier.c): for any
\* kParam, any model and any number of examples, whatever select() sees.
THEOREM ClassifierIsSafe == ProgramSpec => []ClassifierInv
<1>1. ClassifierIInv => ClassifierInv
  <2> SUFFICES ASSUME ClassifierIInv
               PROVE  Classifier!Inv
    BY DEF ClassifierInv
  <2>1. /\ answers \in Seq([id : Nat, ex : Nat, unknown : BOOLEAN])
        /\ classifierId = Len(answers) /\ Len(answers) \in Nat /\ DOMAIN answers = 1..Len(answers)
        /\ \A i \in 1..Len(answers) : /\ answers[i].id = i - 1
                                      /\ answers[i].ex = IF i <= ExamplesRead THEN i ELSE ExamplesRead
        /\ \/ Len(answers) = ExamplesRead
           \/ eof["stdin"] /\ Len(answers) = ExamplesRead + 1 /\ ExamplesRead > 0
    BY ClassifierFacts DEF Answered
  <2>2. ExamplesRead \in 0..NExamples /\ NExamples \in Nat /\ (eof["stdin"] => ExamplesRead = NExamples)
    BY ClassifierFacts
  <2>3. \A i \in DOMAIN answers :
          /\ answers[i].ex \in 1..NExamples /\ answers[i].id = i - 1
          /\ answers[i].ex = i \/ (i = NExamples + 1 /\ answers[i].ex = NExamples /\ eof["stdin"])
    <3> SUFFICES ASSUME NEW i \in 1..Len(answers)
                 PROVE  /\ answers[i].ex \in 1..NExamples /\ answers[i].id = i - 1
                        /\ answers[i].ex = i
                           \/ (i = NExamples + 1 /\ answers[i].ex = NExamples /\ eof["stdin"])
      BY <2>1
    <3>1. CASE i <= ExamplesRead
      BY <2>1, <2>2, <3>1
    <3>2. CASE ~(i <= ExamplesRead)
      <4>1. eof["stdin"] /\ i = ExamplesRead + 1 /\ ExamplesRead > 0
        BY <2>1, <2>2, <3>2
      <4> QED
        BY <2>1, <2>2, <3>2, <4>1
    <3> QED
      BY <3>1, <3>2
  <2>4. classifierId \in 0..(NExamples + 1)
    BY <2>1, <2>2
  <2>5. \A s \in Classifier!Sources :
          /\ taken[s] \in 0..fetched[s] /\ fetched[s] \in 0..sent[s]
          /\ sent[s] \in 0..Len(Classifier!Lines(s))
          /\ closed[s] => sent[s] = Len(Classifier!Lines(s))
          /\ eof[s] => closed[s] /\ taken[s] = sent[s]
    <3> SUFFICES ASSUME NEW s \in Classifier!Sources
                 PROVE  /\ taken[s] \in 0..fetched[s] /\ fetched[s] \in 0..sent[s]
                        /\ sent[s] \in 0..Len(Classifier!Lines(s))
                        /\ closed[s] => sent[s] = Len(Classifier!Lines(s))
                        /\ eof[s] => closed[s] /\ taken[s] = sent[s]
      OBVIOUS
    <3> DEFINE n == Len(Classifier!Lines(s))
    <3>1. n \in Nat
      BY ClassifierFacts, LineFacts, SourceFacts
    <3>2. /\ taken[s] \in Nat /\ fetched[s] \in Nat /\ sent[s] \in Nat
          /\ taken[s] <= fetched[s] /\ fetched[s] <= sent[s] /\ sent[s] <= n
          /\ closed[s] => sent[s] = n
          /\ eof[s] => closed[s] /\ taken[s] = sent[s]
      BY ClassifierFacts DEF Flows
    <3> HIDE DEF n
    <3>3. taken[s] \in 0..fetched[s] /\ fetched[s] \in 0..sent[s] /\ sent[s] \in 0..n
      BY <3>1, <3>2
    <3> QED
      BY <3>2, <3>3 DEF n
  <2>6. Classifier!TypeOK
    <3>1. /\ modelIs \in {"stdin", "file", "pipe"} /\ nClusters \in K..MaxClusters
          /\ line \in Classifier!LineSet \cup {[type |-> "none", n |-> 0]}
          /\ classifierSize \in 0..nClusters
      BY ClassifierFacts DEF AnInput, LineIsLast, NoLine
    <3>2. /\ fds \in (SUBSET Classifier!Sources) \ {{}}
          /\ classifierPc \in {"load", "select", "modelLine", "stdinLine", "end", "assert"}
      BY DEF ClassifierIInv
    <3> QED
      BY <2>3, <2>4, <2>5, <3>1, <3>2 DEF Classifier!TypeOK
  <2>7. Classifier!InOrder
    BY <2>3 DEF Classifier!InOrder
  <2>8. Classifier!ModelIsPrefix
    <3>1. ClustersRead <= taken[Classifier!modelFile]
      BY ClassifierFacts, ReadFacts
    <3> QED
      BY <3>1, ClassifierFacts DEF Classifier!ModelIsPrefix, ClassifierIInv
  <2> QED
    BY <2>6, <2>7, <2>8, ClassifierFacts DEF Classifier!Inv
<1> QED
  BY <1>1, ClassifierInvariance, PTL

-----------------------------------------------------------------------------
\* The training (Training).
Top == 2 * Unit * Offline!MaxVal

\* Arithmetic.
LEMMA Products ==
  ASSUME NEW a \in Nat, NEW b \in Nat, NEW c \in Nat
  PROVE  a * c \in Nat /\ (a <= b => a * c <= b * c /\ c * a <= c * b) /\ a * c = c * a
OBVIOUS

LEMMA Quotient ==
  ASSUME NEW a \in Nat, NEW k \in Nat \ {0}
  PROVE  /\ a \div k \in Nat /\ (a \div k) * k <= a /\ a < (a \div k + 1) * k
OBVIOUS

LEMMA QuotientBound ==
  ASSUME NEW a \in Nat, NEW k \in Nat \ {0}, NEW b \in Nat, a <= b * k
  PROVE  a \div k \in 0..b
OBVIOUS

LEMMA QuotientIs ==
  ASSUME NEW a \in Nat, NEW k \in Nat \ {0}, NEW b \in Nat, b * k <= a, a < (b + 1) * k
  PROVE  a \div k = b
OBVIOUS

LEMMA BelowMember ==
  ASSUME NEW S, IsFiniteSet(S), NEW v \in [S -> Nat], NEW x \in S
  PROVE  v[x] \in 0..SumOf(v, S) /\ SumOf(v, S) \in Nat
<1>1. S \in SUBSET S
  OBVIOUS
<1>2. /\ SumOf(v, S) = v[x] + Cardinality(Below(v, S \ {x})) /\ v[x] \in Nat
      /\ Cardinality(Below(v, S \ {x})) \in Nat
  BY <1>1, SumIsSize, BelowAdds
<1>3. \A a, b, c \in Nat : a = b + c => b \in 0..a
  OBVIOUS
<1>4. SumOf(v, S) \in Nat
  BY SumIsSize
<1> QED
  BY <1>2, <1>3, <1>4, Zenon

LEMMA BoundedByTotal ==
  ASSUME NEW S \in SUBSET Nat, IsFiniteSet(S)
  PROVE  \E n \in Nat : S \subseteq 0..n
<1> DEFINE v == [x \in S |-> x]
<1>1. v \in [S -> Nat]
  OBVIOUS
<1>2. \A x \in S : v[x] = x
  OBVIOUS
<1> HIDE DEF v
<1>3. SumOf(v, S) \in Nat
  BY <1>1, SumIsSize
<1>4. \A x \in S : v[x] \in 0..SumOf(v, S)
  BY <1>1, BelowMember, Zenon
<1> QED
  BY <1>2, <1>3, <1>4

LEMMA MaxOfFinite ==
  ASSUME NEW S \in SUBSET Nat, IsFiniteSet(S), S # {}
  PROVE  Offline!Max(S) \in S /\ \A y \in S : y <= Offline!Max(S)
<1>1. PICK n \in Nat : S \subseteq 0..n
  BY BoundedByTotal
<1>2. n + 1 \in Nat /\ S \in SUBSET (0..((n + 1) - 1))
  BY <1>1
<1>3. Offline!Max(S) = Detection!Max(S)
  BY Zenon DEF Offline!Max, Detection!Max
<1> QED
  BY <1>2, <1>3, MaxOf

LEMMA OfflineConstants ==
  /\ K \in Nat \ {0} /\ TrainingSize \in Nat /\ MaxIteration \in Nat \ {0} /\ Unit \in Nat
  /\ Values \subseteq Nat /\ IsFiniteSet(Values)
  /\ Offline!MaxVal \in Nat /\ \A x \in Values : x \in 0..Offline!MaxVal
  /\ Top \in Nat /\ Unit * Offline!MaxVal \in Nat /\ Unit * Offline!MaxVal <= Top
<1>1. /\ K \in Nat \ {0} /\ TrainingSize \in Nat /\ MaxIteration \in Nat \ {0} /\ Unit \in Nat
      /\ Values \subseteq Nat /\ IsFiniteSet(Values)
  <2>1. Offline!TrainingAssumption
    BY ProgramsAssumption
  <2> QED
    BY <2>1, Zenon DEF Offline!TrainingAssumption, Offline!IsFiniteSet, IsFiniteSet
<1>2. Values \cup {0} \in SUBSET Nat /\ IsFiniteSet(Values \cup {0}) /\ Values \cup {0} # {}
  <2>1. IsFiniteSet(Values \cup {0})
    BY <1>1, FS_AddElement
  <2> QED
    BY <1>1, <2>1
<1>3. Offline!Max(Values \cup {0}) \in Nat /\ \A x \in Values : x \in 0..Offline!Max(Values \cup {0})
  BY <1>2, MaxOfFinite
<1>4. Offline!MaxVal \in Nat /\ \A x \in Values : x \in 0..Offline!MaxVal
  BY <1>3 DEF Offline!MaxVal
<1> HIDE DEF Offline!MaxVal
<1>5. /\ Unit * Offline!MaxVal \in Nat
      /\ 2 * Unit * Offline!MaxVal = 2 * (Unit * Offline!MaxVal)
  BY <1>1, <1>4
<1> QED
  BY <1>1, <1>4, <1>5 DEF Top

\* Distances, and the cluster that is nearest.
Centers == 0..Top
Farthest == Top + Unit * Offline!MaxVal

LEMMA DistanceType ==
  ASSUME NEW c \in Centers, NEW x \in Values
  PROVE  Offline!Distance(c, x) \in 0..Farthest
<1>1. x \in 0..Offline!MaxVal /\ Offline!MaxVal \in Nat /\ Unit \in Nat /\ c \in 0..Top /\ Top \in Nat
  BY OfflineConstants DEF Centers
<1> HIDE DEF Offline!MaxVal, Top
<1>2. Unit * x \in Nat /\ Unit * x <= Unit * Offline!MaxVal /\ Unit * Offline!MaxVal \in Nat
  BY <1>1, Products
<1>3. \A a, b, u \in Nat : c \in 0..b /\ a <= u =>
         (IF a - c < 0 THEN -(a - c) ELSE a - c) \in 0..(b + u)
  BY <1>1
<1>4. Offline!Distance(c, x) = IF Unit * x - c < 0 THEN -(Unit * x - c) ELSE Unit * x - c
  BY Zenon DEF Offline!Distance, Offline!Abs
<1> QED
  BY <1>1, <1>2, <1>3, <1>4 DEF Farthest

\* The places of D with the smallest distance to x.
Best(cs, D, x) == {k \in D : \A j \in D : Offline!Distance(cs[k], x) <= Offline!Distance(cs[j], x)}

LEMMA NearestFacts ==
  ASSUME NEW D \in SUBSET Nat, IsFiniteSet(D), D # {}, NEW cs \in [D -> Centers], NEW x \in Values
  PROVE  /\ Offline!Nearest(cs, x) \in Best(cs, D, x)
         /\ \A k \in Best(cs, D, x) : k <= Offline!Nearest(cs, x)
         /\ Offline!Nearest(cs, x) \in D
<1> DEFINE dist(k) == Offline!Distance(cs[k], x)
           R == {d \in Nat : \E k \in D : d = dist(k)}
<1>1. \A k \in D : dist(k) \in Nat
  <2>1. Farthest \in Nat
    BY OfflineConstants DEF Farthest
  <2>2. \A k \in D : dist(k) \in 0..Farthest
    BY DistanceType
  <2> HIDE DEF dist
  <2> QED
    BY <2>1, <2>2
<1> HIDE DEF dist
<1>2. R # {} /\ R \in SUBSET Nat
  BY <1>1
<1>3. PICK m \in R : \A d \in R : m <= d
  <2> HIDE DEF R
  <2> QED
    BY <1>2, LeastNat
<1>4. PICK k \in D : m = dist(k)
  BY <1>3
<1>5. \A j \in D : dist(k) <= dist(j)
  BY <1>1, <1>3, <1>4
<1>6. k \in Best(cs, D, x)
  BY <1>5 DEF Best, dist
<1>7. Best(cs, D, x) \in SUBSET D
  BY DEF Best
<1>8. IsFiniteSet(Best(cs, D, x))
  BY <1>7, FS_Subset
<1>9. Best(cs, D, x) \in SUBSET Nat /\ Best(cs, D, x) # {}
  BY <1>6, <1>7
<1>10. Offline!Nearest(cs, x) = Offline!Max(Best(cs, D, x))
  <2>1. DOMAIN cs = D
    OBVIOUS
  <2>2. Offline!Nearest(cs, x) = Offline!Max(Best(cs, DOMAIN cs, x))
    BY Zenon DEF Offline!Nearest, Best
  <2> QED
    BY <2>1, <2>2
<1> QED
  BY <1>7, <1>8, <1>9, <1>10, MaxOfFinite

\* The same clusters with other ids have the same nearest one.
LEMMA NearestShifts ==
  ASSUME NEW n \in Nat \ {0}, NEW b \in Nat, NEW cs \in [1..n -> Centers], NEW x \in Values,
         NEW ds \in [(b + 1)..(b + n) -> Centers], \A k \in 1..n : ds[b + k] = cs[k]
  PROVE  Offline!Nearest(ds, x) = b + Offline!Nearest(cs, x)
<1> DEFINE C == 1..n
           D == (b + 1)..(b + n)
           p == Offline!Nearest(cs, x)
           q == Offline!Nearest(ds, x)
<1>1. /\ C \in SUBSET Nat /\ IsFiniteSet(C) /\ C # {}
      /\ D \in SUBSET Nat /\ IsFiniteSet(D) /\ D # {}
  <2>1. IsFiniteSet(C) /\ IsFiniteSet(D)
    BY FS_Interval
  <2>2. 1 \in C /\ b + 1 \in D
    OBVIOUS
  <2>3. C \in SUBSET Nat /\ D \in SUBSET Nat
    OBVIOUS
  <2> HIDE DEF C, D
  <2> QED
    BY <2>1, <2>2, <2>3
<1>2. \A k \in C : b + k \in D /\ ds[b + k] = cs[k]
  OBVIOUS
<1>3. \A j \in D : j - b \in C /\ j = b + (j - b) /\ ds[j] = cs[j - b]
  OBVIOUS
<1>4. \A k \in C : k \in Best(cs, C, x) <=> b + k \in Best(ds, D, x)
  <2> HIDE DEF C, D
  <2> QED
    BY <1>2, <1>3 DEF Best
<1>5. /\ p \in Best(cs, C, x) /\ p \in C /\ \A k \in Best(cs, C, x) : k <= p
  BY <1>1, NearestFacts
<1>6. /\ q \in Best(ds, D, x) /\ q \in D /\ \A k \in Best(ds, D, x) : k <= q
  BY <1>1, NearestFacts
<1> HIDE DEF p, q
<1>7. b + p <= q
  <2> HIDE DEF C, D
  <2> QED
    BY <1>4, <1>5, <1>6
<1>8. q - b <= p
  <2>1. q - b \in C /\ q = b + (q - b)
    BY <1>3, <1>6
  <2>2. q - b \in Best(cs, C, x)
    BY <1>4, <1>6, <2>1
  <2> QED
    BY <1>5, <2>2
<1>9. p \in Nat /\ q \in Nat
  BY <1>1, <1>5, <1>6
<1>10. \A i, j \in Nat : b + i <= j /\ j - b <= i => j = b + i
  OBVIOUS
<1>11. q = b + p
  BY <1>7, <1>8, <1>9, <1>10, Zenon
<1> QED
  BY <1>11 DEF p, q

\* A sum over the places in S, as k-means and the model take it.
AddsEach(g, v, S) ==
  g = [s \in SUBSET S |-> IF s = {} THEN 0 ELSE v[First(s)] + g[s \ {First(s)}]]
AddsCount(g, m, S) ==
  g = [s \in SUBSET S |-> IF s = {} THEN 0 ELSE m[First(s)].n + g[s \ {First(s)}]]

LEMMA EachDef ==
  ASSUME NEW v, NEW S
  PROVE  Offline!MapThenSumSet(LAMBDA i : v[i], S) = (CHOOSE g : AddsEach(g, v, S))[S]
BY Zenon DEF Offline!MapThenSumSet, Offline!MapThenFoldSet, AddsEach, First

LEMMA CountDef ==
  ASSUME NEW m, NEW S
  PROVE  Offline!MapThenSumSet(LAMBDA i : m[i].n, S) = (CHOOSE g : AddsCount(g, m, S))[S]
BY Zenon DEF Offline!MapThenSumSet, Offline!MapThenFoldSet, AddsCount, First

LEMMA SumOfEach ==
  ASSUME NEW S, IsFiniteSet(S), NEW v, NEW w \in [S -> Nat], \A i \in S : w[i] = v[i]
  PROVE  Offline!MapThenSumSet(LAMBDA i : v[i], S) = SumOf(w, S)
<1>1. ASSUME NEW g
      PROVE  AddsEach(g, v, S) <=> Adds(g, w, S)
  <2> DEFINE a(s) == IF s = {} THEN 0 ELSE v[First(s)] + g[s \ {First(s)}]
             b(s) == IF s = {} THEN 0 ELSE w[First(s)] + g[s \ {First(s)}]
  <2>1. \A s \in SUBSET S : a(s) = b(s)
    <3> TAKE s \in SUBSET S
    <3>1. s # {} => First(s) \in S
      BY DEF First
    <3> QED
      BY <3>1
  <2> HIDE DEF a, b
  <2>2. [s \in SUBSET S |-> a(s)] = [s \in SUBSET S |-> b(s)]
    BY <2>1
  <2> QED
    BY <2>2, Zenon DEF Adds, AddsEach, a, b
<1> DEFINE h == CHOOSE g : AddsEach(g, v, S)
<1>2. Adds(h, w, S)
  <2>1. \E g : Adds(g, w, S)
    BY AddsSize
  <2>2. AddsEach(h, v, S)
    BY <1>1, <2>1
  <2> QED
    BY <1>1, <2>2
<1>3. Offline!MapThenSumSet(LAMBDA i : v[i], S) = h[S]
  BY EachDef
<1> HIDE DEF h
<1>4. h[S] = Cardinality(Below(w, S)) /\ SumOf(w, S) = Cardinality(Below(w, S))
  BY <1>2, AddsSize, SumIsSize
<1> QED
  BY <1>3, <1>4, Zenon

LEMMA SumOfCounts ==
  ASSUME NEW S, IsFiniteSet(S), NEW m, NEW w \in [S -> Nat], \A i \in S : w[i] = m[i].n
  PROVE  Offline!MapThenSumSet(LAMBDA i : m[i].n, S) = SumOf(w, S)
<1>1. ASSUME NEW g
      PROVE  AddsCount(g, m, S) <=> Adds(g, w, S)
  <2> DEFINE a(s) == IF s = {} THEN 0 ELSE m[First(s)].n + g[s \ {First(s)}]
             b(s) == IF s = {} THEN 0 ELSE w[First(s)] + g[s \ {First(s)}]
  <2>1. \A s \in SUBSET S : a(s) = b(s)
    <3> TAKE s \in SUBSET S
    <3>1. s # {} => First(s) \in S
      BY DEF First
    <3> QED
      BY <3>1
  <2> HIDE DEF a, b
  <2>2. [s \in SUBSET S |-> a(s)] = [s \in SUBSET S |-> b(s)]
    BY <2>1
  <2> QED
    BY <2>2, Zenon DEF Adds, AddsCount, a, b
<1> DEFINE h == CHOOSE g : AddsCount(g, m, S)
<1>2. Adds(h, w, S)
  <2>1. \E g : Adds(g, w, S)
    BY AddsSize
  <2>2. AddsCount(h, m, S)
    BY <1>1, <2>1
  <2> QED
    BY <1>1, <2>2
<1>3. Offline!MapThenSumSet(LAMBDA i : m[i].n, S) = h[S]
  BY CountDef
<1> HIDE DEF h
<1>4. h[S] = Cardinality(Below(w, S)) /\ SumOf(w, S) = Cardinality(Below(w, S))
  BY <1>2, AddsSize, SumIsSize
<1> QED
  BY <1>3, <1>4, Zenon

\* No more than so many times the largest.
LEMMA SumBound ==
  ASSUME NEW S, IsFiniteSet(S), NEW v \in [S -> Nat], NEW t \in Nat, \A i \in S : v[i] <= t
  PROVE  SumOf(v, S) \in 0..(Cardinality(S) * t) /\ Cardinality(S) * t \in Nat
<1> DEFINE T == S \X (0..(t - 1))
<1>1. Below(v, S) \in SUBSET T
  <2> SUFFICES ASSUME NEW q \in Below(v, S)
               PROVE  q \in T
    OBVIOUS
  <2>1. q \in S \X Nat /\ q[2] < v[q[1]]
    BY DEF Below
  <2>2. q[1] \in S /\ q[2] \in Nat /\ v[q[1]] \in Nat /\ v[q[1]] <= t /\ q = <<q[1], q[2]>>
    BY <2>1
  <2>3. q[2] \in 0..(t - 1)
    BY <2>1, <2>2
  <2> QED
    BY <2>2, <2>3
<1>2. IsFiniteSet(0..(t - 1)) /\ Cardinality(0..(t - 1)) = t
  BY FS_Interval
<1>3. IsFiniteSet(T) /\ Cardinality(T) = Cardinality(S) * t
  BY <1>2, FS_Product
<1>4. IsFiniteSet(Below(v, S)) /\ Cardinality(Below(v, S)) <= Cardinality(T)
  BY <1>1, <1>3, FS_Subset
<1>5. SumOf(v, S) = Cardinality(Below(v, S)) /\ SumOf(v, S) \in Nat /\ Cardinality(T) \in Nat
  BY <1>3, SumIsSize, FS_CardinalityType
<1> QED
  BY <1>3, <1>4, <1>5

\* The members of all clusters are all.
LEMMA SumOfMembers ==
  ASSUME NEW S, IsFiniteSet(S), NEW P, IsFiniteSet(P), NEW f \in [P -> S], NEW v \in [S -> Nat],
         \A k \in S : v[k] = Cardinality({i \in P : f[i] = k})
  PROVE  SumOf(v, S) = Cardinality(P)
<1> DEFINE inside(s) == {i \in P : f[i] \in s}
           h == [s \in SUBSET S |-> Cardinality(inside(s))]
           r == [s \in SUBSET S |-> IF s = {} THEN 0 ELSE v[First(s)] + h[s \ {First(s)}]]
<1>1. \A s \in SUBSET S : h[s] = r[s]
  <2> TAKE s \in SUBSET S
  <2>1. CASE s = {}
    <3>1. inside(s) = {}
      BY <2>1
    <3> QED
      BY <2>1, <3>1, FS_EmptySet
  <2>2. CASE s # {}
    <3> DEFINE k == First(s)
               A == {i \in P : f[i] = k}
               B == inside(s \ {k})
    <3>1. k \in s /\ k \in S /\ s \ {k} \in SUBSET S
      BY <2>2 DEF First
    <3> HIDE DEF k
    <3>2. inside(s) = A \cup B /\ A \cap B = {} /\ A \in SUBSET P /\ B \in SUBSET P
      BY <3>1
    <3> HIDE DEF A, B, inside
    <3>3. IsFiniteSet(A) /\ IsFiniteSet(B)
      BY <3>2, FS_Subset
    <3>4. Cardinality(inside(s)) = Cardinality(A) + Cardinality(B) - Cardinality(A \cap B)
      BY <3>2, <3>3, FS_Union
    <3>5. Cardinality(A) \in Nat /\ Cardinality(B) \in Nat /\ Cardinality(A \cap B) = 0
      BY <3>2, <3>3, FS_CardinalityType, FS_EmptySet
    <3>6. v[k] = Cardinality(A)
      BY <3>1 DEF A
    <3>7. h[s \ {k}] = Cardinality(B) /\ h[s] = Cardinality(inside(s))
      BY <3>1 DEF B
    <3>8. r[s] = v[k] + h[s \ {k}]
      BY <2>2 DEF k
    <3> HIDE DEF h, r
    <3> QED
      BY <3>4, <3>5, <3>6, <3>7, <3>8
  <2> QED
    BY <2>1, <2>2
<1>2. Adds(h, v, S)
  <2>1. h = r
    <3>1. DOMAIN h = SUBSET S /\ DOMAIN r = SUBSET S
      OBVIOUS
    <3> QED
      BY <1>1
  <2> QED
    BY <2>1, Zenon DEF Adds
<1>3. h[S] = Cardinality(P)
  <2>1. inside(S) = P
    OBVIOUS
  <2> QED
    BY <2>1
<1> HIDE DEF h
<1>4. h[S] = Cardinality(Below(v, S)) /\ SumOf(v, S) = Cardinality(Below(v, S))
  BY <1>2, AddsSize, SumIsSize
<1> QED
  BY <1>3, <1>4

\* The places of the clusters of a class in the model.
IdsOf(c) == ((c - 1) * K + 1)..((c - 1) * K + K)

LEMMA IdsFacts ==
  ASSUME NEW n \in Nat
  PROVE  /\ n * K \in Nat
         /\ \A c \in 1..n : /\ (c - 1) * K \in Nat /\ (c - 1) * K + K = c * K
                            /\ IdsOf(c) \subseteq 1..(n * K) /\ IsFiniteSet(IdsOf(c))
                            /\ IdsOf(c) \subseteq Nat
         /\ \A c \in 1..n : \A i \in IdsOf(c) : (i - 1) \div K + 1 = c
         /\ \A i \in 1..(n * K) : \E c \in 1..n : i \in IdsOf(c)
<1>1. K \in Nat \ {0} /\ n * K \in Nat
  <2>1. K \in Nat \ {0}
    BY OfflineConstants
  <2> QED
    BY <2>1, Products
<1>2. ASSUME NEW c \in 1..n
      PROVE  /\ (c - 1) * K \in Nat /\ (c - 1) * K + K = c * K /\ c * K <= n * K /\ c * K \in Nat
             /\ IdsOf(c) \subseteq 1..(n * K) /\ IsFiniteSet(IdsOf(c)) /\ IdsOf(c) \subseteq Nat
  <2>1. c \in Nat /\ c - 1 \in Nat /\ c <= n
    OBVIOUS
  <2>2. (c - 1) * K \in Nat /\ c * K \in Nat /\ c * K <= n * K
    BY <1>1, <2>1, Products
  <2>3. (c - 1) * K + K = c * K
    BY <1>1, <2>1
  <2>4. \A a, b, k \in Nat : k # 0 /\ a + k = b /\ b <= n * K => (a + 1)..(a + k) \subseteq 1..(n * K)
    BY <1>1
  <2>5. IsFiniteSet(((c - 1) * K + 1)..((c - 1) * K + K))
    BY <1>1, <2>2, FS_Interval
  <2> QED
    BY <1>1, <2>2, <2>3, <2>4, <2>5 DEF IdsOf
<1>3. ASSUME NEW c \in 1..n, NEW i \in IdsOf(c)
      PROVE  (i - 1) \div K + 1 = c
  <2>1. (c - 1) * K \in Nat /\ (c - 1) * K + K = c * K /\ c - 1 \in Nat /\ (c - 1) + 1 = c
    BY <1>2
  <2>2. i \in ((c - 1) * K + 1)..((c - 1) * K + K)
    BY DEF IdsOf
  <2>3. i - 1 \in Nat /\ (c - 1) * K <= i - 1 /\ i - 1 < ((c - 1) + 1) * K
    BY <1>1, <2>1, <2>2
  <2>4. (i - 1) \div K = c - 1
    BY <1>1, <2>1, <2>3, QuotientIs
  <2> QED
    BY <2>1, <2>4
<1>4. ASSUME NEW i \in 1..(n * K)
      PROVE  \E c \in 1..n : i \in IdsOf(c)
  <2>1. PICK q \in Nat : q = (i - 1) \div K /\ q * K <= i - 1 /\ i - 1 < (q + 1) * K
    <3>1. i - 1 \in Nat
      BY <1>1
    <3> QED
      BY <1>1, <3>1, Quotient
  <2>2. q < n
    <3> SUFFICES ASSUME ~(q < n)
                 PROVE  FALSE
      OBVIOUS
    <3>1. n <= q
      BY <2>1
    <3>2. n * K <= q * K /\ q * K \in Nat
      BY <1>1, <3>1, Products
    <3> QED
      BY <1>1, <2>1, <3>2
  <2>3. q + 1 \in 1..n /\ (q + 1) - 1 = q
    BY <2>1, <2>2
  <2>4. (q + 1) * K = q * K + K /\ q * K \in Nat
    BY <1>1, <2>1, Products
  <2>5. i \in (q * K + 1)..(q * K + K)
    BY <1>1, <2>1, <2>4
  <2> QED
    BY <2>3, <2>5 DEF IdsOf
<1> QED
  BY <1>1, <1>2, <1>3, <1>4

\* The classes of the training set, and what the training keeps.
ClassType == [class : Classes, values : Seq(Values)]
GoodSet(s) == s \in Seq(ClassType) /\ \A c, d \in DOMAIN s : s[c].class = s[d].class => c = d
ClusterType == [id : Nat, class : Classes, center : Centers, n : Nat, distanceMax : Nat]
CentersOf(m, c) == [i \in IdsOf(c) |-> m[i].center]
CountsOf(m, c) == [i \in IdsOf(c) |-> m[i].n]
Represents(m, c, e) ==
  /\ \A i \in IdsOf(c) : m[i].id = i - 1 /\ m[i].class = e.class
  /\ \A p \in DOMAIN e.values : \E i \in IdsOf(c) :
       /\ i = Offline!Nearest(CentersOf(m, c), e.values[p])
       /\ Offline!Distance(m[i].center, e.values[p]) <= m[i].distanceMax
  /\ SumOf(CountsOf(m, c), IdsOf(c)) = Len(e.values)
OfflineIInv ==
  /\ lines \in Seq(Offline!Line) /\ Len(lines) <= TrainingSize
  /\ offlinePc \in {"read", "init", "kmeans", "describe", "done", "error"}
  /\ GoodSet(set) /\ l \in 1..(Len(set) + 1)
  /\ offlinePc \in {"kmeans", "describe"} => l <= Len(set)
  /\ offlinePc = "read" => l = 1
  /\ centers \in [1..K -> Centers] /\ ls \in [1..K -> 0..Offline!MaxVal]
  /\ iteration \in 0..MaxIteration /\ (offlinePc = "kmeans" => iteration < MaxIteration)
  /\ model \in Seq(ClusterType) /\ Len(model) = (l - 1) * K
  /\ \A c \in 1..(l - 1) : Represents(model, c, set[c])

LEMMA Intervals ==
  /\ \A n, k \in Nat : IsFiniteSet((n + 1)..(n + k)) /\ Cardinality((n + 1)..(n + k)) = k
  /\ \A k \in Nat : IsFiniteSet(1..k) /\ Cardinality(1..k) = k
  /\ \A k \in Nat : IsFiniteSet(0..(k - 1)) /\ Cardinality(0..(k - 1)) = k
<1>1. ASSUME NEW n \in Nat, NEW k \in Nat
      PROVE  IsFiniteSet((n + 1)..(n + k)) /\ Cardinality((n + 1)..(n + k)) = k
  BY FS_Interval
<1>2. ASSUME NEW k \in Nat
      PROVE  IsFiniteSet(1..k) /\ Cardinality(1..k) = k
  BY FS_Interval
<1>3. ASSUME NEW k \in Nat
      PROVE  IsFiniteSet(0..(k - 1)) /\ Cardinality(0..(k - 1)) = k
  BY FS_Interval
<1> QED
  BY <1>1, <1>2, <1>3

LEMMA KPlaces == 1..K \in SUBSET Nat /\ IsFiniteSet(1..K) /\ 1..K # {}
<1>1. K \in Nat \ {0}
  BY OfflineConstants
<1>2. IsFiniteSet(1..K) /\ 1 \in 1..K
  BY <1>1, FS_Interval
<1> QED
  BY <1>1, <1>2

LEMMA ClassAt ==
  ASSUME NEW s, GoodSet(s), NEW c \in 1..Len(s)
  PROVE  s[c].values \in Seq(Values) /\ s[c].class \in Classes /\ Len(s) \in Nat
<1>1. s \in Seq(ClassType)
  BY DEF GoodSet
<1>2. s[c] \in ClassType /\ Len(s) \in Nat
  BY <1>1
<1> QED
  BY <1>2 DEF ClassType

\* What clustering records of the class at hand.
LEMMA DescribedFacts ==
  ASSUME GoodSet(set), l \in 1..Len(set), centers \in [1..K -> Centers], Len(model) \in Nat
  PROVE  LET V == set[l].values
         IN /\ V \in Seq(Values)
            /\ \A k \in 1..K : Offline!Described(k) \in ClusterType
            /\ \A k \in 1..K : /\ Offline!Described(k).id = Len(model) + k - 1
                               /\ Offline!Described(k).class = set[l].class
                               /\ Offline!Described(k).center = centers[k]
                               /\ Offline!Described(k).n =
                                    Cardinality({i \in 1..Len(V) : Offline!Nearest(centers, V[i]) = k})
            /\ \A p \in 1..Len(V) :
                 LET k == Offline!Nearest(centers, V[p])
                 IN k \in 1..K /\ Offline!Distance(centers[k], V[p]) <= Offline!Described(k).distanceMax
<1> DEFINE V == set[l].values
           M(k) == {i \in 1..Len(V) : Offline!Nearest(centers, V[i]) = k}
           far(k) == {0} \cup {Offline!Distance(centers[k], V[i]) : i \in M(k)}
<1>1. V \in Seq(Values) /\ set[l].class \in Classes
  BY ClassAt
<1>2. K \in Nat \ {0} /\ Farthest \in Nat
  BY OfflineConstants DEF Farthest
<1>3. 1..K \in SUBSET Nat /\ IsFiniteSet(1..K) /\ 1..K # {}
  BY KPlaces
<1>4. Len(V) \in Nat /\ \A p \in 1..Len(V) : V[p] \in Values
  BY <1>1
<1>5. \A k : Offline!Members(centers, k) = M(k)
  BY Zenon DEF Offline!Members, Offline!Size, Offline!TrainingSet
<1>6. \A k : Offline!DistanceMax(k) = Offline!Max(far(k))
  BY <1>5, Zenon DEF Offline!DistanceMax, Offline!TrainingSet
<1>7. \A k : Offline!Cardinality(M(k)) = Cardinality(M(k))
  BY Zenon DEF Offline!Cardinality, Cardinality
<1> HIDE DEF V
<1>8. ASSUME NEW k \in 1..K
      PROVE  /\ Cardinality(M(k)) \in Nat /\ far(k) \in SUBSET (0..Farthest) /\ 0 \in far(k)
             /\ Offline!Max(far(k)) \in Nat /\ \A d \in far(k) : d <= Offline!Max(far(k))
  <2>1. IsFiniteSet(1..Len(V)) /\ M(k) \in SUBSET (1..Len(V))
    BY <1>4, FS_Interval
  <2>2. Cardinality(M(k)) \in Nat
    BY <2>1, FS_Subset, FS_CardinalityType
  <2>3. centers[k] \in Centers
    OBVIOUS
  <2>4. \A i \in M(k) : Offline!Distance(centers[k], V[i]) \in 0..Farthest
    BY <1>4, <2>3, DistanceType
  <2>5. far(k) \in SUBSET (0..Farthest) /\ 0 \in far(k)
    BY <1>2, <2>4
  <2> HIDE DEF far
  <2>6. IsFiniteSet(0..Farthest)
    BY <1>2, FS_Interval
  <2>7. IsFiniteSet(far(k)) /\ far(k) \in SUBSET Nat /\ far(k) # {}
    BY <1>2, <2>5, <2>6, FS_Subset
  <2>8. Offline!Max(far(k)) \in far(k) /\ \A d \in far(k) : d <= Offline!Max(far(k))
    BY <2>7, MaxOfFinite
  <2> QED
    BY <2>2, <2>5, <2>7, <2>8
<1>9. ASSUME NEW k \in 1..K
      PROVE  Offline!Described(k) =
               [id |-> Len(model) + k - 1, class |-> set[l].class, center |-> centers[k],
                n |-> Cardinality(M(k)), distanceMax |-> Offline!Max(far(k))]
  BY <1>5, <1>6, <1>7, Zenon DEF Offline!Described, Offline!FirstId
<1> HIDE DEF far, M
<1>10. ASSUME NEW k \in 1..K
       PROVE  /\ Offline!Described(k) \in ClusterType
              /\ Offline!Described(k).id = Len(model) + k - 1
              /\ Offline!Described(k).class = set[l].class
              /\ Offline!Described(k).center = centers[k]
              /\ Offline!Described(k).n = Cardinality(M(k))
              /\ Offline!Described(k).distanceMax = Offline!Max(far(k))
  <2>1. Len(model) + k - 1 \in Nat /\ centers[k] \in Centers
    BY <1>2
  <2> QED
    BY <1>1, <1>8, <1>9, <2>1 DEF ClusterType
<1>11. ASSUME NEW p \in 1..Len(V)
       PROVE  LET k == Offline!Nearest(centers, V[p])
              IN k \in 1..K /\ Offline!Distance(centers[k], V[p]) <= Offline!Described(k).distanceMax
  <2> DEFINE k == Offline!Nearest(centers, V[p])
  <2>1. k \in 1..K
    BY <1>3, <1>4, NearestFacts
  <2>2. p \in M(k)
    BY DEF M
  <2> HIDE DEF k
  <2>3. Offline!Distance(centers[k], V[p]) \in far(k)
    BY <2>2 DEF far
  <2>4. Offline!Distance(centers[k], V[p]) <= Offline!Described(k).distanceMax
    BY <1>8, <1>10, <2>1, <2>3
  <2> QED
    BY <2>1, <2>4 DEF k
<1> QED
  BY <1>1, <1>10, <1>11 DEF V, M

LEMMA RepresentsSame ==
  ASSUME NEW m, NEW m2, NEW c, NEW e, \A i \in IdsOf(c) : m2[i] = m[i], Represents(m, c, e)
  PROVE  Represents(m2, c, e)
<1>1. CentersOf(m2, c) = CentersOf(m, c) /\ CountsOf(m2, c) = CountsOf(m, c)
  BY DEF CentersOf, CountsOf
<1> QED
  BY <1>1, Zenon DEF Represents

LEMMA AppendedAt ==
  ASSUME NEW S, NEW p \in Seq(S), NEW n \in Nat, NEW q \in [1..n -> S]
  PROVE  /\ p \o q \in Seq(S) /\ Len(p \o q) = Len(p) + n /\ Len(p) \in Nat
         /\ \A i \in 1..Len(p) : (p \o q)[i] = p[i]
         /\ \A k \in 1..n : (p \o q)[Len(p) + k] = q[k]
<1>1. q \in Seq(S) /\ Len(q) = n /\ Len(p) \in Nat
  OBVIOUS
<1> QED
  BY <1>1

\* The K clusters that are described come behind the others and represent their class.
LEMMA NewRepresents ==
  ASSUME GoodSet(set), l \in 1..Len(set), centers \in [1..K -> Centers],
         Len(model) = (l - 1) * K, NEW m, 
         \A k \in 1..K : m[(l - 1) * K + k] = Offline!Described(k)
  PROVE  Represents(m, l, set[l])
<1>0. PICK b, c, V, e : b = (l - 1) * K /\ c = l /\ V = set[l].values /\ e = set[l]
  OBVIOUS
<1>1. c \in Nat /\ c \in 1..c /\ b \in Nat /\ Len(model) = b
  <2>1. Len(set) \in Nat
    BY ClassAt
  <2>2. c \in Nat /\ c \in 1..c
    BY <1>0, <2>1
  <2> QED
    BY <1>0, <2>2, IdsFacts
<1>2. K \in Nat \ {0}
  BY OfflineConstants
<1> DEFINE D(k) == Offline!Described(k)
           near(i) == Offline!Nearest(centers, V[i])
           S == (b + 1)..(b + K)
<1>3. /\ V \in Seq(Values)
      /\ \A k \in 1..K : /\ D(k) \in ClusterType /\ D(k).id = b + k - 1 /\ D(k).class = e.class
                         /\ D(k).center = centers[k]
                         /\ D(k).n = Cardinality({i \in 1..Len(V) : near(i) = k})
      /\ \A i \in 1..Len(V) : near(i) \in 1..K
                              /\ Offline!Distance(centers[near(i)], V[i]) <= D(near(i)).distanceMax
  BY <1>0, <1>1, DescribedFacts
<1>4. \A k \in 1..K : m[b + k] = D(k)
  BY <1>0
<1>5. IdsOf(c) = S
  BY <1>0 DEF IdsOf
<1> HIDE DEF D
<1>6. Len(V) \in Nat /\ \A i \in 1..Len(V) : V[i] \in Values
  BY <1>3
<1>7. /\ \A i \in S : i - b \in 1..K /\ b + (i - b) = i
      /\ \A k \in 1..K : b + k \in S /\ k \in Nat
      /\ \A k, j \in Nat : b + k = b + j => k = j
  BY <1>1, <1>2
<1>8. \A i \in S : /\ m[i] \in ClusterType /\ m[i].id = i - 1 /\ m[i].class = e.class
                   /\ m[i].center \in Centers /\ m[i].n \in Nat
  <2> SUFFICES ASSUME NEW i \in S
               PROVE  /\ m[i] \in ClusterType /\ m[i].id = i - 1 /\ m[i].class = e.class
                      /\ m[i].center \in Centers /\ m[i].n \in Nat
    OBVIOUS
  <2>1. PICK k \in 1..K : i = b + k
    BY <1>7
  <2>2. m[i] = D(k) /\ D(k) \in ClusterType /\ D(k).id = b + k - 1 /\ D(k).class = e.class
    BY <1>3, <1>4, <2>1
  <2>3. b + k - 1 = i - 1
    BY <1>1, <1>2, <2>1
  <2> QED
    BY <2>2, <2>3 DEF ClusterType
<1> HIDE DEF near
<1>9. ASSUME NEW p \in DOMAIN V
      PROVE  \E i \in S : /\ i = Offline!Nearest(CentersOf(m, c), V[p])
                          /\ Offline!Distance(m[i].center, V[p]) <= m[i].distanceMax
  <2> DEFINE ds == CentersOf(m, c)
             k == near(p)
  <2>1. p \in 1..Len(V)
    BY <1>3
  <2>2. k \in 1..K /\ Offline!Distance(centers[k], V[p]) <= D(k).distanceMax /\ V[p] \in Values
    BY <1>3, <1>6, <2>1
  <2>3. ds \in [S -> Centers] /\ \A j \in 1..K : ds[b + j] = centers[j]
    <3>1. ds = [i \in S |-> m[i].center]
      BY <1>5 DEF CentersOf
    <3>2. \A j \in 1..K : m[b + j].center = centers[j]
      BY <1>3, <1>4
    <3> QED
      BY <1>7, <1>8, <3>1, <3>2
  <2> HIDE DEF ds
  <2>4. Offline!Nearest(ds, V[p]) = b + Offline!Nearest(centers, V[p])
    BY <1>1, <1>2, <2>2, <2>3, NearestShifts
  <2>5. Offline!Nearest(ds, V[p]) = b + k
    BY <2>4 DEF near
  <2>6. m[b + k] = D(k) /\ D(k).center = centers[k] /\ b + k \in S
    BY <1>3, <1>4, <1>7, <2>2
  <2> HIDE DEF k, S
  <2> QED
    BY <2>2, <2>5, <2>6 DEF ds
<1>10. SumOf(CountsOf(m, c), S) = Len(V)
  <2> DEFINE P == 1..Len(V)
             f == [i \in P |-> b + near(i)]
             v == CountsOf(m, c)
  <2>1. IsFiniteSet(S) /\ IsFiniteSet(P) /\ Cardinality(P) = Len(V)
    <3>1. K \in Nat
      BY <1>2
    <3> QED
      BY <1>1, <1>6, <3>1, Intervals, Zenon
  <2>2. f \in [P -> S] /\ \A i \in P : f[i] = b + near(i) /\ near(i) \in 1..K
    BY <1>3, <1>7
  <2>3. v \in [S -> Nat] /\ \A i \in S : v[i] = m[i].n
    BY <1>5, <1>8 DEF CountsOf
  <2>4. ASSUME NEW i \in S
        PROVE  v[i] = Cardinality({j \in P : f[j] = i})
    <3>1. PICK k \in 1..K : i = b + k
      BY <1>7
    <3>2. v[i] = Cardinality({j \in P : near(j) = k})
      BY <1>3, <1>4, <2>3, <3>1
    <3>3. \A j \in P : near(j) = k <=> f[j] = i
      BY <1>7, <2>2, <3>1
    <3>4. {j \in P : near(j) = k} = {j \in P : f[j] = i}
      BY <3>3
    <3> QED
      BY <3>2, <3>4
  <2> HIDE DEF P, f, v, S
  <2>5. SumOf(v, S) = Cardinality(P)
    BY <2>1, <2>2, <2>3, <2>4, SumOfMembers
  <2> QED
    BY <2>1, <2>5 DEF v
<1>11. Represents(m, c, e)
  <2>1. e.values = V
    BY <1>0
  <2> HIDE DEF S
  <2> QED
    BY <1>5, <1>8, <1>9, <1>10, <2>1 DEF Represents
<1> QED
  BY <1>0, <1>11

\* The steps keep the invariant.
OfflineStays == UNCHANGED <<lines, set, offlinePc, l, centers, ls, global, iteration, model>>

LEMMA DescribeKeeps ==
  ASSUME OfflineIInv, Offline!Describe
  PROVE  OfflineIInv'
<1>0. K \in Nat \ {0}
  BY OfflineConstants
<1> DEFINE q == [k \in 1..K |-> Offline!Described(k)]
<1>1. /\ offlinePc = "describe" /\ model' = model \o q /\ l' = l + 1 /\ offlinePc' = "init"
      /\ lines' = lines /\ set' = set /\ centers' = centers /\ ls' = ls /\ iteration' = iteration
  BY DEF Offline!Describe, Offline!kVars
<1>2. /\ GoodSet(set) /\ l \in 1..Len(set) /\ centers \in [1..K -> Centers] /\ Len(set) \in Nat
      /\ model \in Seq(ClusterType) /\ Len(model) = (l - 1) * K /\ Len(model) \in Nat
  <2>1. /\ GoodSet(set) /\ l \in 1..(Len(set) + 1) /\ l <= Len(set) /\ centers \in [1..K -> Centers]
        /\ model \in Seq(ClusterType) /\ Len(model) = (l - 1) * K
    BY <1>1 DEF OfflineIInv
  <2>2. set \in Seq(ClassType)
    BY <2>1 DEF GoodSet
  <2>3. Len(set) \in Nat /\ Len(model) \in Nat
    BY <2>1, <2>2
  <2>4. \A n \in Nat : l \in 1..(n + 1) /\ l <= n => l \in 1..n
    OBVIOUS
  <2> QED
    BY <2>1, <2>3, <2>4
<1>3. q \in [1..K -> ClusterType] /\ \A k \in 1..K : q[k] = Offline!Described(k)
  BY <1>2, DescribedFacts
<1> HIDE DEF q
<1>4. /\ model' \in Seq(ClusterType) /\ Len(model') = Len(model) + K
      /\ \A i \in 1..Len(model) : model'[i] = model[i]
      /\ \A k \in 1..K : model'[Len(model) + k] = q[k]
  <2>1. K \in Nat
    BY <1>0
  <2>2. model \in Seq(ClusterType) /\ q \in [1..K -> ClusterType]
    BY <1>2, <1>3
  <2>3. /\ model \o q \in Seq(ClusterType) /\ Len(model \o q) = Len(model) + K
        /\ \A i \in 1..Len(model) : (model \o q)[i] = model[i]
        /\ \A k \in 1..K : (model \o q)[Len(model) + k] = q[k]
    BY <2>1, <2>2, AppendedAt, SMTT(20)
  <2>4. model' = model \o q
    BY <1>1
  <2> QED
    BY <2>3, <2>4, Zenon
<1>5. /\ l' \in 1..(Len(set) + 1) /\ l' - 1 = l /\ l - 1 \in Nat /\ l \in Nat
      /\ \A c \in 1..l : c \in 1..(l - 1) \/ c = l
  <2>1. \A n \in Nat : \A i \in 1..n : /\ i + 1 \in 1..(n + 1) /\ (i + 1) - 1 = i /\ i - 1 \in Nat
                                      /\ i \in Nat /\ \A c \in 1..i : c \in 1..(i - 1) \/ c = i
    OBVIOUS
  <2>2. l \in 1..Len(set) /\ Len(set) \in Nat /\ l' = l + 1
    BY <1>1, <1>2
  <2> QED
    BY <2>1, <2>2
<1>6. Len(model') = (l' - 1) * K
  <2>1. l \in 1..l
    BY <1>5
  <2>2. (l - 1) * K + K = l * K
    BY <1>5, <2>1, IdsFacts
  <2> QED
    BY <1>2, <1>4, <1>5, <2>2
<1>7. \A c \in 1..(l - 1) : Represents(model', c, set[c])
  <2> TAKE c \in 1..(l - 1)
  <2>1. Represents(model, c, set[c])
    BY DEF OfflineIInv
  <2>2. IdsOf(c) \subseteq 1..Len(model)
    BY <1>2, <1>5, IdsFacts
  <2>3. \A i \in IdsOf(c) : model'[i] = model[i]
    BY <1>4, <2>2
  <2> QED
    BY <2>1, <2>3, RepresentsSame
<1>8. Represents(model', l, set[l])
  <2>1. \A k \in 1..K : model'[(l - 1) * K + k] = Offline!Described(k)
    BY <1>2, <1>3, <1>4
  <2>2. Len(model) = (l - 1) * K
    BY <1>2
  <2> QED
    BY <1>2, <2>1, <2>2, NewRepresents
<1>9. \A c \in 1..(l' - 1) : Represents(model', c, set'[c])
  BY <1>1, <1>5, <1>7, <1>8
<1> QED
  BY <1>1, <1>4, <1>5, <1>6, <1>9 DEF OfflineIInv

LEMMA KMeansInitKeeps ==
  ASSUME OfflineIInv, Offline!KMeansInit
  PROVE  OfflineIInv'
<1>0. K \in Nat \ {0} /\ MaxIteration \in Nat \ {0}
  BY OfflineConstants
<1>1. /\ offlinePc = "init" /\ l <= Len(set) /\ model' = model /\ l' = l
      /\ lines' = lines /\ set' = set /\ iteration' = 0
      /\ \/ offlinePc' = "error" /\ centers' = centers /\ ls' = ls
         \/ /\ offlinePc' = "kmeans" /\ ~(Len(set[l].values) < K)
            /\ centers' = [k \in 1..K |-> Unit * set[l].values[k]]
            /\ ls' = [k \in 1..K |-> set[l].values[k]]
  BY DEF Offline!KMeansInit, Offline!Start, Offline!TrainingSet, Offline!Size
<1>2. /\ GoodSet(set) /\ l \in 1..Len(set) /\ l \in 1..(Len(set) + 1)
      /\ centers \in [1..K -> Centers] /\ ls \in [1..K -> 0..Offline!MaxVal]
  <2>1. /\ GoodSet(set) /\ l \in 1..(Len(set) + 1) /\ centers \in [1..K -> Centers]
        /\ ls \in [1..K -> 0..Offline!MaxVal]
    BY DEF OfflineIInv
  <2>2. set \in Seq(ClassType)
    BY <2>1 DEF GoodSet
  <2>3. Len(set) \in Nat
    BY <2>2
  <2>4. \A n \in Nat : l \in 1..(n + 1) /\ l <= n => l \in 1..n
    OBVIOUS
  <2> QED
    BY <1>1, <2>1, <2>3, <2>4
<1>3. centers' \in [1..K -> Centers] /\ ls' \in [1..K -> 0..Offline!MaxVal]
  <2>1. CASE offlinePc' = "error"
    BY <1>1, <1>2, <2>1
  <2>2. CASE offlinePc' = "kmeans"
    <3> DEFINE V == set[l].values
    <3>1. V \in Seq(Values) /\ ~(Len(V) < K)
      BY <1>1, <1>2, <2>2, ClassAt
    <3> HIDE DEF V
    <3>2. \A k \in 1..K : V[k] \in Values
      BY <1>0, <3>1
    <3>3. \A k \in 1..K : V[k] \in 0..Offline!MaxVal /\ Unit * V[k] \in Centers
      <4> TAKE k \in 1..K
      <4>1. V[k] \in 0..Offline!MaxVal /\ Offline!MaxVal \in Nat /\ Unit \in Nat
        BY <3>2, OfflineConstants
      <4>2. V[k] \in Nat /\ V[k] <= Offline!MaxVal
        BY <4>1
      <4>3. Unit * V[k] \in Nat /\ Unit * V[k] <= Unit * Offline!MaxVal
        BY <4>1, <4>2, Products
      <4>4. Unit * Offline!MaxVal <= Top /\ Unit * Offline!MaxVal \in Nat /\ Top \in Nat
        BY OfflineConstants
      <4>5. \A a, b, t \in Nat : a <= b /\ b <= t => a \in 0..t
        OBVIOUS
      <4> QED
        BY <4>1, <4>3, <4>4, <4>5, Zenon DEF Centers
    <3>4. centers' = [k \in 1..K |-> Unit * V[k]] /\ ls' = [k \in 1..K |-> V[k]]
      BY <1>1, <2>2 DEF V
    <3> QED
      BY <3>3, <3>4
  <2> QED
    BY <1>1, <2>1, <2>2
<1>4. iteration' \in 0..MaxIteration /\ iteration' < MaxIteration
  BY <1>0, <1>1
<1> QED
  BY <1>1, <1>2, <1>3, <1>4 DEF OfflineIInv

\* The new place of a center.
LEMMA MovedIsCenter ==
  ASSUME GoodSet(set), l \in 1..Len(set), centers \in [1..K -> Centers],
         ls \in [1..K -> 0..Offline!MaxVal], NEW k \in 1..K
  PROVE  Offline!Moved(centers, ls, k) \in Centers
<1> DEFINE V == set[l].values
           M == {i \in 1..Len(V) : Offline!Nearest(centers, V[i]) = k}
           n == Cardinality(M)
           w == [i \in M |-> V[i]]
           top == Offline!MaxVal
           s == ls[k]
<1>1. V \in Seq(Values)
  BY ClassAt
<1>2. /\ Offline!Moved(centers, ls, k) =
           IF M = {} THEN centers[k]
           ELSE (Unit * (s + Offline!MapThenSumSet(LAMBDA i : V[i], M))) \div Offline!Cardinality(M)
      /\ Offline!Cardinality(M) = n
  <2>1. Offline!Members(centers, k) = M
    BY Zenon DEF Offline!Members, Offline!Size, Offline!TrainingSet
  <2>2. Offline!Cardinality(M) = n
    BY Zenon DEF Offline!Cardinality, Cardinality
  <2> QED
    BY <2>1, <2>2, Zenon DEF Offline!Moved, Offline!TrainingSet
<1> HIDE DEF V
<1>3. top \in Nat /\ Unit \in Nat /\ s \in 0..top
  BY OfflineConstants
<1>4. centers[k] \in Centers
  OBVIOUS
<1>5. Len(V) \in Nat /\ \A i \in 1..Len(V) : V[i] \in Values
  BY <1>1
<1>6. IsFiniteSet(1..Len(V)) /\ M \in SUBSET (1..Len(V))
  BY <1>5, Intervals
<1>7. IsFiniteSet(M) /\ n \in Nat
  BY <1>6, FS_Subset, FS_CardinalityType
<1>8. M # {} => n \in Nat \ {0}
  BY <1>7, FS_EmptySet
<1>9. w \in [M -> Nat] /\ \A i \in M : w[i] = V[i] /\ w[i] <= top
  <2>1. \A i \in M : V[i] \in 0..top
    BY <1>5, <1>6, OfflineConstants
  <2> HIDE DEF M, top
  <2>2. \A i \in M : V[i] \in Nat /\ V[i] <= top
    BY <1>3, <2>1
  <2> QED
    BY <2>2
<1> HIDE DEF M, n, w, top, s
<1>10. Offline!MapThenSumSet(LAMBDA i : V[i], M) = SumOf(w, M)
  <2>1. IsFiniteSet(M) /\ w \in [M -> Nat] /\ \A i \in M : w[i] = V[i]
    BY <1>7, <1>9
  <2> QED
    BY <2>1, SumOfEach, Zenon
<1>11. SumOf(w, M) \in 0..(n * top) /\ n * top \in Nat
  BY <1>3, <1>7, <1>9, SumBound DEF n
<1> DEFINE t == SumOf(w, M)
<1>12. M # {} => (Unit * (s + t)) \div n \in 0..Top
  <2> HAVE M # {}
  <2> HIDE DEF t
  <2>1. n \in Nat \ {0} /\ n \in Nat
    BY <1>8
  <2>2. t \in 0..(n * top)
    BY <1>11 DEF t
  <2>3. s + t \in Nat /\ s + t <= n * (2 * top) /\ 2 * top \in Nat
    <3>1. top * 1 <= top * n
      BY <1>3, <2>1
    <3>2. top <= n * top
      BY <1>3, <2>1, <3>1
    <3>3. \A a, b, p \in Nat : s \in 0..b /\ t \in 0..p /\ b <= p => s + t \in Nat /\ s + t <= 2 * p
      OBVIOUS
    <3>4. s + t \in Nat /\ s + t <= 2 * (n * top)
      BY <1>3, <1>11, <2>2, <3>2, <3>3
    <3>5. 2 * (n * top) = n * (2 * top) /\ 2 * top \in Nat
      BY <1>3, <2>1
    <3> QED
      BY <3>4, <3>5
  <2>4. /\ n * (2 * top) \in Nat
        /\ Unit * (s + t) \in Nat
        /\ Unit * (s + t) <= Unit * (n * (2 * top))
    <3>1. n * (2 * top) \in Nat
      BY <2>1, <2>3, Products
    <3> QED
      BY <1>3, <2>3, <3>1, Products
  <2>5. Unit * (n * (2 * top)) = Top * n /\ Top \in Nat
    <3>1. Top = 2 * Unit * top
      BY Zenon DEF Top, top
    <3>2. Unit * (n * (2 * top)) = (2 * Unit * top) * n
      BY <1>3, <2>1
    <3> QED
      BY <3>1, <3>2, OfflineConstants
  <2>6. Unit * (s + t) <= Top * n
    BY <2>4, <2>5
  <2> QED
    BY <2>1, <2>4, <2>5, <2>6, QuotientBound
<1> QED
  BY <1>2, <1>4, <1>10, <1>12, Zenon DEF Centers

LEMMA KMeansKeeps ==
  ASSUME OfflineIInv, Offline!KMeans
  PROVE  OfflineIInv'
<1>0. K \in Nat \ {0} /\ MaxIteration \in Nat \ {0} /\ Offline!MaxVal \in Nat
  BY OfflineConstants
<1>1. /\ offlinePc = "kmeans" /\ model' = model /\ l' = l /\ lines' = lines /\ set' = set
      /\ centers' = [k \in 1..K |-> Offline!Moved(centers, ls, k)]
      /\ ls' = [k \in 1..K |-> 0] /\ iteration' = iteration + 1
      /\ \/ offlinePc' = "kmeans" /\ iteration' < MaxIteration
         \/ offlinePc' = "describe"
  <2>1. /\ offlinePc = "kmeans" /\ model' = model /\ l' = l /\ lines' = lines /\ set' = set
        /\ centers' = [k \in 1..K |-> Offline!Moved(centers, ls, k)]
        /\ ls' = Offline!SumsReset /\ iteration' = iteration + 1
        /\ offlinePc' = IF Offline!Again(global', iteration') THEN offlinePc ELSE "describe"
    BY DEF Offline!KMeans
  <2>2. Offline!Again(global', iteration') => iteration' < MaxIteration
    BY Zenon DEF Offline!Again
  <2>3. ls' = [k \in 1..K |-> 0]
    BY <2>1, Zenon DEF Offline!SumsReset
  <2> QED
    BY <2>1, <2>2, <2>3
<1>2. /\ GoodSet(set) /\ l \in 1..Len(set) /\ l \in 1..(Len(set) + 1) /\ l <= Len(set)
      /\ centers \in [1..K -> Centers] /\ ls \in [1..K -> 0..Offline!MaxVal]
  <2>1. /\ GoodSet(set) /\ l \in 1..(Len(set) + 1) /\ l <= Len(set) /\ centers \in [1..K -> Centers]
        /\ ls \in [1..K -> 0..Offline!MaxVal]
    BY <1>1 DEF OfflineIInv
  <2>2. set \in Seq(ClassType)
    BY <2>1 DEF GoodSet
  <2>3. Len(set) \in Nat
    BY <2>2
  <2>4. \A n \in Nat : l \in 1..(n + 1) /\ l <= n => l \in 1..n
    OBVIOUS
  <2> QED
    BY <2>1, <2>3, <2>4
<1>3. centers' \in [1..K -> Centers]
  <2>1. \A k \in 1..K : Offline!Moved(centers, ls, k) \in Centers
    BY <1>2, MovedIsCenter
  <2> QED
    BY <1>1, <2>1
<1>4. ls' \in [1..K -> 0..Offline!MaxVal]
  <2>1. 0 \in 0..Offline!MaxVal
    BY <1>0
  <2> QED
    BY <1>1, <2>1
<1>5. iteration' \in 0..MaxIteration
  <2>1. iteration \in 0..MaxIteration /\ iteration < MaxIteration
    BY <1>1 DEF OfflineIInv
  <2> QED
    BY <1>0, <1>1, <2>1
<1> QED
  BY <1>1, <1>2, <1>3, <1>4, <1>5 DEF OfflineIInv

\* The places of S in turn are all of them.
RankIn(S, i) == Cardinality({j \in S : j < i})

LEMMA RanksOccur ==
  ASSUME NEW S \in SUBSET Nat, IsFiniteSet(S), NEW n \in 1..Cardinality(S)
  PROVE  \E i \in S : RankIn(S, i) = n - 1
<1> DEFINE m == Cardinality(S)
           T == 0..(m - 1)
           f == [i \in S |-> RankIn(S, i)]
           B(i) == {j \in S : j < i}
<1>1. m \in Nat /\ n \in 1..m
  BY FS_CardinalityType
<1>2. ASSUME NEW i \in S
      PROVE  IsFiniteSet(B(i)) /\ RankIn(S, i) = Cardinality(B(i)) /\ RankIn(S, i) \in Nat
  <2>1. B(i) \in SUBSET S
    OBVIOUS
  <2> QED
    BY <2>1, FS_Subset, FS_CardinalityType DEF RankIn
<1>3. ASSUME NEW i \in S, NEW D, IsFiniteSet(D), B(i) \cup {i} \in SUBSET D
      PROVE  RankIn(S, i) < Cardinality(D)
  <2>1. i \notin B(i)
    OBVIOUS
  <2> HIDE DEF B
  <2>2. IsFiniteSet(B(i) \cup {i}) /\ Cardinality(B(i) \cup {i}) = Cardinality(B(i)) + 1
    BY <1>2, <2>1, FS_AddElement
  <2>3. Cardinality(B(i) \cup {i}) <= Cardinality(D) /\ Cardinality(D) \in Nat
    BY <1>3, FS_Subset, FS_CardinalityType
  <2> QED
    BY <1>2, <2>2, <2>3
<1>4. f \in [S -> T]
  <2>1. \A i \in S : RankIn(S, i) \in T
    <3> TAKE i \in S
    <3>1. B(i) \cup {i} \in SUBSET S
      OBVIOUS
    <3>2. RankIn(S, i) < m /\ RankIn(S, i) \in Nat
      BY <1>2, <1>3, <3>1
    <3> QED
      BY <1>1, <3>2
  <2> QED
    BY <2>1
<1>5. ASSUME NEW i \in S, NEW j \in S, i < j
      PROVE  RankIn(S, i) # RankIn(S, j)
  <2>1. \A k \in S : k < i => k < j
    BY <1>5
  <2>2. B(i) \cup {i} \in SUBSET B(j)
    BY <1>5, <2>1
  <2> HIDE DEF B
  <2>3. RankIn(S, i) < Cardinality(B(j)) /\ RankIn(S, j) = Cardinality(B(j))
    BY <1>2, <1>3, <2>2
  <2>4. RankIn(S, i) \in Nat /\ RankIn(S, j) \in Nat
    BY <1>2
  <2> QED
    BY <2>3, <2>4
<1>6. \A i, j \in S : f[i] = f[j] => i = j
  <2>1. \A i, j \in S : i < j \/ j < i \/ i = j
    OBVIOUS
  <2>2. \A i, j \in S : RankIn(S, i) = RankIn(S, j) => i = j
    BY <1>5, <2>1, Zenon
  <2>3. \A i \in S : f[i] = RankIn(S, i)
    OBVIOUS
  <2> HIDE DEF f
  <2> QED
    BY <2>2, <2>3, Zenon
<1>7. IsFiniteSet(T) /\ Cardinality(T) = m
  BY <1>1, Intervals, Zenon
<1> HIDE DEF f, T
<1>8. f \in Injection(S, T)
  BY <1>4, <1>6 DEF Injection, IsInjective
<1>9. f \in Surjection(S, T)
  BY <1>7, <1>8, FS_Injection
<1>10. n - 1 \in T
  BY <1>1 DEF T
<1>11. \E i \in S : f[i] = n - 1
  BY <1>9, <1>10 DEF Surjection
<1> QED
  BY <1>11 DEF f

LEMMA InTurnFacts ==
  ASSUME NEW S \in SUBSET Nat, IsFiniteSet(S)
  PROVE  /\ Cardinality(S) \in Nat
         /\ DOMAIN Offline!InTurn(S) = 1..Cardinality(S)
         /\ \A n \in 1..Cardinality(S) : /\ Offline!InTurn(S)[n] \in S
                                         /\ RankIn(S, Offline!InTurn(S)[n]) = n - 1
<1>1. Cardinality(S) \in Nat
  BY FS_CardinalityType
<1>2. Offline!InTurn(S) = [n \in 1..Cardinality(S) |-> CHOOSE i \in S : RankIn(S, i) = n - 1]
  BY Zenon DEF Offline!InTurn, RankIn, Offline!Cardinality, Cardinality
<1>3. \A n \in 1..Cardinality(S) :
        LET i == CHOOSE i \in S : RankIn(S, i) = n - 1 IN i \in S /\ RankIn(S, i) = n - 1
  BY RanksOccur
<1> QED
  BY <1>1, <1>2, <1>3

\* The training set has each class once.
LEMMA GroupedFacts ==
  ASSUME lines \in Seq(Offline!Line)
  PROVE  GoodSet(Offline!Grouped)
<1> DEFINE P == DOMAIN lines
           F == {i \in P : \A j \in 1..(i - 1) : lines[j].class # lines[i].class}
           first == Offline!InTurn(F)
           Of(k) == {i \in P : lines[i].class = k}
           vals(k) == [n \in DOMAIN Offline!InTurn(Of(k)) |-> lines[Offline!InTurn(Of(k))[n]].val]
           rec(c) == [class |-> lines[first[c]].class, values |-> vals(lines[first[c]].class)]
<1>1. P = 1..Len(lines) /\ Len(lines) \in Nat /\ IsFiniteSet(P) /\ P \in SUBSET Nat
  <2>1. P = 1..Len(lines) /\ Len(lines) \in Nat
    OBVIOUS
  <2> QED
    BY <2>1, Intervals
<1>2. \A i \in P : lines[i].val \in Values /\ lines[i].class \in Classes
  <2>1. \A i \in P : lines[i] \in Offline!Line
    OBVIOUS
  <2> QED
    BY <2>1 DEF Offline!Line
<1>3. Offline!Grouped = [c \in DOMAIN first |-> rec(c)]
  BY Zenon DEF Offline!Grouped
<1>4. F \in SUBSET P /\ F \in SUBSET Nat /\ IsFiniteSet(F)
  BY <1>1, FS_Subset
<1>5. /\ Cardinality(F) \in Nat /\ DOMAIN first = 1..Cardinality(F)
      /\ \A c \in DOMAIN first : first[c] \in F /\ RankIn(F, first[c]) = c - 1
  BY <1>4, InTurnFacts
<1>6. ASSUME NEW k
      PROVE  vals(k) \in Seq(Values)
  <2>1. Of(k) \in SUBSET P /\ Of(k) \in SUBSET Nat /\ IsFiniteSet(Of(k))
    BY <1>1, FS_Subset
  <2> HIDE DEF Of, P
  <2>2. /\ Cardinality(Of(k)) \in Nat /\ DOMAIN Offline!InTurn(Of(k)) = 1..Cardinality(Of(k))
        /\ \A n \in 1..Cardinality(Of(k)) : Offline!InTurn(Of(k))[n] \in Of(k)
    BY <2>1, InTurnFacts
  <2>3. vals(k) \in [1..Cardinality(Of(k)) -> Values]
    BY <1>2, <2>1, <2>2
  <2> HIDE DEF vals
  <2> QED
    BY <2>2, <2>3
<1> HIDE DEF vals, first
<1>7. \A c \in 1..Cardinality(F) : rec(c) \in ClassType
  <2> TAKE c \in 1..Cardinality(F)
  <2>1. first[c] \in P
    BY <1>4, <1>5
  <2>2. lines[first[c]].class \in Classes
    BY <1>2, <2>1
  <2> QED
    BY <1>6, <2>2 DEF ClassType
<1>8. \A i, j \in F : lines[i].class = lines[j].class => i = j
  <2> SUFFICES ASSUME NEW i \in F, NEW j \in F, i # j
               PROVE  lines[i].class # lines[j].class
    OBVIOUS
  <2>1. i \in 1..(j - 1) \/ j \in 1..(i - 1)
    BY <1>1, <1>4
  <2> QED
    BY <2>1
<1> HIDE DEF F
<1>9. \A c, d \in 1..Cardinality(F) : rec(c).class = rec(d).class => c = d
  <2> TAKE c, d \in 1..Cardinality(F)
  <2> HAVE rec(c).class = rec(d).class
  <2>1. first[c] \in F /\ first[d] \in F /\ lines[first[c]].class = lines[first[d]].class
    BY <1>5
  <2>2. first[c] = first[d]
    BY <1>8, <2>1
  <2>3. c - 1 = d - 1
    BY <1>5, <2>2
  <2> QED
    BY <1>5, <2>3
<1> HIDE DEF rec
<1>10. Offline!Grouped \in [1..Cardinality(F) -> ClassType]
  BY <1>3, <1>5, <1>7
<1>11. Offline!Grouped \in Seq(ClassType) /\ DOMAIN Offline!Grouped = 1..Cardinality(F)
  BY <1>5, <1>10
<1> QED
  BY <1>3, <1>5, <1>9, <1>11 DEF GoodSet

LEMMA ReadAllKeeps ==
  ASSUME OfflineIInv, Offline!ReadAll
  PROVE  OfflineIInv'
<1>1. /\ offlinePc = "read" /\ model' = model /\ l' = l /\ lines' = lines
      /\ set' = Offline!Grouped /\ centers' = centers /\ ls' = ls /\ iteration' = iteration
      /\ offlinePc' \in {"error", "init"}
  BY DEF Offline!ReadAll, Offline!kVars
<1>2. lines \in Seq(Offline!Line) /\ l = 1
  BY <1>1 DEF OfflineIInv
<1>3. GoodSet(set')
  BY <1>1, <1>2, GroupedFacts
<1>4. l' \in 1..(Len(set') + 1)
  <2>1. set' \in Seq(ClassType)
    BY <1>3 DEF GoodSet
  <2>2. Len(set') \in Nat
    BY <2>1
  <2> QED
    BY <1>1, <1>2, <2>2
<1>5. \A c \in 1..(l' - 1) : Represents(model', c, set'[c])
  BY <1>1, <1>2
<1> QED
  BY <1>1, <1>3, <1>4, <1>5 DEF OfflineIInv

LEMMA OfflineStutters ==
  ASSUME OfflineIInv, OfflineStays
  PROVE  OfflineIInv'
BY DEF OfflineIInv, OfflineStays

LEMMA OfflineNext ==
  ASSUME OfflineIInv, ProgramNext
  PROVE  OfflineIInv'
<1>1. CASE OfflineStays
  BY <1>1, OfflineStutters
<1>2. CASE Offline!Next
  <2>1. CASE Offline!Done
    BY <2>1 DEF Offline!Done, Offline!kVars, OfflineIInv
  <2>2. CASE Offline!Stopped
    BY <2>2, <1>1 DEF Offline!Stopped, Offline!vars, Offline!kVars, OfflineStays
  <2> QED
    BY <1>2, <2>1, <2>2, ReadAllKeeps, KMeansInitKeeps, KMeansKeeps, DescribeKeeps DEF Offline!Next
<1> QED
  BY <1>1, <1>2 DEF ProgramNext, InEet, InClassifier, InDetection, InOffline, offlineVars, OfflineStays

LEMMA OfflineInit ==
  ASSUME ProgramInit
  PROVE  OfflineIInv
<1>1. /\ lines \in UNION {[1..n -> Offline!Line] : n \in 1..TrainingSize}
      /\ set = <<>> /\ offlinePc = "read" /\ l = 1
      /\ centers = [k \in 1..K |-> 0] /\ ls = [k \in 1..K |-> 0]
      /\ iteration = 0 /\ model = <<>>
  BY DEF ProgramInit, Offline!Init
<1>2. /\ K \in Nat \ {0} /\ MaxIteration \in Nat \ {0} /\ TrainingSize \in Nat
      /\ Offline!MaxVal \in Nat /\ Top \in Nat
  BY OfflineConstants
<1>3. PICK n \in 1..TrainingSize : lines \in [1..n -> Offline!Line]
  BY <1>1
<1>4. lines \in Seq(Offline!Line) /\ Len(lines) <= TrainingSize
  BY <1>2, <1>3
<1>5. GoodSet(set) /\ Len(set) = 0
  BY <1>1 DEF GoodSet
<1>6. 0 \in Centers /\ 0 \in 0..Offline!MaxVal
  BY <1>2 DEF Centers
<1>7. model \in Seq(ClusterType) /\ Len(model) = (l - 1) * K
  BY <1>1, <1>2
<1> QED
  BY <1>1, <1>2, <1>4, <1>5, <1>6, <1>7 DEF OfflineIInv

LEMMA OfflineInvariance == ProgramSpec => []OfflineIInv
<1>1. OfflineIInv /\ UNCHANGED programVars => OfflineIInv'
  BY OfflineStutters DEF programVars, offlineVars, OfflineStays
<1> QED
  BY <1>1, OfflineInit, OfflineNext, PTL DEF ProgramSpec

LEMMA OfflineType == OfflineIInv => Offline!TypeOK
<1> SUFFICES ASSUME OfflineIInv
             PROVE  Offline!TypeOK
  OBVIOUS
<1>1. /\ lines \in Seq(Offline!Line) /\ Len(lines) <= TrainingSize
      /\ offlinePc \in {"read", "init", "kmeans", "describe", "done", "error"}
      /\ l \in 1..(Len(set) + 1) /\ ls \in [1..K -> 0..Offline!MaxVal]
      /\ iteration \in 0..MaxIteration
  BY DEF OfflineIInv
<1>2. centers \in [1..K -> 0..(2 * Unit * Offline!MaxVal)]
  BY DEF OfflineIInv, Centers, Top
<1>3. l - 1 \in Nat /\ model \in Seq(ClusterType) /\ Len(model) = (l - 1) * K
  <2>1. set \in Seq(ClassType)
    BY DEF OfflineIInv, GoodSet
  <2>2. Len(set) \in Nat
    BY <2>1
  <2>3. l - 1 \in Nat
    BY <1>1, <2>2
  <2> QED
    BY <2>3 DEF OfflineIInv
<1>4. ASSUME NEW i \in DOMAIN model
      PROVE  model[i].id = i - 1 /\ model[i].class = set[(i - 1) \div K + 1].class
  <2>1. i \in 1..Len(model)
    BY <1>3
  <2>2. i \in 1..((l - 1) * K)
    BY <1>3, <2>1, Zenon
  <2>3. PICK c \in 1..(l - 1) : i \in IdsOf(c)
    BY <1>3, <2>2, IdsFacts
  <2>4. (i - 1) \div K + 1 = c
    BY <1>3, <2>3, IdsFacts
  <2>5. Represents(model, c, set[c])
    BY <2>3 DEF OfflineIInv
  <2>6. model[i].id = i - 1 /\ model[i].class = set[c].class
    BY <2>3, <2>5 DEF Represents
  <2> QED
    BY <2>4, <2>6
<1> QED
  BY <1>1, <1>2, <1>4, Zenon DEF Offline!TypeOK

LEMMA OfflineCovers == OfflineIInv => Offline!Covered
<1> SUFFICES ASSUME OfflineIInv, NEW c \in 1..(l - 1)
             PROVE  /\ \A x \in Offline!Range(set[c].values) :
                         LET i == Offline!NearestOf(c, x)
                         IN Offline!Distance(model[i].center, x) <= model[i].distanceMax
                    /\ Offline!MapThenSumSet(LAMBDA i : model[i].n, Offline!ClustersOf(c))
                         = Len(set[c].values)
  BY Zenon DEF Offline!Covered
<1>1. /\ GoodSet(set) /\ l \in 1..(Len(set) + 1) /\ model \in Seq(ClusterType)
      /\ Len(model) = (l - 1) * K /\ \A d \in 1..(l - 1) : Represents(model, d, set[d])
  BY DEF OfflineIInv
<1>2. Len(set) \in Nat /\ set \in Seq(ClassType)
  <2>1. set \in Seq(ClassType)
    BY <1>1 DEF GoodSet
  <2> QED
    BY <2>1
<1>3. l - 1 \in Nat /\ \A d \in 1..(l - 1) : d \in DOMAIN set
  <2>1. \A n \in Nat : \A i \in 1..(n + 1) : i - 1 \in Nat /\ \A d \in 1..(i - 1) : d \in 1..n
    OBVIOUS
  <2>2. DOMAIN set = 1..Len(set)
    BY <1>2
  <2>3. l \in 1..(Len(set) + 1) /\ Len(set) \in Nat
    BY <1>1, <1>2
  <2> QED
    BY <2>1, <2>2, <2>3, Zenon
<1>4. DOMAIN model = 1..((l - 1) * K)
  <2>1. DOMAIN model = 1..Len(model)
    BY <1>1
  <2> QED
    BY <1>1, <2>1, Zenon
<1>5. Offline!ClustersOf(c) = IdsOf(c)
  <2>1. ASSUME NEW i \in IdsOf(c)
        PROVE  i \in DOMAIN model /\ model[i].class = set[c].class
    <3>1. IdsOf(c) \subseteq 1..((l - 1) * K)
      BY <1>3, IdsFacts
    <3>2. Represents(model, c, set[c])
      BY <1>1
    <3> QED
      BY <1>4, <3>1, <3>2 DEF Represents
  <2>2. ASSUME NEW i \in DOMAIN model, model[i].class = set[c].class
        PROVE  i \in IdsOf(c)
    <3>1. PICK d \in 1..(l - 1) : i \in IdsOf(d)
      BY <1>3, <1>4, IdsFacts
    <3>2. Represents(model, d, set[d])
      BY <1>1
    <3>3. model[i].class = set[d].class
      BY <3>1, <3>2 DEF Represents
    <3>4. d = c
      BY <1>1, <1>3, <2>2, <3>3 DEF GoodSet
    <3> QED
      BY <3>1, <3>4
  <2> QED
    BY <2>1, <2>2, Zenon DEF Offline!ClustersOf
<1>6. Represents(model, c, set[c])
  BY <1>1
<1>7. ASSUME NEW x \in Offline!Range(set[c].values)
      PROVE  LET i == Offline!NearestOf(c, x)
             IN Offline!Distance(model[i].center, x) <= model[i].distanceMax
  <2>1. PICK p \in DOMAIN set[c].values : x = set[c].values[p]
    BY Zenon DEF Offline!Range
  <2>2. Offline!NearestOf(c, x) = Offline!Nearest(CentersOf(model, c), x)
    BY <1>5, Zenon DEF Offline!NearestOf, CentersOf
  <2>3. PICK i \in IdsOf(c) : /\ i = Offline!Nearest(CentersOf(model, c), set[c].values[p])
                              /\ Offline!Distance(model[i].center, set[c].values[p]) <= model[i].distanceMax
    BY <1>6 DEF Represents
  <2> QED
    BY <2>1, <2>2, <2>3, Zenon
<1>8. Offline!MapThenSumSet(LAMBDA i : model[i].n, IdsOf(c)) = Len(set[c].values)
  <2> DEFINE w == CountsOf(model, c)
  <2>1. IdsOf(c) \subseteq DOMAIN model /\ IsFiniteSet(IdsOf(c))
    BY <1>3, <1>4, IdsFacts
  <2>2. \A i \in DOMAIN model : model[i].n \in Nat
    <3>1. \A i \in DOMAIN model : model[i] \in ClusterType
      BY <1>1
    <3> QED
      BY <3>1 DEF ClusterType
  <2>3. w \in [IdsOf(c) -> Nat] /\ \A i \in IdsOf(c) : w[i] = model[i].n
    BY <2>1, <2>2 DEF CountsOf
  <2> HIDE DEF w
  <2>4. Offline!MapThenSumSet(LAMBDA i : model[i].n, IdsOf(c)) = SumOf(w, IdsOf(c))
    BY <2>1, <2>3, SumOfCounts, Zenon
  <2>5. SumOf(w, IdsOf(c)) = Len(set[c].values)
    BY <1>6 DEF Represents, w
  <2> QED
    BY <2>4, <2>5
<1> QED
  BY <1>5, <1>7, <1>8, Zenon

\* The model of offline represents the training set: its clusters are numbered class
\* by class, K to a class, every example is within distanceMax of the cluster of its
\* class that is nearest to it, and counted by one.
THEOREM TrainingIsCovered == ProgramSpec => []OfflineInv
<1>1. OfflineIInv => OfflineInv
  BY OfflineType, OfflineCovers DEF OfflineInv, Offline!Inv
<1> QED
  BY <1>1, OfflineInvariance, PTL

-----------------------------------------------------------------------------
\* The first distributed classifier (MasterWorkers).  Where an example is: in a queue, with a
\* worker, or recorded.
Has(q, x) == \E i \in DOMAIN q : q[i] = x
Once(q, x) == \A i, j \in DOMAIN q : q[i] = x /\ q[j] = x => i = j
WithWorker(w, x) ==
  Has(inbox[w], x) \/ x \in worker[w].holds \/ Has(underWay[w], x) \/ Has(arrived[w], x)
OneKind(w, x) ==
  /\ Once(inbox[w], x) /\ Once(underWay[w], x) /\ Once(arrived[w], x)
  /\ Has(inbox[w], x) => x \notin worker[w].holds /\ ~Has(underWay[w], x) /\ ~Has(arrived[w], x)
  /\ x \in worker[w].holds => ~Has(underWay[w], x) /\ ~Has(arrived[w], x)
  /\ Has(underWay[w], x) => ~Has(arrived[w], x)
IsSomewhere(x) == x \in memMatches \/ \E w \in Workers : WithWorker(w, x)
Somewhere == \A x \in Examples : x < root.next <=> IsSomewhere(x)
OneWorker ==
  \A x \in Examples : \A w \in Workers :
    WithWorker(w, x) => x \notin memMatches /\ \A v \in Workers : WithWorker(v, x) => v = w
PlacesInv == /\ Somewhere /\ OneWorker
             /\ \A x \in Examples : \A w \in Workers : OneKind(w, x)

\* A worker's marker is the last it is sent, and it comes to the barrier by it.
Marked(w) == root.pc \in {"barrier", "last", "end", "done"} \/ (root.pc = "mark" /\ w < root.dest)
MarkersOf(w) ==
  /\ Has(inbox[w], Marker) => Marked(w) /\ worker[w].pc \in {"cast", "recv", "send"}
  /\ \A i \in DOMAIN inbox[w] : inbox[w][i] = Marker => i = Len(inbox[w])
  /\ worker[w].pc \in {"barrier", "end", "done"} => Marked(w) /\ inbox[w] = <<>>
  /\ worker[w].pc = "send" => \E x \in Examples : worker[w].holds = {x}
  /\ worker[w].pc # "send" => worker[w].holds = {}
MarkersInv == \A w \in Workers : MarkersOf(w)
\* Who has entered a barrier has come to it, and no one passes it before.
BarrierInv ==
  /\ \A w \in Workers : entered[w] >= 1 => worker[w].pc \in {"barrier", "end", "done"}
  /\ root.pc \in {"last", "end", "done"} => \A w \in Workers : entered[w] >= 1
  /\ root.pc \in {"cast", "send", "poll"} => root.dest <= NWorkers
  /\ root.pc = "cast" => cast[0] < Broadcasts
DealIInv == DealTypeOK /\ PlacesInv /\ MarkersInv /\ BarrierInv

LEMMA DealConstants ==
  /\ NWorkers \in Nat \ {0} /\ FileExamples \in Nat /\ Eager \in Nat \ {0}
  /\ Marker \notin Examples /\ Examples \subseteq Nat /\ Workers \subseteq Nat
  /\ Ranks = {0} \cup Workers /\ 0 \notin Workers
BY MasterAssumption DEF Marker, Examples, Workers, Ranks

\* What queues do to it.
LEMMA HasAppended ==
  ASSUME NEW S, NEW q \in Seq(S), NEW y \in S, NEW x
  PROVE  /\ Append(q, y) \in Seq(S) /\ Len(Append(q, y)) = Len(q) + 1
         /\ Has(Append(q, y), x) <=> Has(q, x) \/ x = y
         /\ Once(q, x) /\ (x = y => ~Has(q, x)) => Once(Append(q, y), x)
         /\ Has(q, x) \/ Has(Append(q, y), x) => Len(q) \in Nat
<1> DEFINE a == Append(q, y)
           n == Len(q)
<1>1. /\ a \in Seq(S) /\ Len(a) = n + 1 /\ n \in Nat /\ DOMAIN q = 1..n /\ DOMAIN a = 1..(n + 1)
      /\ \A i \in 1..n : a[i] = q[i]
      /\ a[n + 1] = y
  OBVIOUS
<1> HIDE DEF a, n
<1>2. Has(a, x) <=> Has(q, x) \/ x = y
  BY <1>1 DEF Has
<1>3. Once(q, x) /\ (x = y => ~Has(q, x)) => Once(a, x)
  <2> SUFFICES ASSUME Once(q, x), x = y => ~Has(q, x),
                      NEW i \in DOMAIN a, NEW j \in DOMAIN a, a[i] = x, a[j] = x
               PROVE  i = j
    BY DEF Once
  <2>1. CASE i \in 1..n /\ j \in 1..n
    BY <1>1, <2>1 DEF Once
  <2>2. CASE i = n + 1 /\ j = n + 1
    BY <2>2
  <2>3. ~(i \in 1..n /\ j = n + 1) /\ ~(i = n + 1 /\ j \in 1..n)
    BY <1>1 DEF Has
  <2> QED
    BY <1>1, <2>1, <2>2, <2>3
<1> QED
  BY <1>1, <1>2, <1>3 DEF a, n

LEMMA HasTaken ==
  ASSUME NEW S, NEW q \in Seq(S), q # <<>>, NEW x
  PROVE  /\ Head(q) \in S /\ Tail(q) \in Seq(S) /\ Len(Tail(q)) = Len(q) - 1 /\ Len(q) \in Nat \ {0}
         /\ Has(q, Head(q))
         /\ Has(q, x) <=> Has(Tail(q), x) \/ x = Head(q)
         /\ Once(q, x) => Once(Tail(q), x) /\ (x = Head(q) => ~Has(Tail(q), x))
<1> DEFINE t == Tail(q)
           n == Len(q)
<1>1. /\ t \in Seq(S) /\ Len(t) = n - 1 /\ n \in Nat \ {0} /\ DOMAIN q = 1..n /\ DOMAIN t = 1..(n - 1)
      /\ \A i \in 1..(n - 1) : t[i] = q[i + 1]
      /\ Head(q) = q[1] /\ q[1] \in S
  OBVIOUS
<1> HIDE DEF t, n
<1>2. \A i \in 1..n : i = 1 \/ (i - 1 \in 1..(n - 1) /\ q[i] = t[i - 1])
  <2> SUFFICES ASSUME NEW i \in 1..n, i # 1
               PROVE  i - 1 \in 1..(n - 1) /\ q[i] = t[i - 1]
    OBVIOUS
  <2>1. i - 1 \in 1..(n - 1) /\ (i - 1) + 1 = i
    BY <1>1
  <2> QED
    BY <1>1, <2>1
<1>3. Has(q, x) <=> Has(t, x) \/ x = q[1]
  <2>1. Has(q, x) => Has(t, x) \/ x = q[1]
    BY <1>1, <1>2 DEF Has
  <2>2. \A i \in 1..(n - 1) : i + 1 \in 1..n
    BY <1>1
  <2>3. Has(t, x) => Has(q, x)
    BY <1>1, <2>2 DEF Has
  <2>4. Has(q, q[1])
    BY <1>1 DEF Has
  <2> QED
    BY <2>1, <2>3, <2>4
<1>4. Once(q, x) => Once(t, x) /\ (x = q[1] => ~Has(t, x))
  <2> SUFFICES ASSUME Once(q, x)
               PROVE  Once(t, x) /\ (x = q[1] => ~Has(t, x))
    OBVIOUS
  <2>1. \A i \in 1..(n - 1) : i + 1 \in 1..n /\ 1 \in 1..n /\ t[i] = q[i + 1] /\ i + 1 # 1
    BY <1>1
  <2>2. \A i, j \in 1..(n - 1) : i + 1 = j + 1 => i = j
    BY <1>1
  <2>3. \A i \in 1..n : q[i] = x /\ q[1] = x => i = 1
    BY <1>1, <2>1 DEF Once
  <2>4. x = q[1] => ~Has(t, x)
    BY <1>1, <2>1, <2>3 DEF Has
  <2>5. Once(t, x)
    <3> SUFFICES ASSUME NEW i \in 1..(n - 1), NEW j \in 1..(n - 1), t[i] = x, t[j] = x
                 PROVE  i = j
      BY <1>1 DEF Once
    <3>1. i + 1 = j + 1
      BY <1>1, <2>1 DEF Once
    <3> QED
      BY <2>2, <3>1
  <2> QED
    BY <2>4, <2>5
<1>5. Has(q, q[1])
  BY <1>1 DEF Has
<1> QED
  BY <1>1, <1>3, <1>4, <1>5 DEF t, n

RootType == [pc : RootPositions, next : 1..(FileExamples + 1), dest : 1..(NWorkers + 1)]
WorkerType == [pc : WorkerPositions, holds : SUBSET Examples]

LEMMA DealFacts ==
  ASSUME DealIInv
  PROVE  /\ root \in RootType /\ root.pc \in RootPositions /\ root.next \in 1..(FileExamples + 1)
         /\ root.dest \in 1..(NWorkers + 1)
         /\ worker \in [Workers -> WorkerType]
         /\ cast \in [Ranks -> 0..Broadcasts] /\ entered \in [Ranks -> 0..Barriers]
         /\ inbox \in [Workers -> Seq(Examples \cup {Marker})]
         /\ underWay \in [Workers -> Seq(Examples)] /\ arrived \in [Workers -> Seq(Examples)]
         /\ \A w \in Workers : /\ worker[w].pc \in WorkerPositions /\ worker[w].holds \subseteq Examples
                               /\ Len(inbox[w]) <= Eager
                               /\ Len(underWay[w]) + Len(arrived[w]) <= Eager
         /\ memMatches \subseteq Examples
         /\ PlacesInv /\ MarkersInv /\ BarrierInv
BY DEF DealIInv, DealTypeOK, RootType, WorkerType

LEMMA RootMoves ==
  ASSUME root \in RootType, NEW p \in RootPositions, RootGoes(p)
  PROVE  root' \in RootType /\ root'.pc = p /\ root'.next = root.next /\ root'.dest = root.dest
BY DEF RootGoes, RootType

LEMMA WorkerMoves ==
  ASSUME worker \in [Workers -> WorkerType], NEW w \in Workers, NEW p \in WorkerPositions,
         WorkerGoes(w, p)
  PROVE  /\ worker' \in [Workers -> WorkerType]
         /\ worker'[w].pc = p /\ worker'[w].holds = worker[w].holds
         /\ \A v \in Workers : /\ worker'[v].holds = worker[v].holds
                               /\ v # w => worker'[v] = worker[v]
BY DEF WorkerGoes, WorkerType

\* What moves from one place of a worker to the next stays with it.
LEMMA PlacesMoved ==
  ASSUME PlacesInv, memMatches' = memMatches, root'.next = root.next,
         \A x \in Examples : \A w \in Workers :
           (WithWorker(w, x)' <=> WithWorker(w, x)) /\ OneKind(w, x)'
  PROVE  PlacesInv'
<1>1. \A x \in Examples : IsSomewhere(x)' <=> IsSomewhere(x)
  BY DEF IsSomewhere
<1>2. Somewhere'
  BY <1>1 DEF PlacesInv, Somewhere
<1>3. OneWorker'
  BY DEF PlacesInv, OneWorker
<1> QED
  BY <1>2, <1>3 DEF PlacesInv

LEMMA PlacesStay ==
  ASSUME PlacesInv, memMatches' = memMatches, root'.next = root.next,
         inbox' = inbox, underWay' = underWay, arrived' = arrived,
         \A w \in Workers : worker'[w].holds = worker[w].holds
  PROVE  PlacesInv'
<1>1. \A x \in Examples : \A w \in Workers :
        (WithWorker(w, x)' <=> WithWorker(w, x)) /\ (OneKind(w, x)' <=> OneKind(w, x))
  BY DEF WithWorker, OneKind
<1> QED
  BY <1>1, PlacesMoved DEF PlacesInv

LEMMA MarkersStay ==
  ASSUME NEW w \in Workers, MarkersOf(w), inbox'[w] = inbox[w], worker'[w] = worker[w],
         Marked(w) => Marked(w)'
  PROVE  MarkersOf(w)'
BY DEF MarkersOf

LEMMA DealInits == DealInit => DealIInv
<1> SUFFICES ASSUME DealInit
             PROVE  DealIInv
  OBVIOUS
<1>1. /\ root = [pc |-> "cast", next |-> 1, dest |-> 1] /\ memMatches = {}
      /\ \A w \in Workers : /\ worker[w] = [pc |-> "cast", holds |-> {}]
                            /\ inbox[w] = <<>> /\ underWay[w] = <<>> /\ arrived[w] = <<>>
                            /\ entered[w] = 0
      /\ cast[0] = 0
  BY DealConstants DEF DealInit
<1>2. DealTypeOK
  <2>1. /\ root \in RootType /\ worker \in [Workers -> WorkerType]
    BY <1>1, DealConstants DEF DealInit, RootType, WorkerType, RootPositions, WorkerPositions
  <2>2. /\ cast \in [Ranks -> 0..Broadcasts] /\ entered \in [Ranks -> 0..Barriers]
    BY DEF DealInit, Broadcasts, Barriers
  <2>3. /\ inbox \in [Workers -> Seq(Examples \cup {Marker})]
        /\ underWay \in [Workers -> Seq(Examples)] /\ arrived \in [Workers -> Seq(Examples)]
    BY DEF DealInit
  <2>4. \A w \in Workers : Len(inbox[w]) <= Eager /\ Len(underWay[w]) + Len(arrived[w]) <= Eager
    <3>1. Len(<<>>) = 0 /\ 0 + 0 <= Eager /\ 0 <= Eager
      BY DealConstants
    <3> QED
      BY <1>1, <3>1
  <2> QED
    BY <1>1, <2>1, <2>2, <2>3, <2>4 DEF DealTypeOK, RootType, WorkerType
<1>3. PlacesInv
  <2>0. \A x : ~Has(<<>>, x) /\ Once(<<>>, x)
    BY DEF Has, Once
  <2>1. \A w \in Workers : \A x : /\ ~Has(inbox[w], x) /\ ~Has(underWay[w], x) /\ ~Has(arrived[w], x)
                                  /\ Once(inbox[w], x) /\ Once(underWay[w], x) /\ Once(arrived[w], x)
                                  /\ x \notin worker[w].holds
    BY <1>1, <2>0
  <2>2. \A x \in Examples : ~(x < root.next)
    BY <1>1 DEF Examples
  <2> QED
    BY <1>1, <2>1, <2>2 DEF PlacesInv, Somewhere, IsSomewhere, OneWorker, WithWorker, OneKind
<1>4. MarkersInv
  BY <1>1 DEF MarkersInv, MarkersOf, Has
<1>5. BarrierInv
  BY <1>1, DealConstants DEF BarrierInv, Broadcasts
<1> QED
  BY <1>2, <1>3, <1>4, <1>5 DEF DealIInv

LEMMA RootCastKeeps ==
  ASSUME DealIInv, RootCast
  PROVE  DealIInv'
<1> DEFINE p == IF cast[0] + 1 < Broadcasts THEN "cast" ELSE "send"
<1>1. /\ root.pc = "cast" /\ RootGoes(p) /\ cast' = [cast EXCEPT ![0] = @ + 1]
      /\ worker' = worker /\ entered' = entered /\ inbox' = inbox /\ underWay' = underWay
      /\ arrived' = arrived /\ memMatches' = memMatches
  BY DEF RootCast, places
<1>2. p \in RootPositions /\ p \in {"cast", "send"}
  BY DEF RootPositions
<1>3. 0 \in Ranks /\ cast[0] < 3 /\ cast[0] \in 0..3 /\ cast \in [Ranks -> 0..3]
  BY <1>1, DealFacts, DealConstants DEF BarrierInv, Broadcasts
<1>4. cast' \in [Ranks -> 0..3] /\ cast'[0] = cast[0] + 1 /\ (p = "cast" => cast'[0] < 3)
  BY <1>1, <1>3 DEF Broadcasts
<1> HIDE DEF p
<1>5. root' \in RootType /\ root'.pc = p /\ root'.next = root.next /\ root'.dest = root.dest
  BY <1>1, <1>2, RootMoves, DealFacts
<1>6. DealTypeOK'
  BY <1>1, <1>4, <1>5, DealFacts DEF DealTypeOK, RootType, WorkerType, Broadcasts
<1>7. PlacesInv'
  BY <1>1, <1>5, PlacesStay, DealFacts
<1>8. \A w \in Workers : Marked(w) => Marked(w)'
  BY <1>1 DEF Marked
<1>9. MarkersInv'
  BY <1>1, <1>8, MarkersStay, DealFacts DEF MarkersInv
<1>10. BarrierInv'
  BY <1>1, <1>2, <1>4, <1>5, DealFacts DEF BarrierInv, Broadcasts
<1> QED
  BY <1>6, <1>7, <1>9, <1>10 DEF DealIInv

LEMMA WorkerCastKeeps ==
  ASSUME DealIInv, NEW w \in Workers, WorkerCast(w)
  PROVE  DealIInv'
<1> DEFINE p == IF cast[w] + 1 < Broadcasts THEN "cast" ELSE "recv"
<1>1. /\ worker[w].pc = "cast" /\ cast[w] < cast[0] /\ WorkerGoes(w, p)
      /\ cast' = [cast EXCEPT ![w] = @ + 1]
      /\ root' = root /\ entered' = entered /\ inbox' = inbox /\ underWay' = underWay
      /\ arrived' = arrived /\ memMatches' = memMatches
  BY DEF WorkerCast, places
<1>2. p \in WorkerPositions /\ p \in {"cast", "recv"}
  BY DEF WorkerPositions
<1>3. 0 \in Ranks /\ w \in Ranks /\ w # 0 /\ cast \in [Ranks -> 0..3]
  BY DealFacts, DealConstants DEF Broadcasts
<1>4. cast' \in [Ranks -> 0..3] /\ cast'[0] = cast[0]
  BY <1>1, <1>3
<1> HIDE DEF p
<1>5. /\ worker' \in [Workers -> WorkerType] /\ worker'[w].pc = p
      /\ \A v \in Workers : /\ worker'[v].holds = worker[v].holds
                            /\ v # w => worker'[v] = worker[v]
  BY <1>1, <1>2, WorkerMoves, DealFacts
<1>6. DealTypeOK'
  BY <1>1, <1>4, <1>5, DealFacts DEF DealTypeOK, RootType, WorkerType, Broadcasts
<1>7. PlacesInv'
  BY <1>1, <1>5, PlacesStay, DealFacts
<1>8. \A v \in Workers : Marked(v) => Marked(v)'
  BY <1>1 DEF Marked
<1>9. MarkersInv'
  <2> SUFFICES ASSUME NEW v \in Workers
               PROVE  MarkersOf(v)'
    BY DEF MarkersInv
  <2>1. CASE v = w
    BY <1>1, <1>2, <1>5, <1>8, <2>1, DealFacts DEF MarkersInv, MarkersOf
  <2>2. CASE v # w
    BY <1>1, <1>5, <1>8, <2>2, MarkersStay, DealFacts DEF MarkersInv
  <2> QED
    BY <2>1, <2>2
<1>10. BarrierInv'
  <2>1. \A v \in Workers : entered[v] >= 1 => worker'[v].pc \in {"barrier", "end", "done"}
    BY <1>1, <1>5, DealFacts DEF BarrierInv
  <2> QED
    BY <1>1, <1>4, <2>1, DealFacts DEF BarrierInv, Broadcasts
<1> QED
  BY <1>6, <1>7, <1>9, <1>10 DEF DealIInv

LEMMA SentAllKeeps ==
  ASSUME DealIInv, SentAll
  PROVE  DealIInv'
<1>1. /\ root.pc = "send" /\ root' = [root EXCEPT !.pc = "mark", !.dest = 1]
      /\ worker' = worker /\ cast' = cast /\ entered' = entered /\ inbox' = inbox
      /\ underWay' = underWay /\ arrived' = arrived /\ memMatches' = memMatches
  BY DEF SentAll, places
<1>2. root' \in RootType /\ root'.pc = "mark" /\ root'.next = root.next /\ root'.dest = 1
  <2>1. "mark" \in RootPositions /\ 1 \in 1..(NWorkers + 1)
    BY DealConstants DEF RootPositions
  <2> QED
    BY <1>1, <2>1, DealFacts DEF RootType
<1>3. DealTypeOK'
  BY <1>1, <1>2, DealFacts DEF DealTypeOK, RootType, WorkerType
<1>4. PlacesInv'
  BY <1>1, <1>2, PlacesStay, DealFacts
<1>5. \A w \in Workers : Marked(w) => Marked(w)'
  BY <1>1 DEF Marked
<1>6. MarkersInv'
  BY <1>1, <1>5, MarkersStay, DealFacts DEF MarkersInv
<1>7. BarrierInv'
  BY <1>1, <1>2, DealFacts DEF BarrierInv
<1> QED
  BY <1>3, <1>4, <1>6, <1>7 DEF DealIInv

\* An example dealt is new.
LEMMA SendExampleKeeps ==
  ASSUME DealIInv, SendExample
  PROVE  DealIInv'
<1> DEFINE d == root.dest
           y == root.next
           q == Append(inbox[d], y)
<1>1. /\ root.pc = "send" /\ y <= FileExamples /\ Len(inbox[d]) < Eager
      /\ inbox' = [inbox EXCEPT ![d] = q]
      /\ root' = [pc |-> "poll", next |-> y + 1, dest |-> NextDest(d)]
      /\ worker' = worker /\ cast' = cast /\ entered' = entered
      /\ underWay' = underWay /\ arrived' = arrived /\ memMatches' = memMatches
  BY DEF SendExample
<1>2. /\ d \in Workers /\ y \in Examples /\ y \in Nat /\ NextDest(d) \in 1..NWorkers
      /\ y # Marker /\ NWorkers \in Nat
  <2>1. NWorkers \in Nat \ {0} /\ FileExamples \in Nat /\ d \in 1..(NWorkers + 1)
        /\ y \in 1..(FileExamples + 1)
    BY DealFacts, DealConstants
  <2>2. d <= NWorkers
    BY <1>1, DealFacts DEF BarrierInv
  <2>3. d \in 1..NWorkers /\ y \in 1..FileExamples
    BY <1>1, <2>1, <2>2
  <2>4. NextDest(d) \in 1..NWorkers
    BY <2>1, <2>3 DEF NextDest
  <2> QED
    BY <2>1, <2>3, <2>4 DEF Workers, Examples, Marker
<1>3. inbox[d] \in Seq(Examples \cup {Marker}) /\ Len(inbox[d]) \in Nat
  BY <1>2, DealFacts
<1>4. /\ q \in Seq(Examples \cup {Marker}) /\ Len(q) = Len(inbox[d]) + 1
      /\ \A x : /\ Has(q, x) <=> Has(inbox[d], x) \/ x = y
                /\ Once(inbox[d], x) /\ (x = y => ~Has(inbox[d], x)) => Once(q, x)
  BY <1>2, <1>3, HasAppended
<1>5. /\ inbox' \in [Workers -> Seq(Examples \cup {Marker})] /\ inbox'[d] = q
      /\ \A w \in Workers : w # d => inbox'[w] = inbox[w]
  BY <1>1, <1>2, <1>4, DealFacts
<1>6. /\ root' \in RootType /\ root'.pc = "poll" /\ root'.next = y + 1
      /\ root'.dest \in 1..NWorkers
  <2>1. /\ y + 1 \in 1..(FileExamples + 1) /\ NextDest(d) \in 1..(NWorkers + 1)
        /\ "poll" \in RootPositions
    BY <1>2, DealConstants DEF Examples, RootPositions
  <2>2. root'.pc = "poll" /\ root'.next = y + 1 /\ root'.dest = NextDest(d)
    BY <1>1
  <2>3. root' \in RootType
    BY <1>1, <2>1 DEF RootType
  <2> QED
    BY <1>2, <2>2, <2>3
<1> HIDE DEF q, d, y
<1>7. DealTypeOK'
  <2>1. Len(q) <= Eager
    BY <1>1, <1>3, <1>4, DealConstants
  <2>2. \A w \in Workers : Len(inbox'[w]) <= Eager
    BY <1>5, <2>1, DealFacts
  <2> QED
    BY <1>1, <1>5, <1>6, <2>2, DealFacts DEF DealTypeOK, RootType, WorkerType
<1>8. PlacesInv'
  <2>1. ~IsSomewhere(y)
    <3>1. ~(y < root.next)
      BY <1>2 DEF y
    <3> QED
      BY <1>2, <3>1, DealFacts DEF PlacesInv, Somewhere
  <2>2. \A w \in Workers : \A x \in Examples : WithWorker(w, x)' <=> WithWorker(w, x) \/ (w = d /\ x = y)
    <3> SUFFICES ASSUME NEW w \in Workers, NEW x \in Examples
                 PROVE  WithWorker(w, x)' <=> WithWorker(w, x) \/ (w = d /\ x = y)
      OBVIOUS
    <3>1. CASE w = d
      BY <1>1, <1>4, <1>5, <3>1 DEF WithWorker
    <3>2. CASE w # d
      BY <1>1, <1>5, <3>2 DEF WithWorker
    <3> QED
      BY <3>1, <3>2
  <2>3. \A w \in Workers : \A x \in Examples : OneKind(w, x)'
    <3> SUFFICES ASSUME NEW w \in Workers, NEW x \in Examples
                 PROVE  OneKind(w, x)'
      OBVIOUS
    <3>1. OneKind(w, x) /\ (x = y => ~WithWorker(w, x))
      BY <2>1, DealFacts DEF PlacesInv, IsSomewhere
    <3>2. CASE w = d
      BY <1>1, <1>4, <1>5, <3>1, <3>2 DEF OneKind, WithWorker
    <3>3. CASE w # d
      BY <1>1, <1>5, <3>1, <3>3 DEF OneKind
    <3> QED
      BY <3>2, <3>3
  <2>4. Somewhere'
    <3> SUFFICES ASSUME NEW x \in Examples
                 PROVE  x < root'.next <=> IsSomewhere(x)'
      BY DEF Somewhere
    <3>1. x < root'.next <=> x < root.next \/ x = y
      BY <1>2, <1>6, DealConstants DEF y
    <3>2. IsSomewhere(x)' <=> IsSomewhere(x) \/ x = y
      BY <1>1, <1>2, <2>2 DEF IsSomewhere
    <3> QED
      BY <3>1, <3>2, DealFacts DEF PlacesInv, Somewhere
  <2>5. OneWorker'
    <3> SUFFICES ASSUME NEW x \in Examples, NEW w \in Workers, WithWorker(w, x)'
                 PROVE  x \notin memMatches' /\ \A v \in Workers : WithWorker(v, x)' => v = w
      BY DEF OneWorker
    <3>1. CASE x = y
      BY <1>1, <2>1, <2>2, <3>1 DEF IsSomewhere
    <3>2. CASE x # y
      BY <1>1, <2>2, <3>2, DealFacts DEF PlacesInv, OneWorker
    <3> QED
      BY <3>1, <3>2
  <2> QED
    BY <2>3, <2>4, <2>5 DEF PlacesInv
<1>9. \A w \in Workers : ~Marked(w)
  BY <1>1 DEF Marked
<1>10. MarkersInv'
  <2> SUFFICES ASSUME NEW w \in Workers
               PROVE  MarkersOf(w)'
    BY DEF MarkersInv
  <2>1. MarkersOf(w) /\ ~Marked(w)
    BY <1>9, DealFacts DEF MarkersInv
  <2>2. CASE w = d
    <3>1. ~Has(inbox'[w], Marker)
      BY <1>2, <1>4, <1>5, <2>1, <2>2 DEF MarkersOf
    <3> QED
      BY <1>1, <2>1, <3>1 DEF MarkersOf, Has
  <2>3. CASE w # d
    BY <1>1, <1>5, <2>1, <2>3, MarkersStay
  <2> QED
    BY <2>2, <2>3
<1>11. BarrierInv'
  BY <1>1, <1>2, <1>6, DealFacts DEF BarrierInv
<1> QED
  BY <1>7, <1>8, <1>10, <1>11 DEF DealIInv

\* A match collected is recorded, and there is no other.
LEMMA CollectKeeps ==
  ASSUME DealIInv, NEW after \in RootPositions, Collect(after),
         (root.pc = "poll" /\ after = "send") \/ (root.pc = "last" /\ after = "end"),
         worker' = worker, cast' = cast, entered' = entered
  PROVE  DealIInv'
<1>1. CASE RootGoes(after) /\ UNCHANGED places
  <2>1. /\ inbox' = inbox /\ underWay' = underWay /\ arrived' = arrived /\ memMatches' = memMatches
    BY <1>1 DEF places
  <2>2. root' \in RootType /\ root'.pc = after /\ root'.next = root.next /\ root'.dest = root.dest
    BY <1>1, RootMoves, DealFacts
  <2>3. DealTypeOK'
    BY <2>1, <2>2, DealFacts DEF DealTypeOK, RootType, WorkerType
  <2>4. PlacesInv'
    BY <2>1, <2>2, PlacesStay, DealFacts
  <2>5. (root.pc = "poll" /\ after = "send") \/ (root.pc = "last" /\ after = "end")
    OBVIOUS
  <2>6. \A w \in Workers : Marked(w) => Marked(w)'
    BY <2>2, <2>5 DEF Marked
  <2>7. MarkersInv'
    BY <2>1, <2>6, MarkersStay, DealFacts DEF MarkersInv
  <2>8. BarrierInv'
    BY <2>2, <2>5, DealFacts DEF BarrierInv
  <2> QED
    BY <2>3, <2>4, <2>7, <2>8 DEF DealIInv
<1>2. CASE \E w \in Workers :
             /\ arrived[w] # <<>>
             /\ memMatches' = memMatches \cup {Head(arrived[w])}
             /\ arrived' = [arrived EXCEPT ![w] = Tail(@)]
             /\ UNCHANGED <<root, inbox, underWay>>
  <2>1. PICK w \in Workers :
             /\ arrived[w] # <<>>
             /\ memMatches' = memMatches \cup {Head(arrived[w])}
             /\ arrived' = [arrived EXCEPT ![w] = Tail(arrived[w])]
             /\ root' = root /\ inbox' = inbox /\ underWay' = underWay
    BY <1>2
  <2> DEFINE y == Head(arrived[w])
             t == Tail(arrived[w])
  <2>2. arrived[w] \in Seq(Examples)
    BY DealFacts
  <2>3. /\ y \in Examples /\ t \in Seq(Examples) /\ Len(t) = Len(arrived[w]) - 1
        /\ Len(arrived[w]) \in Nat \ {0} /\ Has(arrived[w], y)
        /\ \A x : /\ Has(arrived[w], x) <=> Has(t, x) \/ x = y
                  /\ Once(arrived[w], x) => Once(t, x) /\ (x = y => ~Has(t, x))
    BY <2>1, <2>2, HasTaken
  <2>4. /\ arrived' \in [Workers -> Seq(Examples)] /\ arrived'[w] = t
        /\ \A v \in Workers : v # w => arrived'[v] = arrived[v]
    BY <2>1, <2>3, DealFacts
  <2>5. memMatches' = memMatches \cup {y}
    BY <2>1
  <2> HIDE DEF y, t
  <2>6. DealTypeOK'
    <3>1. \A v \in Workers : Len(underWay'[v]) + Len(arrived'[v]) <= Eager
      <4> SUFFICES ASSUME NEW v \in Workers
                   PROVE  Len(underWay'[v]) + Len(arrived'[v]) <= Eager
        OBVIOUS
      <4>1. CASE v = w
        <5>1. /\ Len(underWay[w]) \in Nat /\ Len(underWay[w]) + Len(arrived[w]) <= Eager
          BY DealFacts
        <5> QED
          BY <2>1, <2>3, <2>4, <4>1, <5>1, DealConstants
      <4>2. CASE v # w
        BY <2>1, <2>4, <4>2, DealFacts
      <4> QED
        BY <4>1, <4>2
    <3> QED
      BY <2>1, <2>3, <2>4, <2>5, <3>1, DealFacts DEF DealTypeOK, RootType, WorkerType
  <2>7. PlacesInv'
    <3>1. WithWorker(w, y) /\ y \notin memMatches /\ \A v \in Workers : WithWorker(v, y) => v = w
      BY <2>3, DealFacts DEF WithWorker, PlacesInv, OneWorker
    <3>2. \A v \in Workers : \A x \in Examples :
            WithWorker(v, x)' <=> WithWorker(v, x) /\ ~(v = w /\ x = y)
      <4> SUFFICES ASSUME NEW v \in Workers, NEW x \in Examples
                   PROVE  WithWorker(v, x)' <=> WithWorker(v, x) /\ ~(v = w /\ x = y)
        OBVIOUS
      <4>1. CASE v = w
        <5>1. OneKind(w, x)
          BY DealFacts DEF PlacesInv
        <5> QED
          BY <2>1, <2>3, <2>4, <4>1, <5>1 DEF WithWorker, OneKind
      <4>2. CASE v # w
        BY <2>1, <2>4, <4>2 DEF WithWorker
      <4> QED
        BY <4>1, <4>2
    <3>3. \A v \in Workers : \A x \in Examples : OneKind(v, x)'
      <4> SUFFICES ASSUME NEW v \in Workers, NEW x \in Examples
                   PROVE  OneKind(v, x)'
        OBVIOUS
      <4>1. OneKind(v, x)
        BY DealFacts DEF PlacesInv
      <4>2. CASE v = w
        BY <2>1, <2>3, <2>4, <4>1, <4>2 DEF OneKind
      <4>3. CASE v # w
        BY <2>1, <2>4, <4>1, <4>3 DEF OneKind
      <4> QED
        BY <4>2, <4>3
    <3>4. Somewhere'
      <4> SUFFICES ASSUME NEW x \in Examples
                   PROVE  x < root'.next <=> IsSomewhere(x)'
        BY DEF Somewhere
      <4>1. IsSomewhere(x)' <=> IsSomewhere(x)
        BY <2>5, <3>1, <3>2 DEF IsSomewhere
      <4> QED
        BY <2>1, <4>1, DealFacts DEF PlacesInv, Somewhere
    <3>5. OneWorker'
      <4> SUFFICES ASSUME NEW x \in Examples, NEW v \in Workers, WithWorker(v, x)'
                   PROVE  x \notin memMatches' /\ \A u \in Workers : WithWorker(u, x)' => u = v
        BY DEF OneWorker
      <4>1. x # y
        BY <3>1, <3>2
      <4> QED
        BY <2>5, <3>2, <4>1, DealFacts DEF PlacesInv, OneWorker
    <3> QED
      BY <3>3, <3>4, <3>5 DEF PlacesInv
  <2>8. MarkersInv'
    <3>1. \A v \in Workers : Marked(v) => Marked(v)'
      BY <2>1 DEF Marked
    <3> QED
      BY <2>1, <3>1, MarkersStay, DealFacts DEF MarkersInv
  <2>9. BarrierInv'
    BY <2>1, DealFacts DEF BarrierInv
  <2> QED
    BY <2>6, <2>7, <2>8, <2>9 DEF DealIInv
<1> QED
  BY <1>1, <1>2 DEF Collect

\* A worker gets one marker.
LEMMA MarkKeeps ==
  ASSUME DealIInv, Mark
  PROVE  DealIInv'
<1>1. /\ root.pc = "mark" /\ worker' = worker /\ cast' = cast /\ entered' = entered
      /\ underWay' = underWay /\ arrived' = arrived /\ memMatches' = memMatches
      /\ \/ /\ root.dest <= NWorkers /\ Len(inbox[root.dest]) < Eager
            /\ inbox' = [inbox EXCEPT ![root.dest] = Append(inbox[root.dest], Marker)]
            /\ root' = [root EXCEPT !.dest = root.dest + 1]
         \/ ~(root.dest <= NWorkers) /\ RootGoes("barrier") /\ inbox' = inbox
  BY DEF Mark
<1>2. CASE ~(root.dest <= NWorkers) /\ RootGoes("barrier") /\ inbox' = inbox
  <2>1. root' \in RootType /\ root'.pc = "barrier" /\ root'.next = root.next
    BY <1>2, RootMoves, DealFacts DEF RootPositions
  <2>2. DealTypeOK'
    BY <1>1, <1>2, <2>1, DealFacts DEF DealTypeOK, RootType, WorkerType
  <2>3. PlacesInv'
    BY <1>1, <1>2, <2>1, PlacesStay, DealFacts
  <2>4. \A w \in Workers : Marked(w) => Marked(w)'
    BY <2>1 DEF Marked
  <2>5. MarkersInv'
    BY <1>1, <1>2, <2>4, MarkersStay, DealFacts DEF MarkersInv
  <2>6. BarrierInv'
    BY <1>1, <2>1, DealFacts DEF BarrierInv
  <2> QED
    BY <2>2, <2>3, <2>5, <2>6 DEF DealIInv
<1>3. CASE /\ root.dest <= NWorkers /\ Len(inbox[root.dest]) < Eager
           /\ inbox' = [inbox EXCEPT ![root.dest] = Append(inbox[root.dest], Marker)]
           /\ root' = [root EXCEPT !.dest = root.dest + 1]
  <2>0. PICK d \in Workers : d = root.dest
    BY <1>3, DealFacts, DealConstants DEF Workers
  <2> DEFINE q == Append(inbox[d], Marker)
  <2>1. d \in Workers /\ d \in Nat /\ NWorkers \in Nat
    BY DealConstants
  <2>2. inbox[d] \in Seq(Examples \cup {Marker}) /\ Len(inbox[d]) \in Nat
    BY <2>1, DealFacts
  <2>3. /\ q \in Seq(Examples \cup {Marker}) /\ Len(q) = Len(inbox[d]) + 1
        /\ \A x : /\ Has(q, x) <=> Has(inbox[d], x) \/ x = Marker
                  /\ Once(inbox[d], x) /\ (x = Marker => ~Has(inbox[d], x)) => Once(q, x)
    BY <2>2, HasAppended
  <2>4. /\ inbox' \in [Workers -> Seq(Examples \cup {Marker})] /\ inbox'[d] = q
        /\ \A w \in Workers : w # d => inbox'[w] = inbox[w]
    BY <1>3, <2>0, <2>1, <2>3, DealFacts
  <2>5. root' \in RootType /\ root'.pc = "mark" /\ root'.next = root.next /\ root'.dest = d + 1
    <3>1. d + 1 \in 1..(NWorkers + 1)
      BY <1>3, <2>0, <2>1
    <3> QED
      BY <1>1, <1>3, <2>0, <3>1, DealFacts DEF RootType
  <2>6. DOMAIN q = 1..Len(q) /\ \A i \in 1..Len(inbox[d]) : q[i] = inbox[d][i]
    BY <2>2
  <2> HIDE DEF q
  <2>7. DealTypeOK'
    <3>1. Len(q) <= Eager
      BY <1>3, <2>0, <2>2, <2>3, DealConstants
    <3>2. \A w \in Workers : Len(inbox'[w]) <= Eager
      BY <2>4, <3>1, DealFacts
    <3> QED
      BY <1>1, <2>4, <2>5, <3>2, DealFacts DEF DealTypeOK, RootType, WorkerType
  <2>8. PlacesInv'
    <3>1. ASSUME NEW x \in Examples, NEW w \in Workers
          PROVE  (WithWorker(w, x)' <=> WithWorker(w, x)) /\ OneKind(w, x)'
      <4>1. OneKind(w, x) /\ x # Marker
        BY DealFacts, DealConstants DEF PlacesInv
      <4>2. CASE w = d
        BY <1>1, <2>3, <2>4, <4>1, <4>2 DEF WithWorker, OneKind
      <4>3. CASE w # d
        BY <1>1, <2>4, <4>1, <4>3 DEF WithWorker, OneKind
      <4> QED
        BY <4>2, <4>3
    <3> QED
      BY <1>1, <2>5, <3>1, PlacesMoved, DealFacts
  <2>9. \A w \in Workers : (Marked(w) => Marked(w)') /\ Marked(d)' /\ ~Marked(d)
    <3>1. \A w \in Workers : w \in Nat
      BY DealConstants
    <3> QED
      BY <1>1, <2>0, <2>1, <2>5, <3>1 DEF Marked
  <2>10. MarkersInv'
    <3> SUFFICES ASSUME NEW w \in Workers
                 PROVE  MarkersOf(w)'
      BY DEF MarkersInv
    <3>1. MarkersOf(w)
      BY DealFacts DEF MarkersInv
    <3>2. CASE w = d
      <4>1. ~Has(inbox[d], Marker) /\ worker[w].pc \in {"cast", "recv", "send"}
        BY <2>1, <2>9, <3>1, <3>2, DealFacts DEF MarkersOf, WorkerPositions
      <4>2. \A i \in DOMAIN q : q[i] = Marker => i = Len(q)
        <5>1. \A i \in 1..Len(q) : i \in 1..Len(inbox[d]) \/ i = Len(q)
          BY <2>2, <2>3
        <5>2. \A i \in 1..Len(inbox[d]) : q[i] # Marker
          BY <2>2, <2>6, <4>1 DEF Has
        <5> QED
          BY <2>6, <5>1, <5>2
      <4>3. worker'[w] = worker[w] /\ inbox'[w] = q /\ Marked(w)'
        BY <1>1, <2>4, <2>9, <3>2
      <4> QED
        BY <3>1, <4>1, <4>2, <4>3 DEF MarkersOf
    <3>3. CASE w # d
      BY <1>1, <2>4, <2>9, <3>1, <3>3, MarkersStay
    <3> QED
      BY <3>2, <3>3
  <2>11. BarrierInv'
    BY <1>1, <2>5, DealFacts DEF BarrierInv
  <2> QED
    BY <2>7, <2>8, <2>10, <2>11 DEF DealIInv
<1> QED
  BY <1>1, <1>2, <1>3

\* A worker takes an example into its hands, or its marker and comes to the barrier.
LEMMA RecvExampleKeeps ==
  ASSUME DealIInv, NEW w \in Workers, RecvExample(w)
  PROVE  DealIInv'
<1>1. PICK y, t, q : y = Head(inbox[w]) /\ t = Tail(inbox[w]) /\ q = inbox[w]
  OBVIOUS
<1>2. /\ worker[w].pc = "recv" /\ q # <<>>
      /\ inbox' = [inbox EXCEPT ![w] = t]
      /\ worker' = [worker EXCEPT ![w] =
                      IF y = Marker THEN [pc |-> "barrier", holds |-> {}]
                      ELSE [pc |-> "send", holds |-> {y}]]
      /\ root' = root /\ cast' = cast /\ entered' = entered
      /\ underWay' = underWay /\ arrived' = arrived /\ memMatches' = memMatches
  BY <1>1 DEF RecvExample
<1>3. q \in Seq(Examples \cup {Marker}) /\ q = inbox[w]
  BY <1>1, DealFacts
<1>4. /\ y \in Examples \cup {Marker} /\ t \in Seq(Examples \cup {Marker})
      /\ Len(t) = Len(q) - 1 /\ Len(q) \in Nat \ {0} /\ Has(q, y)
      /\ \A x : /\ Has(q, x) <=> Has(t, x) \/ x = y
                /\ Once(q, x) => Once(t, x) /\ (x = y => ~Has(t, x))
  BY <1>1, <1>2, <1>3, HasTaken
<1>5. /\ inbox' \in [Workers -> Seq(Examples \cup {Marker})] /\ inbox'[w] = t
      /\ \A v \in Workers : v # w => inbox'[v] = inbox[v]
  BY <1>2, <1>4, DealFacts
<1>6. /\ y = Marker => worker'[w] = [pc |-> "barrier", holds |-> {}]
      /\ y # Marker => worker'[w] = [pc |-> "send", holds |-> {y}]
      /\ \A v \in Workers : v # w => worker'[v] = worker[v]
      /\ worker' \in [Workers -> WorkerType]
  <2>1. [pc |-> "barrier", holds |-> {}] \in WorkerType
    BY DEF WorkerType, WorkerPositions
  <2>2. y # Marker => [pc |-> "send", holds |-> {y}] \in WorkerType
    BY <1>4 DEF WorkerType, WorkerPositions
  <2> QED
    BY <1>2, <2>1, <2>2, DealFacts
<1>7. /\ y = Marker => worker'[w].pc = "barrier" /\ worker'[w].holds = {}
      /\ y # Marker => worker'[w].pc = "send" /\ worker'[w].holds = {y}
  BY <1>6
<1>8. MarkersOf(w) /\ worker[w].holds = {}
  BY <1>2, DealFacts DEF MarkersInv, MarkersOf
<1>9. \A v \in Workers : Marked(v) <=> Marked(v)'
  BY <1>2 DEF Marked
<1>10. DealTypeOK'
  <2>1. Len(t) <= Eager
    <3>1. Len(q) <= Eager /\ Len(q) \in Nat /\ Len(t) = Len(q) - 1 /\ Eager \in Nat
      BY <1>3, <1>4, DealFacts, DealConstants
    <3> QED
      BY <3>1
  <2>2. \A v \in Workers : Len(inbox'[v]) <= Eager
    BY <1>5, <2>1, DealFacts
  <2> QED
    BY <1>2, <1>5, <1>6, <2>2, DealFacts DEF DealTypeOK, RootType, WorkerType
<1>11. PlacesInv'
  <2>1. ASSUME NEW x \in Examples, NEW v \in Workers
        PROVE  (WithWorker(v, x)' <=> WithWorker(v, x)) /\ OneKind(v, x)'
    <3>1. OneKind(v, x) /\ x # Marker
      BY DealFacts, DealConstants DEF PlacesInv
    <3>2. CASE v = w
      <4>1. x \in worker'[w].holds <=> x = y
        BY <1>7, <3>1
      <4>2. /\ Has(inbox[w], x) <=> Has(inbox'[w], x) \/ x = y
            /\ Once(inbox'[w], x) /\ (x = y => ~Has(inbox'[w], x))
            /\ x \notin worker[w].holds
        BY <1>3, <1>4, <1>5, <1>8, <3>1, <3>2 DEF OneKind
      <4>3. underWay'[w] = underWay[w] /\ arrived'[w] = arrived[w]
        BY <1>2
      <4> QED
        BY <3>1, <3>2, <4>1, <4>2, <4>3 DEF WithWorker, OneKind
    <3>3. CASE v # w
      BY <1>2, <1>5, <1>6, <3>1, <3>3 DEF WithWorker, OneKind
    <3> QED
      BY <3>2, <3>3
  <2> QED
    BY <1>2, <2>1, PlacesMoved, DealFacts
<1>12. MarkersInv'
  <2> SUFFICES ASSUME NEW v \in Workers
               PROVE  MarkersOf(v)'
    BY DEF MarkersInv
  <2>1. CASE v # w
    BY <1>5, <1>6, <1>9, <2>1, MarkersStay, DealFacts DEF MarkersInv
  <2>2. CASE v = w /\ y = Marker
    <3>1. Marked(w)' /\ \A i \in DOMAIN q : q[i] = Marker => i = Len(q)
      BY <1>3, <1>4, <1>8, <1>9, <2>2 DEF MarkersOf
    <3>2. q[1] = Marker /\ 1 \in DOMAIN q
      BY <1>1, <1>3, <1>4, <2>2
    <3>3. Len(t) = 0
      BY <1>4, <3>1, <3>2
    <3>4. inbox'[w] = <<>>
      BY <1>4, <1>5, <3>3
    <3>5. ~Has(<<>>, Marker) /\ DOMAIN <<>> = {}
      BY DEF Has
    <3> QED
      BY <1>7, <2>2, <3>1, <3>4, <3>5 DEF MarkersOf
  <2>3. CASE v = w /\ y # Marker
    <3>1. y \in Examples /\ worker'[w].pc = "send" /\ worker'[w].holds = {y}
      BY <1>4, <1>7, <2>3
    <3>2. Has(t, Marker) => Marked(w)'
      BY <1>3, <1>4, <1>8, <1>9 DEF MarkersOf
    <3>3. \A i \in DOMAIN t : t[i] = Marker => i = Len(t)
      <4>1. DOMAIN q = 1..Len(q) /\ DOMAIN t = 1..Len(t)
        BY <1>3, <1>4
      <4>2. \A i \in 1..Len(t) : t[i] = q[i + 1] /\ i + 1 \in 1..Len(q)
        BY <1>1, <1>3, <1>4
      <4>3. \A i \in DOMAIN q : q[i] = Marker => i = Len(q)
        BY <1>3, <1>8 DEF MarkersOf
      <4>4. ASSUME NEW i \in 1..Len(t), t[i] = Marker
            PROVE  i = Len(t)
        <5>1. i + 1 = Len(q)
          BY <4>1, <4>2, <4>3, <4>4
        <5> QED
          BY <1>4, <5>1
      <4> QED
        BY <4>1, <4>4
    <3> QED
      BY <1>5, <2>3, <3>1, <3>2, <3>3 DEF MarkersOf
  <2> QED
    BY <2>1, <2>2, <2>3
<1>13. BarrierInv'
  <2>1. \A v \in Workers : entered[v] >= 1 => v # w /\ worker'[v].pc \in {"barrier", "end", "done"}
    BY <1>2, <1>6, DealFacts DEF BarrierInv
  <2> QED
    BY <1>2, <2>1, DealFacts DEF BarrierInv
<1> QED
  BY <1>10, <1>11, <1>12, <1>13 DEF DealIInv

\* The match a worker has made goes its way, and its hands are empty.
LEMMA SendMatchKeeps ==
  ASSUME DealIInv, NEW w \in Workers, SendMatch(w)
  PROVE  DealIInv'
<1>1. PICK y \in worker[w].holds : underWay' = [underWay EXCEPT ![w] = Append(underWay[w], y)]
  BY DEF SendMatch
<1>2. PICK q : q = Append(underWay[w], y)
  OBVIOUS
<1>3. /\ worker[w].pc = "send" /\ Len(underWay[w]) + Len(arrived[w]) < Eager
      /\ underWay' = [underWay EXCEPT ![w] = q]
      /\ worker' = [worker EXCEPT ![w] = [pc |-> "recv", holds |-> {}]]
      /\ root' = root /\ cast' = cast /\ entered' = entered
      /\ inbox' = inbox /\ arrived' = arrived /\ memMatches' = memMatches
  BY <1>1, <1>2 DEF SendMatch
<1>4. MarkersOf(w) /\ worker[w].holds = {y} /\ y \in Examples
  <2>1. MarkersOf(w) /\ worker[w].holds \subseteq Examples
    BY DealFacts DEF MarkersInv
  <2> QED
    BY <1>1, <1>3, <2>1 DEF MarkersOf
<1>5. underWay[w] \in Seq(Examples) /\ arrived[w] \in Seq(Examples)
  BY DealFacts
<1>6. /\ q \in Seq(Examples) /\ Len(q) = Len(underWay[w]) + 1
      /\ \A x : /\ Has(q, x) <=> Has(underWay[w], x) \/ x = y
                /\ Once(underWay[w], x) /\ (x = y => ~Has(underWay[w], x)) => Once(q, x)
  BY <1>2, <1>4, <1>5, HasAppended
<1>7. /\ underWay' \in [Workers -> Seq(Examples)] /\ underWay'[w] = q
      /\ \A v \in Workers : v # w => underWay'[v] = underWay[v]
  BY <1>3, <1>6, DealFacts
<1>8. /\ worker' \in [Workers -> WorkerType]
      /\ worker'[w].pc = "recv" /\ worker'[w].holds = {}
      /\ \A v \in Workers : v # w => worker'[v] = worker[v]
  <2>1. [pc |-> "recv", holds |-> {}] \in WorkerType
    BY DEF WorkerType, WorkerPositions
  <2> QED
    BY <1>3, <2>1, DealFacts
<1>9. \A v \in Workers : Marked(v) <=> Marked(v)'
  BY <1>3 DEF Marked
<1>10. DealTypeOK'
  <2>1. Len(q) + Len(arrived[w]) <= Eager
    <3>1. Len(underWay[w]) \in Nat /\ Len(arrived[w]) \in Nat /\ Eager \in Nat
      BY <1>5, DealConstants
    <3>2. Len(underWay[w]) + Len(arrived[w]) < Eager /\ Len(q) = Len(underWay[w]) + 1
      BY <1>3, <1>6
    <3>3. \A a, b, e \in Nat : a + b < e => (a + 1) + b <= e
      OBVIOUS
    <3>4. (Len(underWay[w]) + 1) + Len(arrived[w]) <= Eager
      BY <3>1, <3>2, <3>3, Zenon
    <3> QED
      BY <3>2, <3>4, Zenon
  <2>2. \A v \in Workers : Len(underWay'[v]) + Len(arrived'[v]) <= Eager
    BY <1>3, <1>7, <2>1, DealFacts
  <2> QED
    BY <1>3, <1>7, <1>8, <2>2, DealFacts DEF DealTypeOK, RootType, WorkerType
<1>11. PlacesInv'
  <2>1. ASSUME NEW x \in Examples, NEW v \in Workers
        PROVE  (WithWorker(v, x)' <=> WithWorker(v, x)) /\ OneKind(v, x)'
    <3>1. OneKind(v, x)
      BY DealFacts DEF PlacesInv
    <3>2. CASE v = w
      <4>1. /\ x \in worker[w].holds <=> x = y
            /\ x \notin worker'[w].holds
        BY <1>4, <1>8
      <4>2. /\ Has(underWay'[w], x) <=> Has(underWay[w], x) \/ x = y
            /\ Once(underWay'[w], x)
        BY <1>6, <1>7, <3>1, <3>2, <4>1 DEF OneKind
      <4>3. inbox'[w] = inbox[w] /\ arrived'[w] = arrived[w]
        BY <1>3
      <4> QED
        BY <3>1, <3>2, <4>1, <4>2, <4>3 DEF WithWorker, OneKind
    <3>3. CASE v # w
      BY <1>3, <1>7, <1>8, <3>1, <3>3 DEF WithWorker, OneKind
    <3> QED
      BY <3>2, <3>3
  <2> QED
    BY <1>3, <2>1, PlacesMoved, DealFacts
<1>12. MarkersInv'
  <2> SUFFICES ASSUME NEW v \in Workers
               PROVE  MarkersOf(v)'
    BY DEF MarkersInv
  <2>1. CASE v # w
    BY <1>3, <1>8, <1>9, <2>1, MarkersStay, DealFacts DEF MarkersInv
  <2>2. CASE v = w
    BY <1>3, <1>4, <1>8, <1>9, <2>2 DEF MarkersOf
  <2> QED
    BY <2>1, <2>2
<1>13. BarrierInv'
  <2>1. \A v \in Workers : entered[v] >= 1 => v # w /\ worker'[v].pc \in {"barrier", "end", "done"}
    BY <1>3, <1>8, DealFacts DEF BarrierInv
  <2> QED
    BY <1>3, <2>1, DealFacts DEF BarrierInv
<1> QED
  BY <1>10, <1>11, <1>12, <1>13 DEF DealIInv

\* A match arrives: in the order of the sends, and once.
LEMMA ArriveKeeps ==
  ASSUME DealIInv, NEW w \in Workers, Arrive(w)
  PROVE  DealIInv'
<1>1. PICK y, t, q : y = Head(underWay[w]) /\ t = Tail(underWay[w]) /\ q = Append(arrived[w], y)
  OBVIOUS
<1>2. /\ underWay[w] # <<>>
      /\ arrived' = [arrived EXCEPT ![w] = q] /\ underWay' = [underWay EXCEPT ![w] = t]
      /\ root' = root /\ worker' = worker /\ cast' = cast /\ entered' = entered
      /\ inbox' = inbox /\ memMatches' = memMatches
  BY <1>1 DEF Arrive
<1>3. underWay[w] \in Seq(Examples) /\ arrived[w] \in Seq(Examples)
  BY DealFacts
<1>4. /\ y \in Examples /\ t \in Seq(Examples)
      /\ Len(t) = Len(underWay[w]) - 1 /\ Len(underWay[w]) \in Nat \ {0}
      /\ \A x : /\ Has(underWay[w], x) <=> Has(t, x) \/ x = y
                /\ Once(underWay[w], x) => Once(t, x) /\ (x = y => ~Has(t, x))
  BY <1>1, <1>2, <1>3, HasTaken
<1>5. /\ q \in Seq(Examples) /\ Len(q) = Len(arrived[w]) + 1
      /\ \A x : /\ Has(q, x) <=> Has(arrived[w], x) \/ x = y
                /\ Once(arrived[w], x) /\ (x = y => ~Has(arrived[w], x)) => Once(q, x)
  BY <1>1, <1>3, <1>4, HasAppended
<1>6. /\ underWay' \in [Workers -> Seq(Examples)] /\ underWay'[w] = t
      /\ arrived' \in [Workers -> Seq(Examples)] /\ arrived'[w] = q
      /\ \A v \in Workers : v # w => underWay'[v] = underWay[v] /\ arrived'[v] = arrived[v]
  BY <1>2, <1>4, <1>5, DealFacts
<1>7. DealTypeOK'
  <2>1. Len(t) + Len(q) <= Eager
    <3>1. /\ Len(underWay[w]) \in Nat /\ Len(arrived[w]) \in Nat
          /\ Len(underWay[w]) + Len(arrived[w]) <= Eager /\ Eager \in Nat
      BY <1>3, DealFacts, DealConstants
    <3>2. Len(t) = Len(underWay[w]) - 1 /\ Len(q) = Len(arrived[w]) + 1
      BY <1>4, <1>5
    <3>3. \A a, b, e \in Nat : a + b <= e => (a - 1) + (b + 1) <= e
      OBVIOUS
    <3>4. (Len(underWay[w]) - 1) + (Len(arrived[w]) + 1) <= Eager
      BY <3>1, <3>3, Zenon
    <3> QED
      BY <3>2, <3>4, Zenon
  <2>2. \A v \in Workers : Len(underWay'[v]) + Len(arrived'[v]) <= Eager
    BY <1>6, <2>1, DealFacts
  <2> QED
    BY <1>2, <1>6, <2>2, DealFacts DEF DealTypeOK, RootType, WorkerType
<1>8. PlacesInv'
  <2>1. ASSUME NEW x \in Examples, NEW v \in Workers
        PROVE  (WithWorker(v, x)' <=> WithWorker(v, x)) /\ OneKind(v, x)'
    <3>1. OneKind(v, x)
      BY DealFacts DEF PlacesInv
    <3>2. CASE v = w
      BY <1>2, <1>4, <1>5, <1>6, <3>1, <3>2 DEF WithWorker, OneKind
    <3>3. CASE v # w
      BY <1>2, <1>6, <3>1, <3>3 DEF WithWorker, OneKind
    <3> QED
      BY <3>2, <3>3
  <2> QED
    BY <1>2, <2>1, PlacesMoved, DealFacts
<1>9. MarkersInv'
  <2>1. \A v \in Workers : Marked(v) => Marked(v)'
    BY <1>2 DEF Marked
  <2> QED
    BY <1>2, <2>1, MarkersStay, DealFacts DEF MarkersInv
<1>10. BarrierInv'
  BY <1>2, DealFacts DEF BarrierInv
<1> QED
  BY <1>7, <1>8, <1>9, <1>10 DEF DealIInv

\* A rank comes to a barrier: its position stays.
LEMMA EnterKeeps ==
  ASSUME DealIInv, NEW r \in Ranks, Enter(r)
  PROVE  DealIInv'
<1>1. /\ \/ Position(r) = "barrier" /\ entered[r] = 0
         \/ Position(r) = "end" /\ entered[r] = 1
      /\ entered' = [entered EXCEPT ![r] = entered[r] + 1]
      /\ root' = root /\ worker' = worker /\ cast' = cast /\ inbox' = inbox
      /\ underWay' = underWay /\ arrived' = arrived /\ memMatches' = memMatches
  BY DEF Enter, AtBarrier, places
<1>2. entered' \in [Ranks -> 0..2]
  <2>1. entered \in [Ranks -> 0..2] /\ entered[r] + 1 \in 0..2
    BY <1>1, DealFacts DEF Barriers
  <2> QED
    BY <1>1, <2>1
<1>3. \A w \in Workers : w \in Ranks /\ w # 0 /\ entered[w] \in 0..2
  BY DealFacts, DealConstants DEF Barriers
<1>4. \A w \in Workers : w # r => entered'[w] = entered[w]
  BY <1>1, <1>3, DealFacts
<1>5. r \in Workers => worker[r].pc \in {"barrier", "end"} /\ entered'[r] = entered[r] + 1
  BY <1>1, <1>3, DealFacts DEF Position
<1>6. DealTypeOK'
  BY <1>1, <1>2, DealFacts DEF DealTypeOK, RootType, WorkerType, Barriers
<1>7. PlacesInv'
  BY <1>1, PlacesStay, DealFacts
<1>8. MarkersInv'
  <2>1. \A v \in Workers : Marked(v) => Marked(v)'
    BY <1>1 DEF Marked
  <2> QED
    BY <1>1, <2>1, MarkersStay, DealFacts DEF MarkersInv
<1>9. BarrierInv'
  <2>1. \A w \in Workers : entered'[w] >= 1 => worker[w].pc \in {"barrier", "end", "done"}
    <3> SUFFICES ASSUME NEW w \in Workers, entered'[w] >= 1
                 PROVE  worker[w].pc \in {"barrier", "end", "done"}
      OBVIOUS
    <3>1. CASE w = r
      BY <1>5, <3>1
    <3>2. CASE w # r
      BY <1>4, <3>2, DealFacts DEF BarrierInv
    <3> QED
      BY <3>1, <3>2
  <2>2. \A w \in Workers : entered[w] >= 1 => entered'[w] >= 1
    <3> SUFFICES ASSUME NEW w \in Workers, entered[w] >= 1
                 PROVE  entered'[w] >= 1
      OBVIOUS
    <3>1. CASE w = r
      <4>1. entered'[w] = entered[w] + 1 /\ entered[w] \in 0..2
        BY <1>3, <1>5, <3>1
      <4> QED
        BY <4>1
    <3>2. CASE w # r
      BY <1>4, <3>2
    <3> QED
      BY <3>1, <3>2
  <2> QED
    BY <1>1, <2>1, <2>2, DealFacts DEF BarrierInv
<1> QED
  BY <1>6, <1>7, <1>8, <1>9 DEF DealIInv

\* Rank 0 leaves the first barrier when every worker has come to it.
LEMMA RootLeaveKeeps ==
  ASSUME DealIInv, Leave(0)
  PROVE  DealIInv'
<1>1. PICK p \in {"last", "done"} :
        /\ RootGoes(p) /\ worker' = worker
        /\ \/ root.pc = "barrier" /\ (\A r \in Ranks : entered[r] >= 1)
           \/ root.pc = "end"
  BY DEF Leave, Position, RankGoes, BarrierOpen
<1>2. /\ cast' = cast /\ entered' = entered /\ inbox' = inbox /\ underWay' = underWay
      /\ arrived' = arrived /\ memMatches' = memMatches
  BY DEF Leave, places
<1>3. root' \in RootType /\ root'.pc = p /\ root'.next = root.next /\ root'.dest = root.dest
  <2>1. p \in RootPositions
    BY DEF RootPositions
  <2> QED
    BY <1>1, <2>1, RootMoves, DealFacts
<1>4. \A w \in Workers : entered[w] >= 1
  <2>1. Workers \subseteq Ranks
    BY DealConstants
  <2> QED
    BY <1>1, <2>1, DealFacts DEF BarrierInv
<1>5. DealTypeOK'
  BY <1>1, <1>2, <1>3, DealFacts DEF DealTypeOK, RootType, WorkerType
<1>6. PlacesInv'
  BY <1>1, <1>2, <1>3, PlacesStay, DealFacts
<1>7. MarkersInv'
  <2>1. \A v \in Workers : Marked(v)'
    BY <1>3 DEF Marked
  <2> QED
    BY <1>1, <1>2, <2>1, MarkersStay, DealFacts DEF MarkersInv
<1>8. BarrierInv'
  BY <1>1, <1>2, <1>3, <1>4, DealFacts DEF BarrierInv
<1> QED
  BY <1>5, <1>6, <1>7, <1>8 DEF DealIInv

LEMMA WorkerLeaveKeeps ==
  ASSUME DealIInv, NEW w \in Workers, Leave(w)
  PROVE  DealIInv'
<1>1. w # 0 /\ w \in Ranks
  BY DealConstants
<1>2. PICK p \in {"end", "done"} :
        WorkerGoes(w, p) /\ root' = root /\ worker[w].pc \in {"barrier", "end"}
  BY <1>1 DEF Leave, Position, RankGoes
<1>3. /\ cast' = cast /\ entered' = entered /\ inbox' = inbox /\ underWay' = underWay
      /\ arrived' = arrived /\ memMatches' = memMatches
  BY DEF Leave, places
<1>4. /\ worker' \in [Workers -> WorkerType] /\ worker'[w].pc = p
      /\ \A v \in Workers : /\ worker'[v].holds = worker[v].holds
                            /\ v # w => worker'[v] = worker[v]
  <2>1. p \in WorkerPositions
    BY DEF WorkerPositions
  <2> QED
    BY <1>2, <2>1, WorkerMoves, DealFacts
<1>5. DealTypeOK'
  BY <1>2, <1>3, <1>4, DealFacts DEF DealTypeOK, RootType, WorkerType
<1>6. PlacesInv'
  BY <1>2, <1>3, <1>4, PlacesStay, DealFacts
<1>7. \A v \in Workers : Marked(v) <=> Marked(v)'
  BY <1>2 DEF Marked
<1>8. MarkersInv'
  <2> SUFFICES ASSUME NEW v \in Workers
               PROVE  MarkersOf(v)'
    BY DEF MarkersInv
  <2>1. MarkersOf(v)
    BY DealFacts DEF MarkersInv
  <2>2. CASE v = w
    <3>1. Marked(w) /\ inbox[w] = <<>> /\ worker[w].holds = {}
      BY <1>2, <2>1, <2>2 DEF MarkersOf
    <3>2. ~Has(<<>>, Marker) /\ DOMAIN <<>> = {}
      BY DEF Has
    <3>3. /\ inbox'[w] = <<>> /\ worker'[w].holds = {} /\ worker'[w].pc \in {"end", "done"}
      BY <1>3, <1>4, <3>1
    <3> QED
      BY <1>7, <2>2, <3>1, <3>2, <3>3 DEF MarkersOf
  <2>3. CASE v # w
    BY <1>3, <1>4, <1>7, <2>1, <2>3, MarkersStay
  <2> QED
    BY <2>2, <2>3
<1>9. BarrierInv'
  <2>1. \A v \in Workers : entered[v] >= 1 => worker'[v].pc \in {"barrier", "end", "done"}
    BY <1>4, DealFacts DEF BarrierInv
  <2> QED
    BY <1>2, <1>3, <2>1, DealFacts DEF BarrierInv
<1> QED
  BY <1>5, <1>6, <1>8, <1>9 DEF DealIInv

LEMMA DealStays ==
  ASSUME DealIInv, UNCHANGED dealVars
  PROVE  DealIInv'
<1>1. /\ root' = root /\ worker' = worker /\ cast' = cast /\ entered' = entered
      /\ inbox' = inbox /\ underWay' = underWay /\ arrived' = arrived /\ memMatches' = memMatches
  BY DEF dealVars, places
<1>2. DealTypeOK'
  BY <1>1, DealFacts DEF DealTypeOK, RootType, WorkerType
<1>3. PlacesInv'
  BY <1>1, PlacesStay, DealFacts
<1>4. \A v \in Workers : Marked(v) => Marked(v)'
  BY <1>1 DEF Marked
<1>5. MarkersInv'
  BY <1>1, <1>4, MarkersStay, DealFacts DEF MarkersInv
<1>6. BarrierInv'
  BY <1>1, DealFacts DEF BarrierInv
<1> QED
  BY <1>2, <1>3, <1>5, <1>6 DEF DealIInv

\* One step per action.
LEMMA DealStep == DealIInv /\ [DealNext]_dealVars => DealIInv'
<1> SUFFICES ASSUME DealIInv, [DealNext]_dealVars
             PROVE  DealIInv'
  OBVIOUS
<1>1. 0 \in Ranks /\ Workers \subseteq Ranks
  BY DealConstants
<1>2. CASE RootCast
  BY <1>2, RootCastKeeps
<1>3. CASE SendExample
  BY <1>3, SendExampleKeeps
<1>4. CASE SentAll
  BY <1>4, SentAllKeeps
<1>5. CASE Poll
  <2>1. "send" \in RootPositions
    BY DEF RootPositions
  <2>2. root.pc = "poll" /\ Collect("send") /\ worker' = worker /\ cast' = cast /\ entered' = entered
    BY <1>5 DEF Poll
  <2>3. (root.pc = "poll" /\ "send" = "send") \/ (root.pc = "last" /\ "send" = "end")
    BY <2>2
  <2> QED
    BY <2>1, <2>2, <2>3, CollectKeeps
<1>6. CASE Mark
  BY <1>6, MarkKeeps
<1>7. CASE LastLook
  <2>1. "end" \in RootPositions
    BY DEF RootPositions
  <2>2. root.pc = "last" /\ Collect("end") /\ worker' = worker /\ cast' = cast /\ entered' = entered
    BY <1>7 DEF LastLook
  <2> QED
    BY <2>1, <2>2, CollectKeeps
<1>8. CASE Enter(0)
  BY <1>1, <1>8, EnterKeeps
<1>9. CASE Leave(0)
  BY <1>9, RootLeaveKeeps
<1>10. ASSUME NEW w \in Workers, Worker(w) \/ Arrive(w)
       PROVE  DealIInv'
  <2>1. CASE WorkerCast(w)
    BY <2>1, WorkerCastKeeps
  <2>2. CASE RecvExample(w)
    BY <2>2, RecvExampleKeeps
  <2>3. CASE SendMatch(w)
    BY <2>3, SendMatchKeeps
  <2>4. CASE Enter(w)
    BY <1>1, <2>4, EnterKeeps
  <2>5. CASE Leave(w)
    BY <2>5, WorkerLeaveKeeps
  <2>6. CASE Arrive(w)
    BY <2>6, ArriveKeeps
  <2> QED
    BY <1>10, <2>1, <2>2, <2>3, <2>4, <2>5, <2>6 DEF Worker
<1>11. CASE UNCHANGED dealVars
  BY <1>11, DealStays
<1> QED
  BY <1>2, <1>3, <1>4, <1>5, <1>6, <1>7, <1>8, <1>9, <1>10, <1>11 DEF DealNext, Root

LEMMA DealInvariance == DealSpec => []DealIInv
BY DealInits, DealStep, PTL DEF DealSpec

\* A queue has an example at one place when it has it once.
LEMMA OneInQueue ==
  ASSUME NEW queue, NEW kind, NEW x, NEW w \in Workers, Has(queue[w], x), Once(queue[w], x),
         \A v \in Workers : v # w => ~Has(queue[v], x)
  PROVE  \E z : PlacesIn(queue, kind, x) = {z}
<1>1. PICK i \in DOMAIN queue[w] : queue[w][i] = x
  BY DEF Has
<1>2. \A v \in Workers : \A j \in DOMAIN queue[v] : queue[v][j] = x <=> v = w /\ j = i
  BY <1>1 DEF Has, Once
<1>3. PlacesIn(queue, kind, x) = {<<kind, w, i>>}
  <2>1. ASSUME NEW z \in PlacesIn(queue, kind, x)
        PROVE  z = <<kind, w, i>>
    <3>1. PICK v \in Workers : z \in {<<kind, v, j>> : j \in {k \in DOMAIN queue[v] : queue[v][k] = x}}
      BY <2>1 DEF PlacesIn
    <3>2. PICK j \in DOMAIN queue[v] : queue[v][j] = x /\ z = <<kind, v, j>>
      BY <3>1
    <3> QED
      BY <1>2, <3>2
  <2>2. <<kind, w, i>> \in PlacesIn(queue, kind, x)
    <3>1. <<kind, w, i>> \in {<<kind, w, j>> : j \in {k \in DOMAIN queue[w] : queue[w][k] = x}}
      BY <1>1
    <3> QED
      BY <3>1 DEF PlacesIn
  <2> QED
    BY <2>1, <2>2
<1> QED
  BY <1>3

LEMMA NoneInQueue ==
  ASSUME NEW queue, NEW kind, NEW x, \A v \in Workers : ~Has(queue[v], x)
  PROVE  PlacesIn(queue, kind, x) = {}
BY DEF PlacesIn, Has

\* Who holds an example, and who has its match, as places.
InHands(x) == {<<"worker", w>> : w \in {v \in Workers : x \in worker[v].holds}}
Recorded(x) == {<<"matched">> : y \in memMatches \cap {x}}

LEMMA OnePlaceEach ==
  ASSUME DealIInv, NEW x \in Examples
  PROVE  IF x < root.next THEN \E z : Places(x) = {z} ELSE Places(x) = {}
<1> DEFINE I == PlacesIn(inbox, "inbox", x)
           U == PlacesIn(underWay, "underWay", x)
           A == PlacesIn(arrived, "arrived", x)
<1>1. Places(x) = I \cup U \cup A \cup InHands(x) \cup Recorded(x)
  BY DEF Places, InHands, Recorded
<1>2. /\ (\A v \in Workers : ~Has(inbox[v], x)) => I = {}
      /\ (\A v \in Workers : ~Has(underWay[v], x)) => U = {}
      /\ (\A v \in Workers : ~Has(arrived[v], x)) => A = {}
  BY NoneInQueue
<1>3. (\A v \in Workers : x \notin worker[v].holds) => InHands(x) = {}
  BY DEF InHands
<1>4. x \notin memMatches => Recorded(x) = {}
  BY DEF Recorded
<1>5. ASSUME NEW w \in Workers, WithWorker(w, x)
      PROVE  \E z : Places(x) = {z}
  <2>1. x \notin memMatches /\ \A v \in Workers : v # w => ~WithWorker(v, x)
    BY <1>5, DealFacts DEF PlacesInv, OneWorker
  <2>2. \A v \in Workers : v # w => /\ ~Has(inbox[v], x) /\ ~Has(underWay[v], x)
                                    /\ ~Has(arrived[v], x) /\ x \notin worker[v].holds
    BY <2>1 DEF WithWorker
  <2>3. OneKind(w, x)
    BY DealFacts DEF PlacesInv
  <2>4. CASE Has(inbox[w], x)
    <3>1. /\ ~Has(underWay[w], x) /\ ~Has(arrived[w], x) /\ x \notin worker[w].holds
          /\ Once(inbox[w], x)
      BY <2>3, <2>4 DEF OneKind
    <3>2. U = {} /\ A = {} /\ InHands(x) = {} /\ Recorded(x) = {}
      BY <1>2, <1>3, <1>4, <2>1, <2>2, <3>1
    <3>3. \E z : I = {z}
      BY <2>2, <2>4, <3>1, OneInQueue
    <3> HIDE DEF I, U, A
    <3> QED
      BY <1>1, <3>2, <3>3
  <2>5. CASE x \in worker[w].holds
    <3>1. ~Has(underWay[w], x) /\ ~Has(arrived[w], x) /\ ~Has(inbox[w], x)
      BY <2>3, <2>5 DEF OneKind
    <3>2. I = {} /\ U = {} /\ A = {} /\ Recorded(x) = {}
      BY <1>2, <1>4, <2>1, <2>2, <3>1
    <3>3. InHands(x) = {<<"worker", w>>}
      BY <2>2, <2>5 DEF InHands
    <3> HIDE DEF I, U, A
    <3> QED
      BY <1>1, <3>2, <3>3
  <2>6. CASE Has(underWay[w], x)
    <3>1. /\ ~Has(inbox[w], x) /\ ~Has(arrived[w], x) /\ x \notin worker[w].holds
          /\ Once(underWay[w], x)
      BY <2>3, <2>6 DEF OneKind
    <3>2. I = {} /\ A = {} /\ InHands(x) = {} /\ Recorded(x) = {}
      BY <1>2, <1>3, <1>4, <2>1, <2>2, <3>1
    <3>3. \E z : U = {z}
      BY <2>2, <2>6, <3>1, OneInQueue
    <3> HIDE DEF I, U, A
    <3> QED
      BY <1>1, <3>2, <3>3
  <2>7. CASE Has(arrived[w], x)
    <3>1. /\ ~Has(inbox[w], x) /\ ~Has(underWay[w], x) /\ x \notin worker[w].holds
          /\ Once(arrived[w], x)
      BY <2>3, <2>7 DEF OneKind
    <3>2. I = {} /\ U = {} /\ InHands(x) = {} /\ Recorded(x) = {}
      BY <1>2, <1>3, <1>4, <2>1, <2>2, <3>1
    <3>3. \E z : A = {z}
      BY <2>2, <2>7, <3>1, OneInQueue
    <3> HIDE DEF I, U, A
    <3> QED
      BY <1>1, <3>2, <3>3
  <2> QED
    BY <1>5, <2>4, <2>5, <2>6, <2>7 DEF WithWorker
<1>6. CASE \E w \in Workers : WithWorker(w, x)
  <2>1. x < root.next
    BY <1>6, DealFacts DEF PlacesInv, Somewhere, IsSomewhere
  <2> QED
    BY <1>5, <1>6, <2>1
<1>7. CASE \A w \in Workers : ~WithWorker(w, x)
  <2>1. \A v \in Workers : /\ ~Has(inbox[v], x) /\ ~Has(underWay[v], x)
                           /\ ~Has(arrived[v], x) /\ x \notin worker[v].holds
    BY <1>7 DEF WithWorker
  <2>2. I = {} /\ U = {} /\ A = {} /\ InHands(x) = {}
    BY <1>2, <1>3, <2>1
  <2>3. x < root.next <=> x \in memMatches
    BY <1>7, DealFacts DEF PlacesInv, Somewhere, IsSomewhere
  <2>4. x \in memMatches => Recorded(x) = {<<"matched">>}
    BY DEF Recorded
  <2> HIDE DEF I, U, A
  <2>5. Places(x) = Recorded(x)
    BY <1>1, <2>2
  <2> QED
    BY <1>4, <2>3, <2>4, <2>5
<1> QED
  BY <1>6, <1>7

\* An example that has been dealt is in one place: on its way to one worker, in its hands, or as
\* one match on its way or recorded.  When rank 0 looks once more no worker has an example left;
\* the marker is the last a worker is sent, and the barrier waits for all who have read theirs.
THEOREM EveryExampleInOnePlace == DealSpec => []DealInv
<1>1. DealIInv => DealInv
  <2> SUFFICES ASSUME DealIInv
               PROVE  DealInv
    OBVIOUS
  <2>1. DealTypeOK
    BY DEF DealIInv
  <2>2. OnePlace
    <3> SUFFICES ASSUME NEW x \in Examples
                 PROVE  Cardinality(Places(x)) = IF x < root.next THEN 1 ELSE 0
      BY DEF OnePlace
    <3>1. CASE x < root.next
      <4>1. PICK z : Places(x) = {z}
        BY <3>1, OnePlaceEach
      <4> QED
        BY <3>1, <4>1, FS_Singleton
    <3>2. CASE ~(x < root.next)
      <4>1. Places(x) = {}
        BY <3>2, OnePlaceEach
      <4> QED
        BY <3>2, <4>1, FS_EmptySet
    <3> QED
      BY <3>1, <3>2
  <2>3. OnlyMatchesLeft
    <3> SUFFICES ASSUME root.pc \in {"last", "end", "done"}, NEW w \in Workers
                 PROVE  Outstanding(w) = {} /\ worker[w].pc \in {"barrier", "end", "done"}
      BY DEF OnlyMatchesLeft
    <3>1. worker[w].pc \in {"barrier", "end", "done"}
      BY DealFacts DEF BarrierInv
    <3>2. inbox[w] = <<>> /\ worker[w].holds = {}
      BY <3>1, DealFacts DEF MarkersInv, MarkersOf
    <3>3. SetOf(<<>>) = {}
      BY DEF SetOf
    <3> QED
      BY <3>1, <3>2, <3>3 DEF Outstanding
  <2> QED
    BY <2>1, <2>2, <2>3 DEF DealInv
<1> QED
  BY <1>1, DealInvariance, PTL
=============================================================================
