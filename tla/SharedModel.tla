---------------------------- MODULE SharedModel ----------------------------
(***************************************************************************)
(* The model of rank 0 of src/src/threaded-mpi.c as its two threads share  *)
(* it: the sampler appends the clusters it reads, the detector those it    *)
(* finds, and each broadcasts its own, without a lock.  An action is one   *)
(* access of a thread to model->size, to the array or to its capacity, as  *)
(* the build without optimisation makes them; a realloc is one access, and *)
(* so is the store of a cluster at its place.  A leaf takes the broadcasts *)
(* in the order of their calls.                                            *)
(*                                                                         *)
(* ThreadedMPI models the whole program for inputs whose clusters all come *)
(* before the first example; this module is about the others.              *)
(***************************************************************************)
EXTENDS Integers, Sequences

CONSTANTS
  K,           \* params->k
  MaxLines,    \* bound on the cluster lines, numbered from 0
  MaxRounds,   \* bound on the detections
  MaxAhead     \* bound on the broadcasts a leaf is behind

ASSUME SharedModelAssumption ==
  K \in Nat \ {0} /\ MaxLines \in Nat /\ MaxRounds \in Nat /\ MaxAhead \in Nat

VARIABLES
  size, clusters,   \* the ids of the clusters by place
  capacity, overrun,
  sampler,          \* [pc, line: the line it reads, cl: the place taken, n: a size loaded,
                    \* hit: the detector has changed the array since the test of growth]
  detector,         \* [pc, round, prevSize, left: clusters to add, id, n, k]
  started,          \* an example has been read
  crossed,          \* history: a line was added while a detection was under way
  wire,             \* the broadcasts a leaf has not taken
  leaf              \* [pc, size]

arrayVars == <<size, clusters, capacity, overrun>>
vars == <<arrayVars, sampler, detector, started, crossed, wire, leaf>>

MaxSize == MaxLines + K * MaxRounds
Places == 0..MaxSize
Junk == -1
Ids == Places \union {Junk}
Cast(what, cl) == [what |-> what, id |-> cl]

SamplerPcs == {"read", "test", "want", "realloc", "place", "count", "publish", "fill",
               "struct", "center"}
DetectorPcs == {"wait", "load", "count", "publish", "want", "realloc", "fill",
                "struct", "center"}

TypeOK ==
  /\ size \in Places /\ clusters \in [Places -> Places]
  /\ capacity \in 0..(MaxSize + K) /\ overrun \in BOOLEAN
  /\ sampler \in [pc : SamplerPcs, line : 0..MaxLines, cl : Places, n : Places, hit : BOOLEAN]
  /\ detector \in [pc : DetectorPcs, round : 0..MaxRounds, prevSize : Places, left : 0..K,
                   id : Places, n : Places, k : Places]
  /\ started \in BOOLEAN /\ crossed \in BOOLEAN
  /\ wire \in Seq([what : {"struct", "center"}, id : Ids])
  /\ leaf \in [pc : {"struct", "center", "garbled", "assert"}, size : Places]

Init ==
  /\ size = 0 /\ clusters = [i \in Places |-> 0]
  /\ capacity = K /\ overrun = FALSE
  /\ sampler = [pc |-> "read", line |-> 0, cl |-> 0, n |-> 0, hit |-> FALSE]
  /\ detector = [pc |-> "wait", round |-> 0, prevSize |-> 0, left |-> 0, id |-> 0, n |-> 0,
                k |-> 0]
  /\ started = FALSE /\ crossed = FALSE
  /\ wire = <<>>
  /\ leaf = [pc |-> "struct", size |-> 0]

-----------------------------------------------------------------------------
\* A cluster line is added unless the model has its id.
ReadLine ==
  /\ sampler.pc = "read" /\ sampler.line < MaxLines
  /\ sampler' = IF size <= sampler.line THEN [sampler EXCEPT !.pc = "test"]
                ELSE [sampler EXCEPT !.line = @ + 1]
  /\ UNCHANGED <<arrayVars, detector, started, wire, leaf>>

\* addCluster makes room for K more when the array is full.  (Its two loads of the size
\* are one here: once it is positive it stays so.)  Slip: one cluster too late.
IsFullLate(n) == n > 1 /\ n % K = 1
IsFull(n) == n > 0 /\ n % K = 0
TestGrowth ==
  /\ sampler.pc = "test"
  /\ sampler' = [sampler EXCEPT !.pc = IF IsFull(size) THEN "want" ELSE "place",
                                !.hit = FALSE]
  /\ UNCHANGED <<arrayVars, detector, started, wire, leaf>>
LoadWanted ==
  /\ sampler.pc = "want"
  /\ sampler' = [sampler EXCEPT !.pc = "realloc", !.n = size]
  /\ UNCHANGED <<arrayVars, detector, started, wire, leaf>>

\* Slip: room for the new ones alone.
GrownForNew(n) == K
Grown(n) == n + K
GrowArray ==
  /\ sampler.pc = "realloc"
  /\ capacity' = Grown(sampler.n)
  /\ sampler' = [sampler EXCEPT !.pc = "place"]
  /\ UNCHANGED <<size, clusters, overrun, detector, started, wire, leaf>>

\* Its place, the size behind it, and the cluster.
LoadPlace ==
  /\ sampler.pc = "place"
  /\ sampler' = [sampler EXCEPT !.pc = "count", !.cl = size]
  /\ UNCHANGED <<arrayVars, detector, started, wire, leaf>>
LoadCount ==
  /\ sampler.pc = "count"
  /\ sampler' = [sampler EXCEPT !.pc = "publish", !.n = size]
  /\ UNCHANGED <<arrayVars, detector, started, wire, leaf>>
PublishLine ==
  /\ sampler.pc = "publish"
  /\ size' = sampler.n + 1
  /\ sampler' = [sampler EXCEPT !.pc = "fill"]
  /\ UNCHANGED <<clusters, capacity, overrun, detector, started, wire, leaf>>
FillLine ==
  /\ sampler.pc = "fill"
  /\ clusters' = [clusters EXCEPT ![sampler.cl] = sampler.line]
  /\ overrun' = (overrun \/ sampler.cl >= capacity)
  /\ sampler' = [sampler EXCEPT !.pc = "struct"]
  /\ UNCHANGED <<size, capacity, detector, started, wire, leaf>>

\* What a broadcast finds at a place.  It is undefined once a cluster has been stored
\* behind the array, or the threads have raced: a realloc of one leaves the other
\* with a pointer to freed memory.
Found(i) == IF crossed \/ overrun THEN {clusters[i], Junk} ELSE {clusters[i]}

\* The two broadcasts of a cluster.  Slip: the center goes first.
CenterFirst(pc) == IF pc = "struct" THEN "center" ELSE "struct"
What(pc) == pc

CastLine ==
  /\ sampler.pc \in {"struct", "center"} /\ Len(wire) < MaxAhead
  /\ \E id \in Found(sampler.cl) : wire' = Append(wire, Cast(What(sampler.pc), id))
  /\ sampler' = IF sampler.pc = "struct" THEN [sampler EXCEPT !.pc = "center"]
                ELSE [sampler EXCEPT !.pc = "read", !.line = @ + 1]
  /\ UNCHANGED <<arrayVars, detector, started, leaf>>

\* An example; with it there may be unknowns.
ReadExample ==
  /\ sampler.pc = "read" /\ size >= K
  /\ ~started /\ started' = TRUE
  /\ UNCHANGED <<arrayVars, sampler, detector, wire, leaf>>

-----------------------------------------------------------------------------
\* A detection that finds up to K clusters.
Detect ==
  /\ detector.pc = "wait" /\ started /\ detector.round < MaxRounds
  /\ \E new \in 1..K :
       detector' = [detector EXCEPT !.pc = "load", !.round = @ + 1, !.prevSize = size, !.left = new]
  /\ UNCHANGED <<arrayVars, sampler, started, wire, leaf>>

\* Where its broadcasts start: behind the old model.  Slips: one before, one after.
NewFromLast == detector.prevSize - 1
NewFromNext == detector.prevSize + 1
NewFrom == detector.prevSize

\* Each is added: the size that is its id, the size behind it, to which the array is
\* then reallocated, and the cluster at the last place.
LoadNew ==
  /\ detector.pc = "load"
  /\ detector' = IF detector.left > 0 THEN [detector EXCEPT !.pc = "count", !.id = size]
                 ELSE [detector EXCEPT !.pc = "struct", !.k = NewFrom]
  /\ UNCHANGED <<arrayVars, sampler, started, wire, leaf>>
CountNew ==
  /\ detector.pc = "count"
  /\ detector' = [detector EXCEPT !.pc = "publish", !.n = size]
  /\ UNCHANGED <<arrayVars, sampler, started, wire, leaf>>
PublishNew ==
  /\ detector.pc = "publish"
  /\ size' = detector.n + 1
  /\ detector' = [detector EXCEPT !.pc = "want"]
  /\ sampler' = [sampler EXCEPT !.hit = TRUE]
  /\ UNCHANGED <<clusters, capacity, overrun, started, wire, leaf>>
WantNew ==
  /\ detector.pc = "want"
  /\ detector' = [detector EXCEPT !.pc = "realloc", !.n = size]
  /\ UNCHANGED <<arrayVars, sampler, started, wire, leaf>>
FitArray ==
  /\ detector.pc = "realloc"
  /\ capacity' = detector.n
  /\ detector' = [detector EXCEPT !.pc = "fill"]
  /\ sampler' = [sampler EXCEPT !.hit = TRUE]
  /\ UNCHANGED <<size, clusters, overrun, started, wire, leaf>>
FillNew ==
  /\ detector.pc = "fill"
  /\ clusters' = [clusters EXCEPT ![size - 1] = detector.id]
  /\ overrun' = (overrun \/ size > capacity)
  /\ detector' = [detector EXCEPT !.pc = "load", !.left = @ - 1]
  /\ UNCHANGED <<size, capacity, sampler, started, wire, leaf>>

\* What is behind the old size is broadcast, whoever has added it.
CastNew ==
  /\ detector.pc \in {"struct", "center"}
  /\ IF detector.pc = "struct" /\ detector.k >= size
     THEN detector' = [detector EXCEPT !.pc = "wait"] /\ UNCHANGED wire
     ELSE /\ Len(wire) < MaxAhead
          /\ \E id \in Found(detector.k) : wire' = Append(wire, Cast(What(detector.pc), id))
          /\ detector' = IF detector.pc = "struct" THEN [detector EXCEPT !.pc = "center"]
                         ELSE [detector EXCEPT !.pc = "struct", !.k = @ + 1]
  /\ UNCHANGED <<arrayVars, sampler, started, leaf>>

\* m_receiver: a structure, whose id must be the size of the model here, and the
\* center that belongs to it.
Receive ==
  /\ wire # <<>> /\ leaf.pc \in {"struct", "center"}
  /\ wire' = Tail(wire)
  /\ leaf' = IF leaf.pc # Head(wire).what THEN [leaf EXCEPT !.pc = "garbled"]
             ELSE IF leaf.pc = "center" THEN [pc |-> "struct", size |-> leaf.size + 1]
             ELSE IF Head(wire).id = leaf.size THEN [leaf EXCEPT !.pc = "center"]
             ELSE [leaf EXCEPT !.pc = "assert"]
  /\ UNCHANGED <<arrayVars, sampler, detector, started>>

\* The inputs end, or a leaf has: then MPI ends the others.
Failed == leaf.pc \in {"garbled", "assert"}
Stopped == /\ Failed \/ (sampler.pc = "read" /\ detector.pc = "wait" /\ wire = <<>>)
           /\ UNCHANGED vars

AddLine == \/ ReadLine \/ TestGrowth \/ LoadWanted \/ GrowArray \/ LoadPlace
           \/ LoadCount \/ PublishLine \/ FillLine \/ CastLine
AddNew == \/ Detect \/ LoadNew \/ CountNew \/ PublishNew \/ WantNew \/ FitArray
          \/ FillNew \/ CastNew
BothAdd == sampler.pc # "read" /\ detector.pc # "wait"
Next == \/ /\ ~Failed
           /\ AddLine \/ ReadExample \/ AddNew \/ Receive
           /\ crossed' = (crossed \/ BothAdd')
        \/ Stopped

Spec == Init /\ [][Next]_vars

-----------------------------------------------------------------------------
\* As long as no line is added during a detection, and none behind the array, the
\* threads do not disturb each other, wherever in the input the clusters are: the
\* assertion cl->id == model->size of line 170 holds, the clusters reach a leaf in the
\* order of their ids, each once.
Apart == ~crossed /\ ~overrun
InStep == Apart => leaf.pc # "assert"

\* Each structure is followed by its center.
PairsIntact == Apart => leaf.pc # "garbled"

\* A leaf that has taken every broadcast has the model of rank 0.
CaughtUp ==
  Apart /\ wire = <<>> /\ sampler.pc = "read" /\ detector.pc = "wait" => leaf.size = size

\* The invariant of the threads of rank 0 and a leaf that follows them.
Inv == TypeOK /\ InStep /\ PairsIntact /\ CaughtUp

\* The sampler stores a cluster behind the array only when a detection has left no room
\* and the growth test does not see it, the size being no multiple of K, or when the
\* detector has changed the size or the array between that test and the store.
\* A detection that runs at the same time but changes neither there is harmless.
OverrunOnlyUneven ==
  [][FillLine /\ sampler.cl >= capacity =>
       sampler.hit \/ (detector.round > 0 /\ sampler.cl % K # 0)]_vars
=============================================================================
