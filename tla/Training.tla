------------------------------ MODULE Training ------------------------------
(***************************************************************************)
(* The offline phase (src/src/offline.c, training and clustering of        *)
(* src/src/base.c): the training set is grouped by class and every class   *)
(* becomes K clusters by k-means.                                          *)
(*                                                                         *)
(* Values have one dimension and are small integers.  A mean of at most    *)
(* NExamples of them is exact in units of 1/Unit, so that centers,         *)
(* distances and their sums are integers in that unit, and a change of     *)
(* less than the precision is no change.                                   *)
(***************************************************************************)
EXTENDS Integers, Sequences, FiniteSets, SequencesExt, FiniteSetsExt

CONSTANTS
  K,               \* params->k
  NExamples,       \* bound on the training set
  Values, Classes, \* what its lines hold
  Unit,            \* divisible by every number of examples
  MaxIteration     \* 100 in the code

TrainingAssumption ==
  /\ K \in Nat \ {0} /\ NExamples \in Nat /\ MaxIteration \in Nat \ {0}
  /\ Values \subseteq Nat /\ IsFiniteSet(Values)
  /\ Unit \in Nat /\ \A n \in 1..NExamples : Unit % n = 0

VARIABLES
  lines,    \* the lines of the standard input
  set,      \* trainingSetByClass: pairs of a class and its values
  pc,
  l,        \* the class at hand
  centers, ls, global, iteration,   \* of kMeans
  model
kVars == <<centers, ls, global, iteration>>
vars == <<lines, set, pc, l, kVars, model>>

Line == [val : Values, class : Classes]
TrainingSet == set[l].values
Size == Len(TrainingSet)

Abs(n) == IF n < 0 THEN -n ELSE n
MaxVal == Max(Values \cup {0})

TypeOK ==
  /\ lines \in Seq(Line) /\ Len(lines) <= NExamples
  /\ pc \in {"read", "init", "kmeans", "describe", "done", "error"}
  /\ l \in 1..(Len(set) + 1)
  /\ centers \in [1..K -> 0..(2 * Unit * MaxVal)]
  /\ ls \in [1..K -> 0..MaxVal]
  /\ iteration \in 0..MaxIteration
  /\ \A i \in DOMAIN model :
       /\ model[i].id = i - 1
       /\ model[i].class = set[(i - 1) \div K + 1].class

Init ==
  /\ lines \in UNION {[1..n -> Line] : n \in 1..NExamples}
  /\ set = <<>>
  /\ pc = "read" /\ l = 1
  /\ centers = [k \in 1..K |-> 0] /\ ls = [k \in 1..K |-> 0]
  /\ global = 0 /\ iteration = 0
  /\ model = <<>>

-----------------------------------------------------------------------------
\* The classes in the order of their first line, each with its values in order;
\* InTurn puts the positions in S in order.
InTurn(S) ==
  [n \in 1..Cardinality(S) |-> CHOOSE i \in S : Cardinality({j \in S : j < i}) = n - 1]
Grouped ==
  LET first == InTurn({i \in DOMAIN lines :
                         \A j \in 1..(i - 1) : lines[j].class # lines[i].class})
  IN [c \in DOMAIN first |->
        LET class == lines[first[c]].class
            ofClass == InTurn({i \in DOMAIN lines : lines[i].class = class})
        IN [class |-> class, values |-> [n \in DOMAIN ofClass |-> lines[ofClass[n]].val]]]

\* The whole input is read and grouped; the program stops when it is too small.
ReadAll ==
  /\ pc = "read"
  /\ set' = Grouped
  /\ pc' = IF Len(lines) < K THEN "error" ELSE "init"
  /\ UNCHANGED <<lines, l, kVars, model>>

\* The first values of the class are the first centers, and in the sums already.
\* Slip: a class that is too small is not refused.
StartPadded ==
  /\ centers' = [k \in 1..K |-> Unit * TrainingSet[Min({k, Size})]]
  /\ ls' = [k \in 1..K |-> TrainingSet[Min({k, Size})]]
  /\ pc' = "kmeans"
Start ==
  IF Size < K THEN pc' = "error" /\ UNCHANGED <<centers, ls>>
  ELSE /\ centers' = [k \in 1..K |-> Unit * TrainingSet[k]]
       /\ ls' = [k \in 1..K |-> TrainingSet[k]]
       /\ pc' = "kmeans"

KMeansInit ==
  /\ pc = "init" /\ l <= Len(set)
  /\ Start
  /\ global' = Unit * K * Size * 2
  /\ iteration' = 0
  /\ UNCHANGED <<lines, set, l, model>>

Distance(c, x) == Abs(Unit * x - c)

\* The nearest center, the last one of those that are as near.
Nearest(cs, x) == Max({k \in DOMAIN cs : \A j \in DOMAIN cs :
                                           Distance(cs[k], x) <= Distance(cs[j], x)})
Members(cs, k) == {i \in 1..Size : Nearest(cs, TrainingSet[i]) = k}

\* The mean of the members, to which the first iteration adds the seed; a cluster
\* without members stays where it is.
Moved(cs, sums, k) ==
  LET M == Members(cs, k)
  IN IF M = {} THEN cs[k]
     ELSE (Unit * (sums[k] + MapThenSumSet(LAMBDA i : TrainingSet[i], M))) \div Cardinality(M)

\* The sums after an iteration.
SumsReset == [k \in 1..K |-> 0]

\* Another iteration follows unless the sum of the distances is the one of before,
\* or these are enough.  Slip: it is not looked at.
UntilEnough(sum, n) == n < MaxIteration
Again(sum, n) == sum # global /\ n < MaxIteration

KMeans ==
  /\ pc = "kmeans"
  /\ centers' = [k \in 1..K |-> Moved(centers, ls, k)]
  /\ ls' = SumsReset
  /\ global' = MapThenSumSet(LAMBDA i : Distance(centers[Nearest(centers, TrainingSet[i])],
                                                 TrainingSet[i]), 1..Size)
  /\ iteration' = iteration + 1
  /\ pc' = IF Again(global', iteration') THEN pc ELSE "describe"
  /\ UNCHANGED <<lines, set, l, model>>

\* distanceMax of cluster k.  Slip: each member overwrites it.
DistanceLast(k) ==
  LET M == Members(centers, k)
  IN IF M = {} THEN 0 ELSE Distance(centers[k], TrainingSet[Max(M)])
DistanceMax(k) ==
  Max({0} \cup {Distance(centers[k], TrainingSet[i]) : i \in Members(centers, k)})

\* The ids of a class go on behind the classes before.  Slip: they do not.
FirstIdZero == 0
FirstId == Len(model)

\* What clustering records of a cluster: how many examples are nearest to it and
\* how far the farthest is.
Described(k) ==
  [id |-> FirstId + k - 1, class |-> set[l].class, center |-> centers[k],
   n |-> Cardinality(Members(centers, k)), distanceMax |-> DistanceMax(k)]

Describe ==
  /\ pc = "describe"
  /\ model' = model \o [k \in 1..K |-> Described(k)]
  /\ l' = l + 1
  /\ pc' = "init"
  /\ UNCHANGED <<lines, set, kVars>>

Done == /\ pc = "init" /\ l > Len(set)
        /\ pc' = "done"
        /\ UNCHANGED <<lines, set, l, kVars, model>>

Stopped == pc \in {"done", "error"} /\ UNCHANGED vars

Next == ReadAll \/ KMeansInit \/ KMeans \/ Describe \/ Done \/ Stopped

Spec == Init /\ [][Next]_vars /\ WF_vars(Next)

-----------------------------------------------------------------------------
\* The clusters of class c, and the one of them that is nearest to x.
ClustersOf(c) == {i \in DOMAIN model : model[i].class = set[c].class}
NearestOf(c, x) ==
  Nearest([i \in ClustersOf(c) |-> model[i].center], x)

\* k-means settles before it is cut.
NeverCut == pc = "describe" => iteration < MaxIteration

\* The training set and nothing but it decides whether there is a model: one is
\* built when every class has K examples, and when no such model can be built,
\* the program says so.  The bound on the iterations of k-means is not reached.
EndsByInput ==
  LET large == Len(lines) >= K
               /\ \A c \in Classes : LET n == Len(SelectSeq(lines, LAMBDA e : e.class = c))
                                     IN n = 0 \/ n >= K
  IN <>(pc = IF large THEN "done" ELSE "error") /\ []NeverCut

\* What novelty detection relies on: every example is within distanceMax of the
\* cluster of its class that is nearest to it, and counted by one.
Covered ==
  \A c \in 1..(l - 1) :
    /\ \A x \in Range(set[c].values) :
         LET i == NearestOf(c, x) IN Distance(model[i].center, x) <= model[i].distanceMax
    /\ MapThenSumSet(LAMBDA i : model[i].n, ClustersOf(c)) = Len(set[c].values)

\* The invariant of the training.
Inv == TypeOK /\ Covered
=============================================================================
