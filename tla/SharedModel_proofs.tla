------------------------- MODULE SharedModel_proofs -------------------------
(***************************************************************************)
(* Theorems about the model of rank 0 as its two threads share it, for any *)
(* number of clusters to a model, of cluster lines and of detections.      *)
(*                                                                         *)
(* While no line is added during a detection the two threads take turns    *)
(* (TurnsInv), and the broadcasts on their way to a leaf can be counted    *)
(* (WireInv).  What room the sampler has for its cluster is known as long  *)
(* as the detector does not change the array (RoomInv).                    *)
(***************************************************************************)
EXTENDS SharedModel, TLAPS

SamplerRec ==
  [pc : SamplerPcs, line : 0..MaxLines, cl : Places, n : Places, hit : BOOLEAN]
DetectorRec ==
  [pc : DetectorPcs, round : 0..MaxRounds, prevSize : Places, left : 0..K, id : Places,
   n : Places, k : Places]

\* What every step says of the history.
Noted == crossed' = (crossed \/ BothAdd')

\* The clusters there can be after r detections, and those still to come.
Most(r) == MaxLines + K * r

LinesToCome ==
  IF sampler.pc \in {"fill", "struct", "center"} THEN MaxLines - sampler.line - 1
  ELSE MaxLines - sampler.line
NewToCome ==
  IF detector.pc \in {"want", "realloc", "fill"} THEN detector.left - 1 ELSE detector.left

\* With those to come, n clusters are not too many.
Fits(n) == n + LinesToCome + NewToCome <= Most(detector.round)

\* No size gets out of bounds, in whatever order the threads load and store it.
BoundInv ==
  /\ sampler.pc # "read" => sampler.line < MaxLines
  /\ detector.pc \in {"count", "publish", "want", "realloc", "fill"} => detector.left > 0
  /\ detector.pc \in {"wait", "struct", "center"} => detector.left = 0
  /\ detector.round = 0 => detector.pc = "wait"
  /\ Fits(size)
  /\ sampler.pc \in {"count", "publish"} => Fits(sampler.cl)
  /\ sampler.pc = "publish" => Fits(sampler.n)
  /\ detector.pc \in {"count", "publish"} => Fits(detector.id)
  /\ detector.pc = "publish" => Fits(detector.n)
  /\ detector.pc \in {"want", "realloc", "fill"} => detector.id < MaxSize
  /\ detector.pc = "center" => detector.k < MaxSize

\* Every id that is broadcast is one of a cluster: a leaf's model stays as bounded.
Message == [what : {"struct", "center"}, id : 0..(MaxSize - 1) \union {Junk}]

IdsInv ==
  /\ \A i \in Places : clusters[i] = 0 \/ clusters[i] < MaxSize
  /\ wire \in Seq(Message)
  /\ leaf.pc = "center" => leaf.size < MaxSize

\* The clusters are in the array up to the one that is being added.
Stored ==
  IF sampler.pc = "fill" \/ detector.pc \in {"want", "realloc", "fill"} THEN size - 1 ELSE size

\* If no line is added during a detection, each thread finds the size it has left.
TurnsInv ==
  /\ detector.round > 0 => started
  /\ started => size > 0
  /\ BothAdd => crossed
  /\ ~ crossed =>
       /\ sampler.line <= size
       /\ sampler.pc \in {"test", "want", "realloc", "place", "count", "publish"} =>
            sampler.line = size
       /\ sampler.pc \in {"count", "publish"} => sampler.cl = size
       /\ sampler.pc = "publish" => sampler.n = size
       /\ sampler.pc \in {"fill", "struct", "center"} =>
            sampler.cl + 1 = size /\ sampler.line + 1 = size
       /\ detector.pc # "wait" => detector.prevSize <= size
       /\ detector.pc \in {"count", "publish"} => detector.id = size
       /\ detector.pc = "publish" => detector.n = size
       /\ detector.pc \in {"want", "realloc", "fill"} => detector.id + 1 = size
       /\ detector.pc = "struct" => detector.k <= size
       /\ detector.pc = "center" => detector.k < size
       /\ \A i \in Places : i < Stored => clusters[i] = i

\* Broadcasts sent and taken, two for each cluster.
Sent ==
  IF sampler.pc \in {"fill", "struct"} THEN 2 * size - 2
  ELSE IF sampler.pc = "center" THEN 2 * size - 1
  ELSE CASE detector.pc = "wait" -> 2 * size
         [] detector.pc = "struct" -> 2 * detector.k
         [] detector.pc = "center" -> 2 * detector.k + 1
         [] OTHER -> 2 * detector.prevSize

Heard == IF leaf.pc = "center" THEN 2 * leaf.size + 1 ELSE 2 * leaf.size

\* q is what is on its way when s broadcasts are out and h are taken.
Line(q, s, h) ==
  /\ Len(q) = s - h
  /\ \A n \in Nat : h <= 2 * n /\ 2 * n < s => q[2 * n + 1 - h] = Cast("struct", n)
  /\ \A n \in Nat : h <= 2 * n + 1 /\ 2 * n + 1 < s =>
                      q[2 * n + 2 - h] = Cast("center", n)

WireInv == Apart => leaf.pc \in {"struct", "center"} /\ Line(wire, Sent, Heard)

\* The array has room for a cluster at place n, or it was fitted by a detection.
Room(n) == n < capacity \/ (detector.round > 0 /\ n % K # 0)

\* What the sampler knows of the array, from its test on, if the detector keeps off it.
RoomInv ==
  /\ detector.round = 0 => /\ size <= capacity /\ capacity % K = 0 /\ capacity > 0
                           /\ ~ sampler.hit
  /\ ~ sampler.hit =>
       /\ sampler.pc = "want" => size % K = 0
       /\ sampler.pc = "realloc" => sampler.n = size /\ size % K = 0
       /\ sampler.pc = "place" => Room(size)
       /\ sampler.pc \in {"count", "publish", "fill"} => Room(sampler.cl)
       /\ sampler.pc = "count" => sampler.cl = size
       /\ sampler.pc = "publish" => sampler.n = sampler.cl

IInv == TypeOK /\ BoundInv /\ IdsInv /\ TurnsInv /\ WireInv /\ RoomInv

-----------------------------------------------------------------------------
LEMMA Constants ==
  /\ K \in Nat /\ K > 0 /\ MaxLines \in Nat /\ MaxRounds \in Nat
  /\ MaxSize \in Nat /\ MaxSize = Most(MaxRounds)
<1>1. K \in Nat /\ K > 0 /\ MaxLines \in Nat /\ MaxRounds \in Nat
  BY SharedModelAssumption
<1>2. K * MaxRounds \in Nat
  BY <1>1
<1> QED
  BY <1>1, <1>2 DEF MaxSize, Most

LEMMA MostGrows ==
  ASSUME NEW r \in 0..MaxRounds
  PROVE  /\ Most(r) \in Nat /\ Most(r) <= MaxSize /\ Most(r) >= MaxLines
         /\ Most(r + 1) = Most(r) + K
<1>1. PICK d \in Nat : MaxRounds = r + d
  <2>1. MaxRounds - r \in Nat /\ MaxRounds = r + (MaxRounds - r)
    BY Constants
  <2> QED
    BY <2>1
<1>2. K * MaxRounds = K * r + K * d
  BY <1>1, Constants
<1>3. K * r \in Nat /\ K * d \in Nat /\ K * (r + 1) = K * r + K
  BY <1>1, Constants
<1> QED
  BY <1>2, <1>3, Constants DEF Most, MaxSize

LEMMA PlacesAreNumbers == Places \subseteq Nat /\ \A n \in Nat : n <= MaxSize <=> n \in Places
  BY Constants DEF Places

\* What the types say of the counters.
LEMMA Counters ==
  ASSUME TypeOK
  PROVE  /\ sampler \in SamplerRec /\ detector \in DetectorRec
         /\ size \in Places /\ size \in Nat /\ size <= MaxSize
         /\ sampler.pc \in SamplerPcs /\ sampler.line \in 0..MaxLines
         /\ sampler.line \in Nat /\ sampler.line <= MaxLines
         /\ sampler.cl \in Places /\ sampler.cl \in Nat /\ sampler.n \in Places
         /\ sampler.n \in Nat /\ sampler.hit \in BOOLEAN
         /\ detector.pc \in DetectorPcs /\ detector.round \in 0..MaxRounds
         /\ detector.round \in Nat /\ detector.prevSize \in Places /\ detector.prevSize \in Nat
         /\ detector.left \in 0..K /\ detector.left \in Nat
         /\ detector.id \in Places /\ detector.id \in Nat
         /\ detector.n \in Places /\ detector.n \in Nat
         /\ detector.k \in Places /\ detector.k \in Nat /\ detector.k <= MaxSize
         /\ capacity \in Nat /\ leaf.size \in Nat
<1>1. /\ sampler \in SamplerRec /\ detector \in DetectorRec /\ size \in Places
      /\ capacity \in 0..(MaxSize + K)
      /\ leaf \in [pc : {"struct", "center", "garbled", "assert"}, size : Places]
  BY DEF TypeOK, SamplerRec, DetectorRec
<1>2. /\ sampler.pc \in SamplerPcs /\ sampler.line \in 0..MaxLines /\ sampler.cl \in Places
      /\ sampler.n \in Places /\ sampler.hit \in BOOLEAN
  BY <1>1 DEF SamplerRec
<1>3. /\ detector.pc \in DetectorPcs /\ detector.round \in 0..MaxRounds
      /\ detector.prevSize \in Places /\ detector.left \in 0..K /\ detector.id \in Places
      /\ detector.n \in Places /\ detector.k \in Places
  BY <1>1 DEF DetectorRec
<1>4. leaf.size \in Places
  BY <1>1
<1>5. \A n \in Places : n \in Nat /\ n <= MaxSize
  BY PlacesAreNumbers
<1>6. /\ sampler.line \in Nat /\ sampler.line <= MaxLines /\ detector.round \in Nat
      /\ detector.left \in Nat /\ capacity \in Nat
  BY <1>1, <1>2, <1>3, Constants
<1> QED
  BY <1>1, <1>2, <1>3, <1>4, <1>5, <1>6

\* What is still to come.
LEMMA ToCome ==
  ASSUME TypeOK, BoundInv
  PROVE  /\ LinesToCome \in Nat /\ NewToCome \in Nat /\ Most(detector.round) \in Nat
         /\ Most(detector.round) <= MaxSize
         /\ sampler.pc \notin {"fill", "struct", "center"} =>
              LinesToCome = MaxLines - sampler.line
         /\ sampler.pc \in {"fill", "struct", "center"} =>
              LinesToCome = MaxLines - sampler.line - 1
         /\ detector.pc \notin {"want", "realloc", "fill"} => NewToCome = detector.left
         /\ detector.pc \in {"want", "realloc", "fill"} => NewToCome = detector.left - 1
<1>1. /\ sampler.line \in Nat /\ sampler.line <= MaxLines /\ detector.left \in Nat
      /\ sampler.pc # "read" => sampler.line < MaxLines
      /\ detector.pc \in {"want", "realloc", "fill"} => detector.left > 0
  BY Counters DEF BoundInv
<1>2. Most(detector.round) \in Nat /\ Most(detector.round) <= MaxSize
  BY MostGrows, Counters
<1>3. /\ sampler.pc \notin {"fill", "struct", "center"} =>
              LinesToCome = MaxLines - sampler.line
      /\ sampler.pc \in {"fill", "struct", "center"} =>
              LinesToCome = MaxLines - sampler.line - 1
      /\ detector.pc \notin {"want", "realloc", "fill"} => NewToCome = detector.left
      /\ detector.pc \in {"want", "realloc", "fill"} => NewToCome = detector.left - 1
  BY DEF LinesToCome, NewToCome
<1> QED
  BY <1>1, <1>2, <1>3, Constants


-----------------------------------------------------------------------------
\* What each step of the sampler does to its record and to the array.
LEMMA SamplerLoads ==
  ASSUME TypeOK, TestGrowth \/ LoadWanted \/ GrowArray \/ LoadPlace \/ LoadCount
  PROVE  /\ size' = size /\ clusters' = clusters /\ overrun' = overrun
         /\ detector' = detector /\ started' = started /\ wire' = wire /\ leaf' = leaf
         /\ sampler' \in SamplerRec /\ sampler'.line = sampler.line
         /\ sampler.pc \in {"test", "want", "realloc", "place", "count"}
         /\ sampler'.pc \in {"want", "realloc", "place", "count", "publish"}
         /\ GrowArray \/ capacity' = capacity
         /\ sampler'.pc = "publish" => /\ sampler.pc = "count" /\ sampler'.n = size
                                       /\ sampler'.cl = sampler.cl
         /\ sampler'.pc = "count" => sampler.pc = "place" /\ sampler'.cl = size
<1>1. /\ size' = size /\ clusters' = clusters /\ overrun' = overrun
      /\ detector' = detector /\ started' = started /\ wire' = wire /\ leaf' = leaf
      /\ GrowArray \/ capacity' = capacity
  BY DEF TestGrowth, LoadWanted, GrowArray, LoadPlace, LoadCount, arrayVars
<1>2. sampler \in SamplerRec /\ size \in Places
  BY Counters
<1>3. CASE TestGrowth
  <2>1. /\ sampler.pc = "test"
        /\ sampler' = [sampler EXCEPT !.pc = IF IsFull(size) THEN "want" ELSE "place",
                                      !.hit = FALSE]
    BY <1>3 DEF TestGrowth
  <2> QED
    BY <1>1, <1>2, <2>1 DEF SamplerRec, SamplerPcs
<1>4. CASE LoadWanted
  <2>1. sampler.pc = "want" /\ sampler' = [sampler EXCEPT !.pc = "realloc", !.n = size]
    BY <1>4 DEF LoadWanted
  <2> QED
    BY <1>1, <1>2, <2>1 DEF SamplerRec, SamplerPcs
<1>5. CASE GrowArray
  <2>1. sampler.pc = "realloc" /\ sampler' = [sampler EXCEPT !.pc = "place"]
    BY <1>5 DEF GrowArray
  <2> QED
    BY <1>1, <1>2, <2>1 DEF SamplerRec, SamplerPcs
<1>6. CASE LoadPlace
  <2>1. sampler.pc = "place" /\ sampler' = [sampler EXCEPT !.pc = "count", !.cl = size]
    BY <1>6 DEF LoadPlace
  <2> QED
    BY <1>1, <1>2, <2>1 DEF SamplerRec, SamplerPcs
<1>7. CASE LoadCount
  <2>1. sampler.pc = "count" /\ sampler' = [sampler EXCEPT !.pc = "publish", !.n = size]
    BY <1>7 DEF LoadCount
  <2> QED
    BY <1>1, <1>2, <2>1 DEF SamplerRec, SamplerPcs
<1> QED
  BY <1>3, <1>4, <1>5, <1>6, <1>7

LEMMA ReadLineStep ==
  ASSUME TypeOK, ReadLine
  PROVE  /\ size' = size /\ clusters' = clusters /\ overrun' = overrun /\ capacity' = capacity
         /\ detector' = detector /\ started' = started /\ wire' = wire /\ leaf' = leaf
         /\ sampler.pc = "read" /\ sampler.line < MaxLines
         /\ sampler' \in SamplerRec /\ sampler'.hit = sampler.hit
         /\ \/ size <= sampler.line /\ sampler'.pc = "test" /\ sampler'.line = sampler.line
            \/ ~ (size <= sampler.line) /\ sampler'.pc = "read"
               /\ sampler'.line = sampler.line + 1
<1>1. /\ size' = size /\ clusters' = clusters /\ overrun' = overrun /\ capacity' = capacity
      /\ detector' = detector /\ started' = started /\ wire' = wire /\ leaf' = leaf
      /\ sampler.pc = "read" /\ sampler.line < MaxLines
  BY DEF ReadLine, arrayVars
<1>2. sampler \in SamplerRec
  BY Counters
<1>3. CASE size <= sampler.line
  <2>1. sampler' = [sampler EXCEPT !.pc = "test"]
    BY <1>3 DEF ReadLine
  <2> QED
    BY <1>1, <1>2, <1>3, <2>1 DEF SamplerRec, SamplerPcs
<1>4. CASE ~ (size <= sampler.line)
  <2>1. sampler' = [sampler EXCEPT !.line = sampler.line + 1]
    BY <1>4 DEF ReadLine
  <2>2. sampler.line + 1 \in 0..MaxLines
    BY <1>1, Counters, Constants
  <2> QED
    BY <1>1, <1>2, <1>4, <2>1, <2>2 DEF SamplerRec, SamplerPcs
<1> QED
  BY <1>3, <1>4

LEMMA PublishLineStep ==
  ASSUME TypeOK, PublishLine
  PROVE  /\ size' = sampler.n + 1 /\ clusters' = clusters /\ overrun' = overrun
         /\ capacity' = capacity
         /\ detector' = detector /\ started' = started /\ wire' = wire /\ leaf' = leaf
         /\ sampler.pc = "publish" /\ sampler' \in SamplerRec /\ sampler'.pc = "fill"
         /\ sampler'.line = sampler.line /\ sampler'.cl = sampler.cl
         /\ sampler'.hit = sampler.hit
<1>1. /\ size' = sampler.n + 1 /\ clusters' = clusters /\ overrun' = overrun
      /\ capacity' = capacity
      /\ detector' = detector /\ started' = started /\ wire' = wire /\ leaf' = leaf
      /\ sampler.pc = "publish" /\ sampler' = [sampler EXCEPT !.pc = "fill"]
  BY DEF PublishLine
<1>2. sampler \in SamplerRec
  BY Counters
<1> QED
  BY <1>1, <1>2 DEF SamplerRec, SamplerPcs

LEMMA FillLineStep ==
  ASSUME TypeOK, FillLine
  PROVE  /\ size' = size /\ clusters' = [clusters EXCEPT ![sampler.cl] = sampler.line]
         /\ overrun' = (overrun \/ sampler.cl >= capacity) /\ capacity' = capacity
         /\ detector' = detector /\ started' = started /\ wire' = wire /\ leaf' = leaf
         /\ sampler.pc = "fill" /\ sampler' \in SamplerRec /\ sampler'.pc = "struct"
         /\ sampler'.line = sampler.line /\ sampler'.cl = sampler.cl
         /\ sampler'.hit = sampler.hit
<1>1. /\ size' = size /\ clusters' = [clusters EXCEPT ![sampler.cl] = sampler.line]
      /\ overrun' = (overrun \/ sampler.cl >= capacity) /\ capacity' = capacity
      /\ detector' = detector /\ started' = started /\ wire' = wire /\ leaf' = leaf
      /\ sampler.pc = "fill" /\ sampler' = [sampler EXCEPT !.pc = "struct"]
  BY DEF FillLine
<1>2. sampler \in SamplerRec
  BY Counters
<1> QED
  BY <1>1, <1>2 DEF SamplerRec, SamplerPcs

LEMMA CastLineStep ==
  ASSUME TypeOK, BoundInv, CastLine
  PROVE  /\ size' = size /\ clusters' = clusters /\ overrun' = overrun /\ capacity' = capacity
         /\ detector' = detector /\ started' = started /\ leaf' = leaf
         /\ sampler.pc \in {"struct", "center"}
         /\ \E id \in Found(sampler.cl) : wire' = Append(wire, Cast(sampler.pc, id))
         /\ sampler' \in SamplerRec /\ sampler'.cl = sampler.cl /\ sampler'.hit = sampler.hit
         /\ \/ /\ sampler.pc = "struct" /\ sampler'.pc = "center"
               /\ sampler'.line = sampler.line
            \/ /\ sampler.pc = "center" /\ sampler'.pc = "read"
               /\ sampler'.line = sampler.line + 1
<1>1. /\ size' = size /\ clusters' = clusters /\ overrun' = overrun /\ capacity' = capacity
      /\ detector' = detector /\ started' = started /\ leaf' = leaf
      /\ sampler.pc \in {"struct", "center"}
      /\ \E id \in Found(sampler.cl) : wire' = Append(wire, Cast(sampler.pc, id))
  BY DEF CastLine, arrayVars, What
<1>2. sampler \in SamplerRec
  BY Counters
<1>3. CASE sampler.pc = "struct"
  <2>1. sampler' = [sampler EXCEPT !.pc = "center"]
    BY <1>3 DEF CastLine
  <2> QED
    BY <1>1, <1>2, <1>3, <2>1 DEF SamplerRec, SamplerPcs
<1>4. CASE sampler.pc = "center"
  <2>1. sampler' = [sampler EXCEPT !.pc = "read", !.line = sampler.line + 1]
    BY <1>4 DEF CastLine
  <2>2. sampler.line + 1 \in 0..MaxLines
    BY <1>4, Counters, Constants DEF BoundInv
  <2> QED
    BY <1>1, <1>2, <1>4, <2>1, <2>2 DEF SamplerRec, SamplerPcs
<1> QED
  BY <1>1, <1>3, <1>4

\* And each step of the detector.
LEMMA DetectStep ==
  ASSUME TypeOK, Detect
  PROVE  /\ size' = size /\ clusters' = clusters /\ overrun' = overrun /\ capacity' = capacity
         /\ sampler' = sampler /\ started' = started /\ wire' = wire /\ leaf' = leaf
         /\ started /\ detector.pc = "wait" /\ detector.round < MaxRounds
         /\ detector' \in DetectorRec /\ detector'.pc = "load"
         /\ detector'.round = detector.round + 1 /\ detector'.prevSize = size
         /\ detector'.left \in 1..K
<1>1. /\ size' = size /\ clusters' = clusters /\ overrun' = overrun /\ capacity' = capacity
      /\ sampler' = sampler /\ started' = started /\ wire' = wire /\ leaf' = leaf
      /\ started /\ detector.pc = "wait" /\ detector.round < MaxRounds
  BY DEF Detect, arrayVars
<1>2. PICK new \in 1..K :
        detector' = [detector EXCEPT !.pc = "load", !.round = detector.round + 1,
                                     !.prevSize = size, !.left = new]
  BY DEF Detect
<1>3. new \in 0..K /\ detector.round + 1 \in 0..MaxRounds
  BY <1>1, Counters, Constants
<1>4. detector \in DetectorRec /\ size \in Places
  BY Counters
<1> QED
  BY <1>1, <1>2, <1>3, <1>4 DEF DetectorRec, DetectorPcs

LEMMA DetectorLoads ==
  ASSUME TypeOK, LoadNew \/ CountNew \/ WantNew
  PROVE  /\ size' = size /\ clusters' = clusters /\ overrun' = overrun /\ capacity' = capacity
         /\ sampler' = sampler /\ started' = started /\ wire' = wire /\ leaf' = leaf
         /\ detector' \in DetectorRec /\ detector'.round = detector.round
         /\ detector'.prevSize = detector.prevSize /\ detector'.left = detector.left
         /\ \/ /\ detector.pc = "load" /\ detector.left > 0
               /\ detector'.pc = "count" /\ detector'.id = size
            \/ /\ detector.pc = "load" /\ ~ (detector.left > 0)
               /\ detector'.pc = "struct" /\ detector'.k = detector.prevSize
            \/ /\ detector.pc = "count" /\ detector'.pc = "publish"
               /\ detector'.id = detector.id /\ detector'.n = size
            \/ /\ detector.pc = "want" /\ detector'.pc = "realloc"
               /\ detector'.id = detector.id
<1>1. /\ size' = size /\ clusters' = clusters /\ overrun' = overrun /\ capacity' = capacity
      /\ sampler' = sampler /\ started' = started /\ wire' = wire /\ leaf' = leaf
  BY DEF LoadNew, CountNew, WantNew, arrayVars
<1>2. detector \in DetectorRec /\ size \in Places /\ detector.prevSize \in Places
  BY Counters
<1>3. CASE LoadNew /\ detector.left > 0
  <2>1. detector.pc = "load" /\ detector' = [detector EXCEPT !.pc = "count", !.id = size]
    BY <1>3 DEF LoadNew
  <2> QED
    BY <1>1, <1>2, <1>3, <2>1 DEF DetectorRec, DetectorPcs
<1>4. CASE LoadNew /\ ~ (detector.left > 0)
  <2>1. /\ detector.pc = "load"
        /\ detector' = [detector EXCEPT !.pc = "struct", !.k = detector.prevSize]
    BY <1>4 DEF LoadNew, NewFrom
  <2> QED
    BY <1>1, <1>2, <1>4, <2>1 DEF DetectorRec, DetectorPcs
<1>5. CASE CountNew
  <2>1. detector.pc = "count" /\ detector' = [detector EXCEPT !.pc = "publish", !.n = size]
    BY <1>5 DEF CountNew
  <2> QED
    BY <1>1, <1>2, <2>1 DEF DetectorRec, DetectorPcs
<1>6. CASE WantNew
  <2>1. detector.pc = "want" /\ detector' = [detector EXCEPT !.pc = "realloc", !.n = size]
    BY <1>6 DEF WantNew
  <2> QED
    BY <1>1, <1>2, <2>1 DEF DetectorRec, DetectorPcs
<1> QED
  BY <1>3, <1>4, <1>5, <1>6

\* The steps of the detector that change the array.
LEMMA DetectorStores ==
  ASSUME TypeOK, PublishNew \/ FitArray
  PROVE  /\ clusters' = clusters /\ overrun' = overrun
         /\ started' = started /\ wire' = wire /\ leaf' = leaf
         /\ sampler' \in SamplerRec /\ sampler'.pc = sampler.pc /\ sampler'.line = sampler.line
         /\ sampler'.cl = sampler.cl /\ sampler'.n = sampler.n /\ sampler'.hit = TRUE
         /\ detector' \in DetectorRec /\ detector'.round = detector.round
         /\ detector'.prevSize = detector.prevSize /\ detector'.left = detector.left
         /\ detector'.id = detector.id
         /\ \/ /\ detector.pc = "publish" /\ detector'.pc = "want"
               /\ size' = detector.n + 1 /\ capacity' = capacity
            \/ /\ detector.pc = "realloc" /\ detector'.pc = "fill"
               /\ size' = size /\ capacity' = detector.n
<1>1. /\ clusters' = clusters /\ overrun' = overrun
      /\ started' = started /\ wire' = wire /\ leaf' = leaf
      /\ sampler' = [sampler EXCEPT !.hit = TRUE]
  BY DEF PublishNew, FitArray
<1>2. detector \in DetectorRec /\ sampler \in SamplerRec
  BY Counters
<1>3. /\ sampler' \in SamplerRec /\ sampler'.pc = sampler.pc /\ sampler'.line = sampler.line
      /\ sampler'.cl = sampler.cl /\ sampler'.n = sampler.n /\ sampler'.hit = TRUE
  BY <1>1, <1>2 DEF SamplerRec
<1>4. CASE PublishNew
  <2>1. /\ detector.pc = "publish" /\ detector' = [detector EXCEPT !.pc = "want"]
        /\ size' = detector.n + 1 /\ capacity' = capacity
    BY <1>4 DEF PublishNew
  <2> QED
    BY <1>1, <1>2, <1>3, <2>1 DEF DetectorRec, DetectorPcs
<1>5. CASE FitArray
  <2>1. /\ detector.pc = "realloc" /\ detector' = [detector EXCEPT !.pc = "fill"]
        /\ size' = size /\ capacity' = detector.n
    BY <1>5 DEF FitArray
  <2> QED
    BY <1>1, <1>2, <1>3, <2>1 DEF DetectorRec, DetectorPcs
<1> QED
  BY <1>4, <1>5

LEMMA FillNewStep ==
  ASSUME TypeOK, BoundInv, FillNew
  PROVE  /\ size' = size /\ clusters' = [clusters EXCEPT ![size - 1] = detector.id]
         /\ overrun' = (overrun \/ size > capacity) /\ capacity' = capacity
         /\ sampler' = sampler /\ started' = started /\ wire' = wire /\ leaf' = leaf
         /\ detector.pc = "fill" /\ detector' \in DetectorRec /\ detector'.pc = "load"
         /\ detector'.round = detector.round /\ detector'.prevSize = detector.prevSize
         /\ detector'.left = detector.left - 1
<1>1. /\ size' = size /\ clusters' = [clusters EXCEPT ![size - 1] = detector.id]
      /\ overrun' = (overrun \/ size > capacity) /\ capacity' = capacity
      /\ sampler' = sampler /\ started' = started /\ wire' = wire /\ leaf' = leaf
      /\ detector.pc = "fill"
      /\ detector' = [detector EXCEPT !.pc = "load", !.left = detector.left - 1]
  BY DEF FillNew
<1>2. detector \in DetectorRec
  BY Counters
<1>3. detector.left - 1 \in 0..K
  <2>1. detector.left > 0 /\ detector.left \in 0..K
    BY <1>1, Counters DEF BoundInv
  <2> QED
    BY <2>1, Constants
<1> QED
  BY <1>1, <1>2, <1>3 DEF DetectorRec, DetectorPcs

LEMMA CastNewStep ==
  ASSUME TypeOK, BoundInv, CastNew
  PROVE  /\ size' = size /\ clusters' = clusters /\ overrun' = overrun /\ capacity' = capacity
         /\ sampler' = sampler /\ started' = started /\ leaf' = leaf
         /\ detector.pc \in {"struct", "center"}
         /\ detector' \in DetectorRec /\ detector'.round = detector.round
         /\ detector'.prevSize = detector.prevSize /\ detector'.left = detector.left
         /\ \/ /\ detector.pc = "struct" /\ detector.k >= size
               /\ detector'.pc = "wait" /\ wire' = wire
            \/ /\ \/ /\ detector.pc = "struct" /\ ~ (detector.k >= size)
                     /\ detector'.pc = "center" /\ detector'.k = detector.k
                  \/ /\ detector.pc = "center" /\ detector'.pc = "struct"
                     /\ detector'.k = detector.k + 1
               /\ detector.k < MaxSize
               /\ \E id \in Found(detector.k) : wire' = Append(wire, Cast(detector.pc, id))
<1>1. /\ size' = size /\ clusters' = clusters /\ overrun' = overrun /\ capacity' = capacity
      /\ sampler' = sampler /\ started' = started /\ leaf' = leaf
      /\ detector.pc \in {"struct", "center"}
  BY DEF CastNew, arrayVars
<1>2. detector \in DetectorRec /\ detector.k \in Nat /\ size \in Nat /\ size <= MaxSize
  BY Counters
<1>3. CASE detector.pc = "struct" /\ detector.k >= size
  <2>1. detector' = [detector EXCEPT !.pc = "wait"] /\ wire' = wire
    BY <1>3 DEF CastNew
  <2> QED
    BY <1>1, <1>2, <1>3, <2>1 DEF DetectorRec, DetectorPcs
<1>4. CASE detector.pc = "struct" /\ ~ (detector.k >= size)
  <2>1. /\ detector' = [detector EXCEPT !.pc = "center"]
        /\ \E id \in Found(detector.k) : wire' = Append(wire, Cast(detector.pc, id))
    BY <1>4 DEF CastNew, What
  <2>2. detector.k < MaxSize
    BY <1>2, <1>4, Constants
  <2> QED
    BY <1>1, <1>2, <1>4, <2>1, <2>2 DEF DetectorRec, DetectorPcs
<1>5. CASE detector.pc = "center"
  <2>1. /\ detector' = [detector EXCEPT !.pc = "struct", !.k = detector.k + 1]
        /\ \E id \in Found(detector.k) : wire' = Append(wire, Cast(detector.pc, id))
    BY <1>5 DEF CastNew, What
  <2>2. detector.k < MaxSize
    BY <1>5 DEF BoundInv
  <2>3. detector.k + 1 \in Places
    BY <1>2, <2>2, Constants DEF Places
  <2> QED
    BY <1>1, <1>2, <1>5, <2>1, <2>2, <2>3 DEF DetectorRec, DetectorPcs
<1> QED
  BY <1>1, <1>3, <1>4, <1>5

-----------------------------------------------------------------------------
\* The bounds.
LEMMA FitsIsSum ==
  \A n : Fits(n) <=> n + LinesToCome + NewToCome <= Most(detector.round)
  BY DEF Fits

\* A size that fits with at least one cluster still to come is a place.
LEMMA FitsIsPlace ==
  ASSUME TypeOK, BoundInv, NEW n \in Nat, Fits(n)
  PROVE  /\ n \in Places
         /\ LinesToCome + NewToCome > 0 => n + 1 \in Places /\ n < MaxSize
<1>1. /\ LinesToCome \in Nat /\ NewToCome \in Nat /\ Most(detector.round) \in Nat
      /\ Most(detector.round) <= MaxSize /\ MaxSize \in Nat
      /\ n + LinesToCome + NewToCome <= Most(detector.round)
  BY ToCome, Constants DEF Fits
<1> QED
  BY <1>1 DEF Places

\* Less to come makes room for what fits.
LEMMA FitsStays ==
  ASSUME TypeOK, BoundInv, NEW n \in Nat, Fits(n),
         LinesToCome' \in Nat, NewToCome' \in Nat, detector'.round = detector.round,
         LinesToCome' <= LinesToCome, NewToCome' <= NewToCome
  PROVE  n + LinesToCome' + NewToCome' <= Most(detector'.round)
<1>1. /\ LinesToCome \in Nat /\ NewToCome \in Nat /\ Most(detector.round) \in Nat
      /\ n + LinesToCome + NewToCome <= Most(detector.round)
  BY ToCome DEF Fits
<1>2. Most(detector'.round) = Most(detector.round)
  BY DEF Most
<1> QED
  BY <1>1, <1>2

LEMMA OneLess ==
  ASSUME NEW a \in Nat, NEW b \in Nat, NEW c \in Nat, NEW n \in Nat, a + 1 = b
  PROVE  /\ b + c > 0 /\ c + b > 0 /\ a <= b /\ c <= c
         /\ n + 1 + a + c = n + b + c /\ n + 1 + c + a = n + c + b
  OBVIOUS

LEMMA SamplerLoadsBound ==
  ASSUME TypeOK, BoundInv, Noted, TestGrowth \/ LoadWanted \/ GrowArray \/ LoadPlace \/ LoadCount
  PROVE  TypeOK' /\ BoundInv'
<1>1. /\ size' = size /\ clusters' = clusters /\ overrun' = overrun
      /\ detector' = detector /\ started' = started /\ wire' = wire /\ leaf' = leaf
      /\ sampler' \in SamplerRec /\ sampler'.line = sampler.line
      /\ sampler.pc \in {"test", "want", "realloc", "place", "count"}
      /\ sampler'.pc \in {"want", "realloc", "place", "count", "publish"}
      /\ GrowArray \/ capacity' = capacity
      /\ sampler'.pc = "publish" => /\ sampler.pc = "count" /\ sampler'.n = size
                                    /\ sampler'.cl = sampler.cl
      /\ sampler'.pc = "count" => sampler.pc = "place" /\ sampler'.cl = size
  BY SamplerLoads
<1>2. capacity' \in 0..(MaxSize + K)
  <2>1. GrowArray => capacity' = sampler.n + K
    BY DEF GrowArray, Grown
  <2>2. sampler.n \in Nat /\ sampler.n <= MaxSize
    BY Counters, PlacesAreNumbers
  <2>3. sampler.n + K \in 0..(MaxSize + K)
    BY <2>2, Constants
  <2>4. capacity \in 0..(MaxSize + K)
    BY DEF TypeOK
  <2> QED
    BY <1>1, <2>1, <2>3, <2>4
<1>3. TypeOK'
  <2>1. crossed' \in BOOLEAN
    BY DEF Noted, TypeOK, BothAdd
  <2> QED
    BY <1>1, <1>2, <2>1 DEF TypeOK, SamplerRec
<1>4. LinesToCome' = LinesToCome /\ NewToCome' = NewToCome
  BY <1>1 DEF LinesToCome, NewToCome
<1>5. \A n : Fits(n) => n + LinesToCome' + NewToCome' <= Most(detector'.round)
  BY <1>1, <1>4 DEF Fits, Most
<1> QED
  BY <1>1, <1>3, <1>5 DEF BoundInv, Fits

LEMMA ReadLineBound ==
  ASSUME TypeOK, BoundInv, Noted, ReadLine
  PROVE  TypeOK' /\ BoundInv'
<1>1. /\ size' = size /\ clusters' = clusters /\ overrun' = overrun /\ capacity' = capacity
      /\ detector' = detector /\ started' = started /\ wire' = wire /\ leaf' = leaf
      /\ sampler.pc = "read" /\ sampler.line < MaxLines
      /\ sampler' \in SamplerRec
      /\ \/ sampler'.pc = "test" /\ sampler'.line = sampler.line
         \/ sampler'.pc = "read" /\ sampler'.line = sampler.line + 1
  BY ReadLineStep
<1>2. TypeOK'
  <2>1. crossed' \in BOOLEAN
    BY DEF Noted, TypeOK, BothAdd
  <2> QED
    BY <1>1, <2>1 DEF TypeOK, SamplerRec
<1>3. /\ LinesToCome' \in Nat /\ LinesToCome' <= LinesToCome
      /\ NewToCome' = NewToCome /\ NewToCome \in Nat
  <2>1. LinesToCome' = MaxLines - sampler'.line /\ LinesToCome = MaxLines - sampler.line
    BY <1>1 DEF LinesToCome
  <2>2. sampler.line \in Nat /\ MaxLines \in Nat /\ NewToCome \in Nat
    BY Counters, Constants, ToCome
  <2>3. NewToCome' = NewToCome
    BY <1>1 DEF NewToCome
  <2> QED
    BY <1>1, <2>1, <2>2, <2>3
<1>4. \A n \in Nat : Fits(n) => n + LinesToCome' + NewToCome' <= Most(detector'.round)
  BY <1>1, <1>3, FitsStays
<1>5. size \in Nat /\ detector.id \in Nat /\ detector.n \in Nat
  BY Counters
<1>6. sampler'.pc # "read" => sampler'.line < MaxLines
  BY <1>1
<1>7. sampler'.pc \notin {"count", "publish"}
  BY <1>1
<1> QED
  BY <1>1, <1>2, <1>4, <1>5, <1>6, <1>7 DEF BoundInv, Fits

LEMMA PublishLineBound ==
  ASSUME TypeOK, BoundInv, Noted, PublishLine
  PROVE  TypeOK' /\ BoundInv'
<1>1. /\ size' = sampler.n + 1 /\ clusters' = clusters /\ overrun' = overrun
      /\ capacity' = capacity
      /\ detector' = detector /\ started' = started /\ wire' = wire /\ leaf' = leaf
      /\ sampler.pc = "publish" /\ sampler' \in SamplerRec /\ sampler'.pc = "fill"
      /\ sampler'.line = sampler.line
  BY PublishLineStep
<1>2. /\ sampler.n \in Nat /\ sampler.line \in Nat /\ sampler.line < MaxLines
      /\ Fits(sampler.n) /\ MaxLines \in Nat
  BY <1>1, Counters, Constants DEF BoundInv
<1>3. /\ LinesToCome' \in Nat /\ LinesToCome' + 1 = LinesToCome /\ LinesToCome \in Nat
      /\ NewToCome' = NewToCome /\ NewToCome \in Nat
  <2>1. LinesToCome' = MaxLines - sampler.line - 1 /\ LinesToCome = MaxLines - sampler.line
    BY <1>1 DEF LinesToCome
  <2>2. NewToCome' = NewToCome /\ NewToCome \in Nat
    BY <1>1, ToCome DEF NewToCome
  <2> QED
    BY <1>2, <2>1, <2>2
<1>4. sampler.n + 1 \in Places
  <2>1. LinesToCome + NewToCome > 0
    BY <1>2, <1>3, OneLess
  <2> QED
    BY <1>2, <2>1, FitsIsPlace
<1>5. TypeOK'
  <2>1. crossed' \in BOOLEAN
    BY DEF Noted, TypeOK, BothAdd
  <2> QED
    BY <1>1, <1>4, <2>1 DEF TypeOK, SamplerRec
<1>6. size' + LinesToCome' + NewToCome' <= Most(detector'.round)
  <2>1. /\ sampler.n + LinesToCome + NewToCome <= Most(detector.round)
        /\ Most(detector.round) \in Nat
    BY <1>2, ToCome DEF Fits
  <2>2. Most(detector'.round) = Most(detector.round)
    BY <1>1
  <2>3. sampler.n + 1 + LinesToCome' + NewToCome' = sampler.n + LinesToCome + NewToCome
    <3>1. PICK a \in Nat, b \in Nat, c \in Nat, n \in Nat :
            /\ a = LinesToCome' /\ b = LinesToCome /\ c = NewToCome /\ n = sampler.n
            /\ a + 1 = b
      BY <1>2, <1>3, Zenon
    <3>2. n + 1 + a + c = n + b + c
      <4>1. a \in Nat /\ b \in Nat /\ c \in Nat /\ n \in Nat /\ a + 1 = b
        BY <3>1, Zenon
      <4> QED
        BY <4>1, OneLess
    <3>3. sampler.n + 1 + LinesToCome' + NewToCome = sampler.n + LinesToCome + NewToCome
      BY <3>1, <3>2, Zenon
    <3> QED
      BY <1>3, <3>3, Zenon
  <2> QED
    BY <1>1, <2>1, <2>2, <2>3
<1>7. \A n \in Nat : Fits(n) => n + LinesToCome' + NewToCome' <= Most(detector'.round)
  <2>1. LinesToCome' <= LinesToCome /\ NewToCome' <= NewToCome /\ NewToCome' \in Nat
    BY <1>2, <1>3, OneLess
  <2> QED
    BY <1>1, <1>3, <2>1, FitsStays
<1>8. detector.id \in Nat /\ detector.n \in Nat
  BY Counters
<1> QED
  BY <1>1, <1>2, <1>5, <1>6, <1>7, <1>8 DEF BoundInv, Fits

LEMMA FillLineBound ==
  ASSUME TypeOK, BoundInv, Noted, FillLine
  PROVE  TypeOK' /\ BoundInv'
<1>1. /\ size' = size /\ clusters' = [clusters EXCEPT ![sampler.cl] = sampler.line]
      /\ overrun' = (overrun \/ sampler.cl >= capacity) /\ capacity' = capacity
      /\ detector' = detector /\ started' = started /\ wire' = wire /\ leaf' = leaf
      /\ sampler.pc = "fill" /\ sampler' \in SamplerRec /\ sampler'.pc = "struct"
      /\ sampler'.line = sampler.line
  BY FillLineStep
<1>2. sampler.line \in Places
  <2>1. Most(0) >= MaxLines /\ Most(0) <= MaxSize /\ Most(0) \in Nat
    BY MostGrows, Constants
  <2> QED
    BY <2>1, Counters, Constants DEF Places
<1>3. TypeOK'
  <2>1. crossed' \in BOOLEAN /\ overrun' \in BOOLEAN
    BY <1>1 DEF Noted, TypeOK, BothAdd
  <2>2. clusters' \in [Places -> Places]
    BY <1>1, <1>2 DEF TypeOK
  <2> QED
    BY <1>1, <2>1, <2>2 DEF TypeOK, SamplerRec
<1>4. LinesToCome' = LinesToCome /\ NewToCome' = NewToCome
  BY <1>1 DEF LinesToCome, NewToCome
<1>5. \A n : Fits(n) => n + LinesToCome' + NewToCome' <= Most(detector'.round)
  BY <1>1, <1>4 DEF Fits, Most
<1> QED
  BY <1>1, <1>3, <1>5 DEF BoundInv, Fits

\* What a broadcast finds is an id.
LEMMA FoundIsId ==
  ASSUME TypeOK, NEW i \in Places, NEW id \in Found(i), NEW what \in {"struct", "center"}
  PROVE  /\ id \in Ids /\ (id = clusters[i] \/ id = Junk)
         /\ Append(wire, Cast(what, id)) \in Seq([what : {"struct", "center"}, id : Ids])
<1>1. id = clusters[i] \/ id = Junk
  BY DEF Found
<1>2. clusters[i] \in Places
  BY DEF TypeOK
<1>3. id \in Ids
  BY <1>1, <1>2 DEF Ids
<1>4. Cast(what, id) \in [what : {"struct", "center"}, id : Ids]
  BY <1>3 DEF Cast
<1> QED
  BY <1>1, <1>3, <1>4 DEF TypeOK

LEMMA CastLineBound ==
  ASSUME TypeOK, BoundInv, Noted, CastLine
  PROVE  TypeOK' /\ BoundInv'
<1>1. /\ size' = size /\ clusters' = clusters /\ overrun' = overrun /\ capacity' = capacity
      /\ detector' = detector /\ started' = started /\ leaf' = leaf
      /\ sampler.pc \in {"struct", "center"}
      /\ \E id \in Found(sampler.cl) : wire' = Append(wire, Cast(sampler.pc, id))
      /\ sampler' \in SamplerRec
      /\ \/ /\ sampler.pc = "struct" /\ sampler'.pc = "center"
            /\ sampler'.line = sampler.line
         \/ /\ sampler.pc = "center" /\ sampler'.pc = "read"
            /\ sampler'.line = sampler.line + 1
  BY CastLineStep
<1>2. TypeOK'
  <2>1. crossed' \in BOOLEAN
    BY DEF Noted, TypeOK, BothAdd
  <2>2. wire' \in Seq([what : {"struct", "center"}, id : Ids])
    BY <1>1, FoundIsId, Counters
  <2> QED
    BY <1>1, <2>1, <2>2 DEF TypeOK, SamplerRec
<1>3. LinesToCome' = LinesToCome /\ NewToCome' = NewToCome
  <2>1. LinesToCome = MaxLines - sampler.line - 1
    BY <1>1 DEF LinesToCome
  <2>2. CASE sampler'.pc = "center" /\ sampler'.line = sampler.line
    BY <1>1, <2>1, <2>2 DEF LinesToCome, NewToCome
  <2>3. CASE sampler'.pc = "read" /\ sampler'.line = sampler.line + 1
    <3>1. LinesToCome' = MaxLines - (sampler.line + 1)
      BY <2>3 DEF LinesToCome
    <3>2. MaxLines - (sampler.line + 1) = MaxLines - sampler.line - 1
      <4>1. sampler.line \in Nat /\ MaxLines \in Nat
        BY Counters, Constants
      <4> QED
        BY <4>1
    <3>3. NewToCome' = NewToCome
      BY <1>1 DEF NewToCome
    <3> QED
      BY <2>1, <3>1, <3>2, <3>3, Zenon
  <2> QED
    BY <1>1, <2>2, <2>3
<1>4. \A n : Fits(n) => n + LinesToCome' + NewToCome' <= Most(detector'.round)
  BY <1>1, <1>3 DEF Fits, Most
<1>5. /\ sampler'.pc # "read" => sampler'.line < MaxLines
      /\ sampler'.pc \notin {"count", "publish"}
  BY <1>1 DEF BoundInv
<1> QED
  BY <1>1, <1>2, <1>4, <1>5 DEF BoundInv, Fits

LEMMA ReadExampleBound ==
  ASSUME TypeOK, BoundInv, Noted, ReadExample
  PROVE  TypeOK' /\ BoundInv'
<1>1. crossed' \in BOOLEAN
  BY DEF Noted, TypeOK, BothAdd
<1> QED
  BY <1>1 DEF ReadExample, arrayVars, TypeOK, BoundInv, Fits, LinesToCome, NewToCome

LEMMA DetectBound ==
  ASSUME TypeOK, BoundInv, Noted, Detect
  PROVE  TypeOK' /\ BoundInv'
<1>1. /\ size' = size /\ clusters' = clusters /\ overrun' = overrun /\ capacity' = capacity
      /\ sampler' = sampler /\ started' = started /\ wire' = wire /\ leaf' = leaf
      /\ detector.pc = "wait"
      /\ detector' \in DetectorRec /\ detector'.pc = "load"
      /\ detector'.round = detector.round + 1 /\ detector'.left \in 1..K
  BY DetectStep
<1>2. TypeOK'
  <2>1. crossed' \in BOOLEAN
    BY DEF Noted, TypeOK, BothAdd
  <2> QED
    BY <1>1, <2>1 DEF TypeOK, DetectorRec
<1>3. /\ LinesToCome' = LinesToCome /\ LinesToCome \in Nat
      /\ NewToCome = 0 /\ NewToCome' \in Nat /\ NewToCome' <= K
  <2>1. LinesToCome' = LinesToCome /\ NewToCome' = detector'.left
    BY <1>1 DEF LinesToCome, NewToCome
  <2>2. NewToCome = 0
    BY <1>1 DEF NewToCome, BoundInv
  <2> QED
    BY <1>1, <2>1, <2>2, ToCome, Constants
<1>4. /\ Most(detector'.round) = Most(detector.round) + K /\ Most(detector.round) \in Nat
      /\ detector.round # -1
  BY <1>1, MostGrows, Counters
<1>5. \A n \in Nat : Fits(n) => n + LinesToCome' + NewToCome' <= Most(detector'.round)
  <2>1. \A n, a, b, m, k \in Nat : n + a + 0 <= m /\ b <= k => n + a + b <= m + k
    OBVIOUS
  <2> QED
    BY <1>3, <1>4, <2>1, Constants DEF Fits
<1>6. size \in Nat /\ sampler.cl \in Nat /\ sampler.n \in Nat /\ detector'.round # 0
  BY <1>1, Counters
<1> QED
  BY <1>1, <1>2, <1>5, <1>6 DEF BoundInv, Fits

LEMMA DetectorLoadsBound ==
  ASSUME TypeOK, BoundInv, Noted, LoadNew \/ CountNew \/ WantNew
  PROVE  TypeOK' /\ BoundInv'
<1>1. /\ size' = size /\ clusters' = clusters /\ overrun' = overrun /\ capacity' = capacity
      /\ sampler' = sampler /\ started' = started /\ wire' = wire /\ leaf' = leaf
      /\ detector' \in DetectorRec /\ detector'.round = detector.round
      /\ detector'.left = detector.left
      /\ \/ /\ detector.pc = "load" /\ detector.left > 0
            /\ detector'.pc = "count" /\ detector'.id = size
         \/ /\ detector.pc = "load" /\ ~ (detector.left > 0)
            /\ detector'.pc = "struct"
         \/ /\ detector.pc = "count" /\ detector'.pc = "publish"
            /\ detector'.id = detector.id /\ detector'.n = size
         \/ /\ detector.pc = "want" /\ detector'.pc = "realloc"
            /\ detector'.id = detector.id
  BY DetectorLoads
<1>2. TypeOK'
  <2>1. crossed' \in BOOLEAN
    BY DEF Noted, TypeOK, BothAdd
  <2> QED
    BY <1>1, <2>1 DEF TypeOK, DetectorRec
<1>3. LinesToCome' = LinesToCome /\ NewToCome' = NewToCome
  BY <1>1 DEF LinesToCome, NewToCome
<1>4. \A n : Fits(n) => n + LinesToCome' + NewToCome' <= Most(detector'.round)
  BY <1>1, <1>3 DEF Fits, Most
<1>5. detector.left \in Nat
  BY Counters
<1> QED
  BY <1>1, <1>2, <1>4, <1>5 DEF BoundInv, Fits

LEMMA DetectorStoresBound ==
  ASSUME TypeOK, BoundInv, Noted, PublishNew \/ FitArray
  PROVE  TypeOK' /\ BoundInv'
<1>1. /\ clusters' = clusters /\ overrun' = overrun
      /\ started' = started /\ wire' = wire /\ leaf' = leaf
      /\ sampler' \in SamplerRec /\ sampler'.pc = sampler.pc /\ sampler'.line = sampler.line
      /\ sampler'.cl = sampler.cl /\ sampler'.n = sampler.n
      /\ detector' \in DetectorRec /\ detector'.round = detector.round
      /\ detector'.left = detector.left /\ detector'.id = detector.id
      /\ \/ /\ detector.pc = "publish" /\ detector'.pc = "want"
            /\ size' = detector.n + 1 /\ capacity' = capacity
         \/ /\ detector.pc = "realloc" /\ detector'.pc = "fill"
            /\ size' = size /\ capacity' = detector.n
  BY DetectorStores
<1>2. crossed' \in BOOLEAN
  BY DEF Noted, TypeOK, BothAdd
<1>3. LinesToCome' = LinesToCome /\ LinesToCome \in Nat /\ NewToCome \in Nat
  BY <1>1, ToCome DEF LinesToCome
<1>4. /\ size \in Nat /\ sampler.cl \in Nat /\ sampler.n \in Nat
      /\ detector.n \in Nat /\ detector.id \in Nat /\ detector.left \in Nat
  BY Counters
<1>5. CASE detector.pc = "publish"
  <2>1. /\ detector'.pc = "want" /\ size' = detector.n + 1 /\ capacity' = capacity
        /\ detector.left > 0 /\ Fits(detector.n) /\ Fits(detector.id)
    BY <1>1, <1>5 DEF BoundInv
  <2>2. NewToCome' \in Nat /\ NewToCome' + 1 = NewToCome
    <3>1. NewToCome' = detector.left - 1 /\ NewToCome = detector.left
      BY <1>1, <1>5, <2>1 DEF NewToCome
    <3> QED
      BY <1>4, <2>1, <3>1
  <2>3. detector.n + 1 \in Places /\ detector.id < MaxSize
    <3>1. LinesToCome + NewToCome > 0
      BY <1>3, <1>4, <2>2, OneLess
    <3> QED
      BY <1>4, <2>1, <3>1, FitsIsPlace
  <2>4. TypeOK'
    BY <1>1, <1>2, <2>1, <2>3 DEF TypeOK, DetectorRec, SamplerRec
  <2>5. \A n \in Nat : Fits(n) => n + LinesToCome' + NewToCome' <= Most(detector'.round)
    <3>1. LinesToCome' <= LinesToCome /\ NewToCome' <= NewToCome /\ LinesToCome' \in Nat
      BY <1>3, <1>4, <2>2, OneLess
    <3> QED
      BY <1>1, <2>2, <3>1, FitsStays
  <2>6. size' + LinesToCome' + NewToCome' <= Most(detector'.round)
    <3>1. detector.n + LinesToCome + NewToCome <= Most(detector.round)
      BY <2>1 DEF Fits
    <3>2. Most(detector'.round) = Most(detector.round)
      BY <1>1
    <3>3. detector.n + 1 + LinesToCome' + NewToCome' = detector.n + LinesToCome + NewToCome
      <4>1. PICK a \in Nat, b \in Nat, c \in Nat, n \in Nat :
              /\ a = NewToCome' /\ b = NewToCome /\ c = LinesToCome /\ n = detector.n
              /\ a + 1 = b
        BY <1>3, <1>4, <2>2, Zenon
      <4>2. n + 1 + c + a = n + c + b
        <5>1. a \in Nat /\ b \in Nat /\ c \in Nat /\ n \in Nat /\ a + 1 = b
          BY <4>1, Zenon
        <5> QED
          BY <5>1, OneLess
      <4>3. detector.n + 1 + LinesToCome + NewToCome' = detector.n + LinesToCome + NewToCome
        BY <4>1, <4>2, Zenon
      <4> QED
        BY <1>3, <4>3, Zenon
    <3> QED
      BY <2>1, <3>1, <3>2, <3>3
  <2>7. detector.round # 0
    BY <1>5 DEF BoundInv
  <2> QED
    BY <1>1, <1>4, <2>1, <2>3, <2>4, <2>5, <2>6, <2>7 DEF BoundInv, Fits
<1>6. CASE detector.pc = "realloc"
  <2>1. /\ detector'.pc = "fill" /\ size' = size /\ capacity' = detector.n
        /\ detector.left > 0 /\ detector.id < MaxSize /\ detector.round # 0
    BY <1>1, <1>6 DEF BoundInv
  <2>2. capacity' \in 0..(MaxSize + K)
    <3>1. detector.n \in Nat /\ detector.n <= MaxSize
      BY Counters, PlacesAreNumbers
    <3> QED
      BY <2>1, <3>1, Constants
  <2>3. TypeOK'
    BY <1>1, <1>2, <2>1, <2>2 DEF TypeOK, DetectorRec, SamplerRec
  <2>4. NewToCome' = NewToCome
    BY <1>1, <1>6, <2>1 DEF NewToCome
  <2>5. \A n : Fits(n) => n + LinesToCome' + NewToCome' <= Most(detector'.round)
    BY <1>1, <1>3, <2>4 DEF Fits, Most
  <2> QED
    BY <1>1, <2>1, <2>3, <2>5 DEF BoundInv, Fits
<1> QED
  BY <1>1, <1>5, <1>6

LEMMA FillNewBound ==
  ASSUME TypeOK, BoundInv, Noted, FillNew
  PROVE  TypeOK' /\ BoundInv'
<1>1. /\ size' = size /\ clusters' = [clusters EXCEPT ![size - 1] = detector.id]
      /\ overrun' = (overrun \/ size > capacity) /\ capacity' = capacity
      /\ sampler' = sampler /\ started' = started /\ wire' = wire /\ leaf' = leaf
      /\ detector.pc = "fill" /\ detector' \in DetectorRec /\ detector'.pc = "load"
      /\ detector'.round = detector.round /\ detector'.left = detector.left - 1
  BY FillNewStep
<1>2. TypeOK'
  <2>1. crossed' \in BOOLEAN /\ overrun' \in BOOLEAN
    BY <1>1 DEF Noted, TypeOK, BothAdd
  <2>2. clusters' \in [Places -> Places]
    BY <1>1, Counters DEF TypeOK
  <2> QED
    BY <1>1, <2>1, <2>2 DEF TypeOK, DetectorRec
<1>3. LinesToCome' = LinesToCome /\ NewToCome' = NewToCome
  BY <1>1 DEF LinesToCome, NewToCome
<1>4. \A n : Fits(n) => n + LinesToCome' + NewToCome' <= Most(detector'.round)
  BY <1>1, <1>3 DEF Fits, Most
<1> QED
  BY <1>1, <1>2, <1>4 DEF BoundInv, Fits

LEMMA CastNewBound ==
  ASSUME TypeOK, BoundInv, Noted, CastNew
  PROVE  TypeOK' /\ BoundInv'
<1>1. /\ size' = size /\ clusters' = clusters /\ overrun' = overrun /\ capacity' = capacity
      /\ sampler' = sampler /\ started' = started /\ leaf' = leaf
      /\ detector.pc \in {"struct", "center"}
      /\ detector' \in DetectorRec /\ detector'.round = detector.round
      /\ detector'.left = detector.left
      /\ \/ /\ detector'.pc = "wait" /\ wire' = wire
         \/ /\ \/ detector'.pc = "center" /\ detector'.k = detector.k
               \/ detector'.pc = "struct"
            /\ detector.k < MaxSize
            /\ \E id \in Found(detector.k) : wire' = Append(wire, Cast(detector.pc, id))
  BY CastNewStep
<1>2. TypeOK'
  <2>1. crossed' \in BOOLEAN
    BY DEF Noted, TypeOK, BothAdd
  <2>2. wire' \in Seq([what : {"struct", "center"}, id : Ids])
    <3>1. CASE wire' = wire
      BY <3>1 DEF TypeOK
    <3>2. CASE \E id \in Found(detector.k) : wire' = Append(wire, Cast(detector.pc, id))
      <4>1. PICK id \in Found(detector.k) : wire' = Append(wire, Cast(detector.pc, id))
        BY <3>2
      <4>2. detector.k \in Places /\ detector.pc \in {"struct", "center"}
        BY <1>1, Counters
      <4>3. Append(wire, Cast(detector.pc, id))
              \in Seq([what : {"struct", "center"}, id : Ids])
        BY <4>2, FoundIsId
      <4> QED
        BY <4>1, <4>3
    <3> QED
      BY <1>1, <3>1, <3>2
  <2> QED
    BY <1>1, <2>1, <2>2 DEF TypeOK, DetectorRec
<1>3. LinesToCome' = LinesToCome /\ NewToCome' = NewToCome
  BY <1>1 DEF LinesToCome, NewToCome
<1>4. \A n : Fits(n) => n + LinesToCome' + NewToCome' <= Most(detector'.round)
  BY <1>1, <1>3 DEF Fits, Most
<1> QED
  BY <1>1, <1>2, <1>4 DEF BoundInv, Fits

\* A leaf.
LEMMA ReceiveBound ==
  ASSUME TypeOK, BoundInv, IdsInv, Noted, Receive
  PROVE  TypeOK' /\ BoundInv'
<1>1. /\ size' = size /\ clusters' = clusters /\ overrun' = overrun /\ capacity' = capacity
      /\ sampler' = sampler /\ started' = started /\ detector' = detector
      /\ wire' = Tail(wire) /\ wire # <<>>
  BY DEF Receive, arrayVars
<1>2. crossed' \in BOOLEAN
  BY DEF Noted, TypeOK, BothAdd
<1>3. wire' \in Seq([what : {"struct", "center"}, id : Ids])
  BY <1>1 DEF TypeOK
<1>4. leaf' \in [pc : {"struct", "center", "garbled", "assert"}, size : Places]
  <2>1. \/ leaf' = [leaf EXCEPT !.pc = "garbled"]
        \/ leaf.pc = "center" /\ leaf' = [pc |-> "struct", size |-> leaf.size + 1]
        \/ leaf' = [leaf EXCEPT !.pc = "center"]
        \/ leaf' = [leaf EXCEPT !.pc = "assert"]
    BY DEF Receive
  <2>2. leaf.pc = "center" => leaf.size + 1 \in Places
    <3>1. leaf.size \in Nat /\ MaxSize \in Nat
      BY Counters, Constants
    <3>2. leaf.pc = "center" => leaf.size < MaxSize
      BY DEF IdsInv
    <3> QED
      BY <3>1, <3>2 DEF Places
  <2> QED
    BY <2>1, <2>2 DEF TypeOK
<1> QED
  BY <1>1, <1>2, <1>3, <1>4 DEF TypeOK, BoundInv, Fits, LinesToCome, NewToCome

-----------------------------------------------------------------------------
\* The ids.
LEMMA StoresKeepIds ==
  ASSUME TypeOK, BoundInv, IdsInv, FillLine \/ FillNew
  PROVE  IdsInv'
<1>1. wire' = wire /\ leaf' = leaf
  BY DEF FillLine, FillNew
<1>2. MaxLines <= MaxSize /\ MaxSize \in Nat /\ MaxLines \in Nat
  <2>1. Most(0) \in Nat /\ Most(0) <= MaxSize /\ Most(0) >= MaxLines
    BY MostGrows, Constants
  <2> QED
    BY <2>1, Constants
<1>3. \A i \in Places : clusters'[i] = 0 \/ clusters'[i] < MaxSize
  <2>1. CASE FillLine
    <3>1. /\ clusters' = [clusters EXCEPT ![sampler.cl] = sampler.line]
          /\ sampler.line \in Nat /\ sampler.line < MaxLines
      BY <2>1, FillLineStep, Counters DEF BoundInv
    <3>2. sampler.line < MaxSize
      BY <1>2, <3>1
    <3> QED
      BY <3>1, <3>2 DEF TypeOK, IdsInv
  <2>2. CASE FillNew
    <3>1. /\ clusters' = [clusters EXCEPT ![size - 1] = detector.id]
          /\ detector.id < MaxSize
      BY <2>2, FillNewStep DEF BoundInv
    <3> QED
      BY <3>1 DEF TypeOK, IdsInv
  <2> QED
    BY <2>1, <2>2
<1> QED
  BY <1>1, <1>3 DEF IdsInv

\* What a broadcast finds is a message.
LEMMA FoundIsMessage ==
  ASSUME TypeOK, IdsInv, MaxSize > 0, NEW i \in Places, NEW id \in Found(i),
         NEW what \in {"struct", "center"}
  PROVE  Cast(what, id) \in Message
<1>1. id = clusters[i] \/ id = Junk
  BY DEF Found
<1>2. clusters[i] \in Nat /\ (clusters[i] = 0 \/ clusters[i] < MaxSize)
  BY PlacesAreNumbers DEF TypeOK, IdsInv
<1>3. clusters[i] \in 0..(MaxSize - 1)
  BY <1>2, Constants
<1> QED
  BY <1>1, <1>3 DEF Cast, Message

LEMMA CastsKeepIds ==
  ASSUME TypeOK, BoundInv, IdsInv, CastLine \/ CastNew
  PROVE  IdsInv'
<1>1. clusters' = clusters /\ leaf' = leaf
  BY DEF CastLine, CastNew, arrayVars
<1>2. wire' \in Seq(Message)
  <2>1. CASE CastLine
    <3>1. /\ sampler.pc \in {"struct", "center"} /\ sampler.line < MaxLines
          /\ \E id \in Found(sampler.cl) : wire' = Append(wire, Cast(sampler.pc, id))
      BY <2>1, CastLineStep DEF BoundInv
    <3>2. MaxSize > 0 /\ sampler.cl \in Places
      <4>1. Most(0) \in Nat /\ Most(0) <= MaxSize /\ Most(0) >= MaxLines
        BY MostGrows, Constants
      <4> QED
        BY <3>1, <4>1, Counters, Constants
    <3>3. PICK id \in Found(sampler.cl) : wire' = Append(wire, Cast(sampler.pc, id))
      BY <3>1
    <3>4. Cast(sampler.pc, id) \in Message
      BY <3>1, <3>2, FoundIsMessage
    <3> QED
      BY <3>3, <3>4 DEF IdsInv
  <2>2. CASE CastNew /\ wire' = wire
    BY <2>2 DEF IdsInv
  <2>3. CASE CastNew /\ ~ (wire' = wire)
    <3>1. /\ detector.pc \in {"struct", "center"} /\ detector.k < MaxSize
          /\ \E id \in Found(detector.k) : wire' = Append(wire, Cast(detector.pc, id))
      BY <2>3, CastNewStep
    <3>2. MaxSize > 0 /\ detector.k \in Places
      BY <3>1, Counters, Constants
    <3>3. PICK id \in Found(detector.k) : wire' = Append(wire, Cast(detector.pc, id))
      BY <3>1
    <3>4. Cast(detector.pc, id) \in Message
      BY <3>1, <3>2, FoundIsMessage
    <3> QED
      BY <3>3, <3>4 DEF IdsInv
  <2> QED
    BY <2>1, <2>2, <2>3
<1> QED
  BY <1>1, <1>2 DEF IdsInv

LEMMA ReceiveKeepsIds ==
  ASSUME TypeOK, IdsInv, Receive
  PROVE  IdsInv'
<1>1. clusters' = clusters /\ wire # <<>> /\ wire' = Tail(wire)
  BY DEF Receive, arrayVars
<1>2. wire' \in Seq(Message) /\ Head(wire) \in Message
  BY <1>1 DEF IdsInv
<1>3. leaf'.pc = "center" => leaf'.size < MaxSize
  <2>1. \/ leaf' = [leaf EXCEPT !.pc = "garbled"]
        \/ leaf' = [pc |-> "struct", size |-> leaf.size + 1]
        \/ Head(wire).id = leaf.size /\ leaf' = [leaf EXCEPT !.pc = "center"]
        \/ leaf' = [leaf EXCEPT !.pc = "assert"]
    BY DEF Receive
  <2>2. leaf.size \in Nat
    BY Counters
  <2>3. Head(wire).id = leaf.size => leaf.size < MaxSize
    <3>1. Head(wire).id \in 0..(MaxSize - 1) \/ Head(wire).id = -1
      BY <1>2 DEF Message, Junk
    <3> QED
      BY <2>2, <3>1, Constants
  <2>4. leaf \in [pc : {"struct", "center", "garbled", "assert"}, size : Places]
    BY DEF TypeOK
  <2> QED
    BY <2>1, <2>3, <2>4
<1> QED
  BY <1>1, <1>2, <1>3 DEF IdsInv

LEMMA OthersKeepIds ==
  ASSUME IdsInv, clusters' = clusters, wire' = wire, leaf' = leaf
  PROVE  IdsInv'
  BY DEF IdsInv

-----------------------------------------------------------------------------
\* The turns.  Each thread at work alone knows the size.
LEMMA BothAddOrOne ==
  ASSUME TurnsInv, ~ crossed
  PROVE  sampler.pc = "read" \/ detector.pc = "wait"
  BY DEF TurnsInv, BothAdd

LEMMA SamplerLoadsTurns ==
  ASSUME TypeOK, BoundInv, TurnsInv, Noted,
         TestGrowth \/ LoadWanted \/ GrowArray \/ LoadPlace \/ LoadCount
  PROVE  TurnsInv'
<1>1. /\ size' = size /\ clusters' = clusters /\ detector' = detector /\ started' = started
      /\ sampler'.line = sampler.line
      /\ sampler.pc \in {"test", "want", "realloc", "place", "count"}
      /\ sampler'.pc \in {"want", "realloc", "place", "count", "publish"}
      /\ sampler'.pc = "publish" => /\ sampler.pc = "count" /\ sampler'.n = size
                                    /\ sampler'.cl = sampler.cl
      /\ sampler'.pc = "count" => sampler.pc = "place" /\ sampler'.cl = size
  BY SamplerLoads
<1>2. Stored' = Stored
  BY <1>1 DEF Stored
<1>3. BothAdd' => crossed'
  BY DEF Noted
<1>4. ~ crossed' => ~ crossed
  BY DEF Noted
<1> QED
  BY <1>1, <1>2, <1>3, <1>4 DEF TurnsInv

LEMMA ReadLineTurns ==
  ASSUME TypeOK, BoundInv, TurnsInv, Noted, ReadLine
  PROVE  TurnsInv'
<1>1. /\ size' = size /\ clusters' = clusters /\ detector' = detector /\ started' = started
      /\ sampler.pc = "read"
      /\ \/ size <= sampler.line /\ sampler'.pc = "test" /\ sampler'.line = sampler.line
         \/ ~ (size <= sampler.line) /\ sampler'.pc = "read"
            /\ sampler'.line = sampler.line + 1
  BY ReadLineStep
<1>2. Stored' = Stored
  BY <1>1 DEF Stored
<1>3. (BothAdd' => crossed') /\ (~ crossed' => ~ crossed)
  BY DEF Noted
<1>4. size \in Nat /\ sampler.line \in Nat
  BY Counters
<1>5. ~ crossed' => /\ sampler'.line <= size
                    /\ sampler'.pc = "test" => sampler'.line = size
  <2>1. ~ crossed => sampler.line <= size
    BY DEF TurnsInv
  <2> QED
    BY <1>1, <1>3, <1>4, <2>1
<1>6. sampler'.pc \in {"read", "test"}
  BY <1>1
<1> QED
  BY <1>1, <1>2, <1>3, <1>5, <1>6 DEF TurnsInv

LEMMA PublishLineTurns ==
  ASSUME TypeOK, BoundInv, TurnsInv, Noted, PublishLine
  PROVE  TurnsInv'
<1>1. /\ size' = sampler.n + 1 /\ clusters' = clusters /\ detector' = detector
      /\ started' = started
      /\ sampler.pc = "publish" /\ sampler'.pc = "fill"
      /\ sampler'.line = sampler.line /\ sampler'.cl = sampler.cl
  BY PublishLineStep
<1>2. (BothAdd' => crossed') /\ (~ crossed' => ~ crossed)
  BY DEF Noted
<1>3. sampler.n \in Nat /\ size' > 0
  BY <1>1, Counters
<1>4. ASSUME ~ crossed'
      PROVE  /\ detector'.pc = "wait" /\ sampler'.line <= size'
             /\ sampler'.cl + 1 = size' /\ sampler'.line + 1 = size'
             /\ \A i \in Places : i < Stored' => clusters'[i] = i
  <2>1. ~ crossed
    BY <1>2, <1>4
  <2>2. detector.pc = "wait"
    BY <1>1, <2>1, BothAddOrOne
  <2>3. sampler.line = size /\ sampler.cl = size /\ sampler.n = size
    BY <1>1, <2>1 DEF TurnsInv
  <2>4. Stored = size /\ Stored' = size' - 1
    BY <1>1, <2>2 DEF Stored
  <2>5. Stored' = Stored
    BY <1>1, <1>3, <2>3, <2>4
  <2>6. \A i \in Places : i < Stored => clusters[i] = i
    BY <2>1 DEF TurnsInv
  <2> QED
    BY <1>1, <1>3, <2>2, <2>3, <2>5, <2>6
<1> QED
  BY <1>1, <1>2, <1>3, <1>4 DEF TurnsInv

LEMMA FillLineTurns ==
  ASSUME TypeOK, BoundInv, TurnsInv, Noted, FillLine
  PROVE  TurnsInv'
<1>1. /\ size' = size /\ clusters' = [clusters EXCEPT ![sampler.cl] = sampler.line]
      /\ detector' = detector /\ started' = started
      /\ sampler.pc = "fill" /\ sampler'.pc = "struct"
      /\ sampler'.line = sampler.line /\ sampler'.cl = sampler.cl
  BY FillLineStep
<1>2. (BothAdd' => crossed') /\ (~ crossed' => ~ crossed)
  BY DEF Noted
<1>3. ASSUME ~ crossed'
      PROVE  /\ detector'.pc = "wait" /\ sampler'.line <= size'
             /\ sampler'.cl + 1 = size' /\ sampler'.line + 1 = size'
             /\ \A i \in Places : i < Stored' => clusters'[i] = i
  <2>1. ~ crossed
    BY <1>2, <1>3
  <2>2. detector.pc = "wait"
    BY <1>1, <2>1, BothAddOrOne
  <2>3. /\ sampler.line + 1 = size /\ sampler.cl + 1 = size
        /\ sampler.line \in Nat /\ sampler.cl \in Nat /\ size \in Nat
    BY <1>1, <2>1, Counters DEF TurnsInv
  <2>4. Stored = size - 1 /\ Stored' = size /\ sampler.line = sampler.cl
    BY <1>1, <2>2, <2>3 DEF Stored
  <2>5. \A i \in Places : i < size - 1 => clusters[i] = i
    BY <2>1, <2>4 DEF TurnsInv
  <2>6. \A i \in Places : i < size => clusters'[i] = i
    <3>1. TAKE i \in Places
    <3>2. i \in Nat
      BY PlacesAreNumbers
    <3>3. i = sampler.cl => clusters'[i] = i
      BY <1>1, <2>4 DEF TypeOK
    <3>4. i # sampler.cl => clusters'[i] = clusters[i]
      BY <1>1 DEF TypeOK
    <3>5. i < size /\ i # sampler.cl => i < size - 1
      BY <2>3, <3>2
    <3> QED
      BY <2>5, <3>3, <3>4, <3>5
  <2> QED
    BY <1>1, <2>2, <2>3, <2>4, <2>6
<1> QED
  BY <1>1, <1>2, <1>3 DEF TurnsInv

LEMMA CastLineTurns ==
  ASSUME TypeOK, BoundInv, TurnsInv, Noted, CastLine
  PROVE  TurnsInv'
<1>1. /\ size' = size /\ clusters' = clusters /\ detector' = detector /\ started' = started
      /\ sampler.pc \in {"struct", "center"} /\ sampler'.cl = sampler.cl
      /\ \/ /\ sampler.pc = "struct" /\ sampler'.pc = "center"
            /\ sampler'.line = sampler.line
         \/ /\ sampler.pc = "center" /\ sampler'.pc = "read"
            /\ sampler'.line = sampler.line + 1
  BY CastLineStep
<1>2. (BothAdd' => crossed') /\ (~ crossed' => ~ crossed)
  BY DEF Noted
<1>3. Stored' = Stored
  BY <1>1 DEF Stored
<1>4. ASSUME ~ crossed'
      PROVE  /\ sampler'.line <= size'
             /\ sampler'.pc = "center" => sampler'.cl + 1 = size' /\ sampler'.line + 1 = size'
  <2>1. /\ sampler.line + 1 = size /\ sampler.cl + 1 = size
        /\ sampler.line \in Nat /\ size \in Nat
    BY <1>1, <1>2, <1>4, Counters DEF TurnsInv
  <2>2. sampler.line <= size /\ sampler.line + 1 <= size
    BY <2>1
  <2> QED
    BY <1>1, <2>1, <2>2
<1>5. sampler'.pc \in {"read", "center"}
  BY <1>1
<1> QED
  BY <1>1, <1>2, <1>3, <1>4, <1>5 DEF TurnsInv

LEMMA ReadExampleTurns ==
  ASSUME TypeOK, BoundInv, TurnsInv, Noted, ReadExample
  PROVE  TurnsInv'
<1>1. /\ size' = size /\ clusters' = clusters /\ detector' = detector /\ sampler' = sampler
      /\ started' = TRUE /\ size >= K
  BY DEF ReadExample, arrayVars
<1>2. (BothAdd' => crossed') /\ (~ crossed' => ~ crossed)
  BY DEF Noted
<1>3. size > 0
  BY <1>1, Counters, Constants
<1>4. Stored' = Stored
  BY <1>1 DEF Stored
<1> QED
  BY <1>1, <1>2, <1>3, <1>4 DEF TurnsInv

LEMMA DetectTurns ==
  ASSUME TypeOK, BoundInv, TurnsInv, Noted, Detect
  PROVE  TurnsInv'
<1>1. /\ size' = size /\ clusters' = clusters /\ sampler' = sampler /\ started' = started
      /\ started /\ detector.pc = "wait"
      /\ detector'.pc = "load" /\ detector'.prevSize = size
  BY DetectStep
<1>2. (BothAdd' => crossed') /\ (~ crossed' => ~ crossed)
  BY DEF Noted
<1>3. Stored' = Stored
  BY <1>1 DEF Stored
<1>4. size <= size
  BY Counters
<1> QED
  BY <1>1, <1>2, <1>3, <1>4 DEF TurnsInv

LEMMA DetectorLoadsTurns ==
  ASSUME TypeOK, BoundInv, TurnsInv, Noted, LoadNew \/ CountNew \/ WantNew
  PROVE  TurnsInv'
<1>1. /\ size' = size /\ clusters' = clusters /\ sampler' = sampler /\ started' = started
      /\ detector'.round = detector.round
      /\ detector'.prevSize = detector.prevSize
      /\ \/ /\ detector.pc = "load" /\ detector'.pc = "count" /\ detector'.id = size
         \/ /\ detector.pc = "load" /\ detector'.pc = "struct"
            /\ detector'.k = detector.prevSize
         \/ /\ detector.pc = "count" /\ detector'.pc = "publish"
            /\ detector'.id = detector.id /\ detector'.n = size
         \/ /\ detector.pc = "want" /\ detector'.pc = "realloc"
            /\ detector'.id = detector.id
  BY DetectorLoads
<1>2. (BothAdd' => crossed') /\ (~ crossed' => ~ crossed)
  BY DEF Noted
<1>3. Stored' = Stored
  BY <1>1 DEF Stored
<1> QED
  BY <1>1, <1>2, <1>3 DEF TurnsInv

LEMMA DetectorStoresTurns ==
  ASSUME TypeOK, BoundInv, TurnsInv, Noted, PublishNew \/ FitArray
  PROVE  TurnsInv'
<1>1. /\ clusters' = clusters /\ started' = started
      /\ sampler'.pc = sampler.pc /\ sampler'.line = sampler.line
      /\ sampler'.cl = sampler.cl /\ sampler'.n = sampler.n
      /\ detector'.round = detector.round
      /\ detector'.prevSize = detector.prevSize /\ detector'.id = detector.id
      /\ \/ /\ detector.pc = "publish" /\ detector'.pc = "want"
            /\ size' = detector.n + 1
         \/ /\ detector.pc = "realloc" /\ detector'.pc = "fill" /\ size' = size
  BY DetectorStores
<1>2. (BothAdd' => crossed') /\ (~ crossed' => ~ crossed)
  BY DEF Noted
<1>3. CASE detector.pc = "realloc"
  <2>1. Stored' = Stored
    BY <1>1, <1>3 DEF Stored
  <2> QED
    BY <1>1, <1>2, <1>3, <2>1 DEF TurnsInv
<1>4. CASE detector.pc = "publish"
  <2>1. size' = detector.n + 1 /\ detector'.pc = "want" /\ detector.n \in Nat /\ size \in Nat
    BY <1>1, <1>4, Counters
  <2>2. size' > 0
    BY <2>1
  <2>3. ASSUME ~ crossed'
        PROVE  /\ sampler'.pc = "read" /\ sampler'.line <= size'
               /\ detector'.prevSize <= size' /\ detector'.id + 1 = size'
               /\ \A i \in Places : i < Stored' => clusters'[i] = i
    <3>1. ~ crossed /\ sampler.pc = "read"
      BY <1>2, <1>4, <2>3, BothAddOrOne
    <3>2. /\ detector.n = size /\ detector.id = size /\ detector.prevSize <= size
          /\ sampler.line <= size /\ detector.prevSize \in Nat /\ sampler.line \in Nat
      BY <1>4, <3>1, Counters DEF TurnsInv
    <3>3. Stored = size /\ Stored' = size' - 1
      BY <1>1, <1>4, <2>1, <3>1 DEF Stored
    <3>4. Stored' = Stored
      BY <2>1, <3>2, <3>3
    <3>5. \A i \in Places : i < Stored => clusters[i] = i
      BY <3>1 DEF TurnsInv
    <3>6. sampler.line <= size + 1 /\ detector.prevSize <= size + 1
      BY <2>1, <3>2
    <3> QED
      BY <1>1, <2>1, <3>1, <3>2, <3>4, <3>5, <3>6
  <2> QED
    BY <1>1, <1>2, <2>1, <2>2, <2>3 DEF TurnsInv
<1> QED
  BY <1>1, <1>3, <1>4

LEMMA FillNewTurns ==
  ASSUME TypeOK, BoundInv, TurnsInv, Noted, FillNew
  PROVE  TurnsInv'
<1>1. /\ size' = size /\ clusters' = [clusters EXCEPT ![size - 1] = detector.id]
      /\ sampler' = sampler /\ started' = started
      /\ detector.pc = "fill" /\ detector'.pc = "load"
      /\ detector'.round = detector.round /\ detector'.prevSize = detector.prevSize
  BY FillNewStep
<1>2. (BothAdd' => crossed') /\ (~ crossed' => ~ crossed)
  BY DEF Noted
<1>3. ASSUME ~ crossed'
      PROVE  \A i \in Places : i < Stored' => clusters'[i] = i
  <2>1. ~ crossed /\ sampler.pc = "read"
    BY <1>1, <1>2, <1>3, BothAddOrOne
  <2>2. detector.id + 1 = size /\ size \in Nat /\ detector.id \in Nat
    BY <1>1, <2>1, Counters DEF TurnsInv
  <2>3. Stored = size - 1 /\ Stored' = size
    BY <1>1, <2>1 DEF Stored
  <2>4. \A i \in Places : i < size - 1 => clusters[i] = i
    BY <2>1, <2>3 DEF TurnsInv
  <2>5. \A i \in Places : i < size => clusters'[i] = i
    <3>1. TAKE i \in Places
    <3>2. i \in Nat /\ size - 1 = detector.id
      BY <2>2, PlacesAreNumbers
    <3>3. i = size - 1 => clusters'[i] = i
      BY <1>1, <3>2 DEF TypeOK
    <3>4. i # size - 1 => clusters'[i] = clusters[i]
      BY <1>1 DEF TypeOK
    <3>5. i < size /\ i # size - 1 => i < size - 1
      BY <2>2, <3>2
    <3> QED
      BY <2>4, <3>3, <3>4, <3>5
  <2> QED
    BY <2>3, <2>5
<1> QED
  BY <1>1, <1>2, <1>3 DEF TurnsInv

LEMMA CastNewTurns ==
  ASSUME TypeOK, BoundInv, TurnsInv, Noted, CastNew
  PROVE  TurnsInv'
<1>1. /\ size' = size /\ clusters' = clusters /\ sampler' = sampler /\ started' = started
      /\ detector.pc \in {"struct", "center"} /\ detector'.round = detector.round
      /\ detector'.prevSize = detector.prevSize
      /\ \/ detector'.pc = "wait"
         \/ /\ detector.pc = "struct" /\ ~ (detector.k >= size)
            /\ detector'.pc = "center" /\ detector'.k = detector.k
         \/ /\ detector.pc = "center" /\ detector'.pc = "struct"
            /\ detector'.k = detector.k + 1
  BY CastNewStep
<1>2. (BothAdd' => crossed') /\ (~ crossed' => ~ crossed)
  BY DEF Noted
<1>3. Stored' = Stored
  BY <1>1 DEF Stored
<1>4. size \in Nat /\ detector.k \in Nat
  BY Counters
<1>5. ~ crossed' => /\ detector'.pc = "struct" => detector'.k <= size
                    /\ detector'.pc = "center" => detector'.k < size
  <2>1. ~ crossed => (detector.pc = "center" => detector.k < size)
    BY DEF TurnsInv
  <2> QED
    BY <1>1, <1>2, <1>4, <2>1
<1>6. detector'.pc \in {"wait", "struct", "center"}
  BY <1>1
<1> QED
  BY <1>1, <1>2, <1>3, <1>5, <1>6 DEF TurnsInv

LEMMA ReceiveTurns ==
  ASSUME TypeOK, BoundInv, TurnsInv, Noted, Receive
  PROVE  TurnsInv'
<1>1. /\ size' = size /\ clusters' = clusters /\ sampler' = sampler /\ started' = started
      /\ detector' = detector
  BY DEF Receive, arrayVars
<1>2. (BothAdd' => crossed') /\ (~ crossed' => ~ crossed)
  BY DEF Noted
<1>3. Stored' = Stored
  BY <1>1 DEF Stored
<1> QED
  BY <1>1, <1>2, <1>3 DEF TurnsInv

-----------------------------------------------------------------------------
\* The line to a leaf.  One more broadcast is sent.
LEMMA LineSends ==
  ASSUME NEW q \in Seq(Message), NEW s \in Nat, NEW h \in Nat, NEW e \in Message,
         Line(q, s, h),
         \A n \in Nat : s = 2 * n => e = Cast("struct", n),
         \A n \in Nat : s = 2 * n + 1 => e = Cast("center", n)
  PROVE  Line(Append(q, e), s + 1, h)
<1>1. Len(q) = s - h /\ Len(q) \in Nat /\ h <= s
  BY DEF Line
<1>2. /\ Len(Append(q, e)) = s + 1 - h
      /\ \A i \in 1..Len(q) : Append(q, e)[i] = q[i]
      /\ Append(q, e)[Len(q) + 1] = e
  BY <1>1
<1> DEFINE r == Append(q, e)
<1> HIDE DEF r
<1>3. ASSUME NEW n \in Nat, h <= 2 * n, 2 * n < s + 1
      PROVE  r[2 * n + 1 - h] = Cast("struct", n)
  <2>1. CASE 2 * n < s
    <3>1. 2 * n + 1 - h \in 1..Len(q)
      BY <1>1, <1>3, <2>1
    <3>2. r[2 * n + 1 - h] = q[2 * n + 1 - h]
      BY <1>2, <3>1 DEF r
    <3> QED
      BY <1>3, <2>1, <3>2 DEF Line
  <2>2. CASE 2 * n = s
    <3>1. 2 * n + 1 - h = Len(q) + 1
      BY <1>1, <2>2
    <3> QED
      BY <1>2, <2>2, <3>1 DEF r
  <2> QED
    BY <1>3, <2>1, <2>2
<1>4. ASSUME NEW n \in Nat, h <= 2 * n + 1, 2 * n + 1 < s + 1
      PROVE  r[2 * n + 2 - h] = Cast("center", n)
  <2>1. CASE 2 * n + 1 < s
    <3>1. 2 * n + 2 - h \in 1..Len(q)
      BY <1>1, <1>4, <2>1
    <3>2. r[2 * n + 2 - h] = q[2 * n + 2 - h]
      BY <1>2, <3>1 DEF r
    <3> QED
      BY <1>4, <2>1, <3>2 DEF Line
  <2>2. CASE 2 * n + 1 = s
    <3>1. 2 * n + 2 - h = Len(q) + 1
      BY <1>1, <2>2
    <3> QED
      BY <1>2, <2>2, <3>1 DEF r
  <2> QED
    BY <1>4, <2>1, <2>2
<1>5. Len(r) = s + 1 - h
  BY <1>2 DEF r
<1>6. Line(r, s + 1, h)
  BY <1>3, <1>4, <1>5 DEF Line
<1> QED
  BY <1>6 DEF r

\* One more broadcast is taken.
LEMMA LineHears ==
  ASSUME NEW q \in Seq(Message), NEW s \in Nat, NEW h \in Nat, Line(q, s, h), q # <<>>
  PROVE  /\ h < s
         /\ Line(Tail(q), s, h + 1)
         /\ \A n \in Nat : h = 2 * n => Head(q) = Cast("struct", n)
         /\ \A n \in Nat : h = 2 * n + 1 => Head(q) = Cast("center", n)
<1>1. Len(q) = s - h /\ Len(q) \in Nat /\ Len(q) > 0
  BY DEF Line
<1>2. /\ Len(Tail(q)) = s - (h + 1)
      /\ \A i \in 1..(Len(q) - 1) : Tail(q)[i] = q[i + 1]
      /\ Head(q) = q[1]
  BY <1>1
<1> DEFINE r == Tail(q)
<1> HIDE DEF r
<1>3. ASSUME NEW n \in Nat, h + 1 <= 2 * n, 2 * n < s
      PROVE  r[2 * n + 1 - (h + 1)] = Cast("struct", n)
  <2>1. /\ 2 * n + 1 - (h + 1) \in 1..(Len(q) - 1)
        /\ 2 * n + 1 - (h + 1) + 1 = 2 * n + 1 - h
    BY <1>1, <1>3
  <2>2. r[2 * n + 1 - (h + 1)] = q[2 * n + 1 - h]
    BY <1>2, <2>1 DEF r
  <2>3. q[2 * n + 1 - h] = Cast("struct", n)
    BY <1>3 DEF Line
  <2> QED
    BY <2>2, <2>3
<1>4. ASSUME NEW n \in Nat, h + 1 <= 2 * n + 1, 2 * n + 1 < s
      PROVE  r[2 * n + 2 - (h + 1)] = Cast("center", n)
  <2>1. /\ 2 * n + 2 - (h + 1) \in 1..(Len(q) - 1)
        /\ 2 * n + 2 - (h + 1) + 1 = 2 * n + 2 - h
    BY <1>1, <1>4
  <2>2. r[2 * n + 2 - (h + 1)] = q[2 * n + 2 - h]
    BY <1>2, <2>1 DEF r
  <2>3. q[2 * n + 2 - h] = Cast("center", n)
    BY <1>4 DEF Line
  <2> QED
    BY <2>2, <2>3
<1>5. ASSUME NEW n \in Nat, h = 2 * n
      PROVE  Head(q) = Cast("struct", n)
  <2>1. 2 * n + 1 - h = 1 /\ 2 * n < s
    BY <1>1, <1>5
  <2>2. q[2 * n + 1 - h] = Cast("struct", n)
    BY <1>5, <2>1 DEF Line
  <2> QED
    BY <1>2, <2>1, <2>2
<1>6. ASSUME NEW n \in Nat, h = 2 * n + 1
      PROVE  Head(q) = Cast("center", n)
  <2>1. 2 * n + 2 - h = 1 /\ 2 * n + 1 < s
    BY <1>1, <1>6
  <2>2. q[2 * n + 2 - h] = Cast("center", n)
    BY <1>6, <2>1 DEF Line
  <2> QED
    BY <1>2, <2>1, <2>2
<1>7. Line(r, s, h + 1)
  BY <1>2, <1>3, <1>4 DEF Line, r
<1> QED
  BY <1>1, <1>5, <1>6, <1>7 DEF r

\* How many broadcasts are out at each place of the two threads.
LEMMA SentFacts ==
  ASSUME TypeOK, BoundInv, TurnsInv, ~ crossed
  PROVE  /\ Sent \in Nat /\ size \in Nat
         /\ sampler.pc # "read" => detector.pc = "wait"
         /\ sampler.pc \in {"fill", "struct"} => Sent = 2 * size - 2 /\ sampler.cl + 1 = size
         /\ sampler.pc = "center" => Sent = 2 * size - 1 /\ sampler.cl + 1 = size
         /\ sampler.pc \notin {"fill", "struct", "center"} =>
              /\ detector.pc = "wait" => Sent = 2 * size
              /\ detector.pc = "struct" => Sent = 2 * detector.k
              /\ detector.pc = "center" => Sent = 2 * detector.k + 1
              /\ detector.pc \notin {"wait", "struct", "center"} => Sent = 2 * detector.prevSize
<1>1. /\ size \in Nat /\ sampler.cl \in Nat /\ detector.prevSize \in Nat /\ detector.k \in Nat
  BY Counters
<1>2. sampler.pc # "read" => detector.pc = "wait"
  BY BothAddOrOne
<1>3. sampler.pc \in {"fill", "struct", "center"} => sampler.cl + 1 = size
  BY DEF TurnsInv
<1>4. /\ sampler.pc \in {"fill", "struct"} => Sent = 2 * size - 2
      /\ sampler.pc = "center" => Sent = 2 * size - 1
      /\ sampler.pc \notin {"fill", "struct", "center"} =>
           /\ detector.pc = "wait" => Sent = 2 * size
           /\ detector.pc = "struct" => Sent = 2 * detector.k
           /\ detector.pc = "center" => Sent = 2 * detector.k + 1
           /\ detector.pc \notin {"wait", "struct", "center"} => Sent = 2 * detector.prevSize
  BY DEF Sent
<1>5. Sent \in Nat
  <2>1. CASE sampler.pc \in {"fill", "struct", "center"}
    BY <1>1, <1>3, <1>4, <2>1
  <2>2. CASE sampler.pc \notin {"fill", "struct", "center"}
    BY <1>1, <1>4, <2>2
  <2> QED
    BY <2>1, <2>2
<1> QED
  BY <1>1, <1>2, <1>3, <1>4, <1>5

LEMMA HeardFacts ==
  ASSUME TypeOK, WireInv, Apart
  PROVE  /\ Heard \in Nat /\ leaf.size \in Nat /\ leaf.pc \in {"struct", "center"}
         /\ leaf.pc = "struct" => Heard = 2 * leaf.size
         /\ leaf.pc = "center" => Heard = 2 * leaf.size + 1
         /\ Line(wire, Sent, Heard)
<1>1. leaf.size \in Nat
  BY Counters
<1>2. leaf.pc \in {"struct", "center"} /\ Line(wire, Sent, Heard)
  BY DEF WireInv
<1>3. /\ leaf.pc = "struct" => Heard = 2 * leaf.size
      /\ leaf.pc = "center" => Heard = 2 * leaf.size + 1
  BY DEF Heard
<1> QED
  BY <1>1, <1>2, <1>3

\* What neither sends nor takes a broadcast leaves the count as it is.
LEMMA ApartBefore ==
  ASSUME Noted, Apart', overrun => overrun'
  PROVE  Apart /\ ~ crossed
  BY DEF Noted, Apart

LEMMA SamplerKeepsSent ==
  ASSUME TypeOK, BoundInv, TurnsInv, ~ crossed,
         TestGrowth \/ LoadWanted \/ GrowArray \/ LoadPlace \/ LoadCount
           \/ ReadLine \/ PublishLine \/ FillLine
  PROVE  Sent' = Sent
<1>1. /\ size \in Nat
      /\ sampler.pc # "read" => detector.pc = "wait"
      /\ sampler.pc \in {"fill", "struct"} => Sent = 2 * size - 2
      /\ sampler.pc \notin {"fill", "struct", "center"} =>
           (detector.pc = "wait" => Sent = 2 * size)
  BY SentFacts
<1>2. CASE TestGrowth \/ LoadWanted \/ GrowArray \/ LoadPlace \/ LoadCount
  <2>1. /\ size' = size /\ detector' = detector
        /\ sampler.pc \in {"test", "want", "realloc", "place", "count"}
        /\ sampler'.pc \in {"want", "realloc", "place", "count", "publish"}
    BY <1>2, SamplerLoads
  <2> QED
    BY <2>1 DEF Sent
<1>3. CASE ReadLine
  <2>1. size' = size /\ detector' = detector /\ sampler.pc = "read"
        /\ sampler'.pc \in {"read", "test"}
    BY <1>3, ReadLineStep
  <2> QED
    BY <2>1 DEF Sent
<1>4. CASE PublishLine
  <2>1. /\ sampler.pc = "publish" /\ sampler'.pc = "fill" /\ size' = sampler.n + 1
        /\ detector.pc = "wait" /\ sampler.n = size
    BY <1>1, <1>4, PublishLineStep DEF TurnsInv
  <2>2. Sent = 2 * size /\ Sent' = 2 * size' - 2
    BY <1>1, <2>1 DEF Sent
  <2> QED
    BY <1>1, <2>1, <2>2
<1>5. CASE FillLine
  <2>1. sampler.pc = "fill" /\ sampler'.pc = "struct" /\ size' = size
    BY <1>5, FillLineStep
  <2> QED
    BY <2>1 DEF Sent
<1> QED
  BY <1>2, <1>3, <1>4, <1>5

LEMMA DetectorKeepsSent ==
  ASSUME TypeOK, BoundInv, TurnsInv, ~ crossed, ~ BothAdd',
         Detect \/ LoadNew \/ CountNew \/ WantNew \/ PublishNew \/ FitArray \/ FillNew
  PROVE  Sent' = Sent
<1>1. CASE Detect
  <2>1. /\ size' = size /\ sampler' = sampler /\ detector.pc = "wait"
        /\ detector'.pc = "load" /\ detector'.prevSize = size
    BY <1>1, DetectStep
  <2>2. sampler.pc = "read"
    BY <2>1 DEF BothAdd
  <2> QED
    BY <2>1, <2>2 DEF Sent
<1>2. CASE LoadNew \/ CountNew \/ WantNew
  <2>1. /\ sampler' = sampler /\ detector'.prevSize = detector.prevSize
        /\ detector.pc \in {"load", "count", "want"}
        /\ \/ detector'.pc \in {"count", "publish", "realloc"}
           \/ detector'.pc = "struct" /\ detector'.k = detector.prevSize
    BY <1>2, DetectorLoads
  <2>2. sampler.pc = "read"
    BY <2>1, BothAddOrOne
  <2> QED
    BY <2>1, <2>2 DEF Sent
<1>3. CASE PublishNew \/ FitArray
  <2>1. /\ sampler'.pc = sampler.pc /\ detector'.prevSize = detector.prevSize
        /\ detector.pc \in {"publish", "realloc"} /\ detector'.pc \in {"want", "fill"}
    BY <1>3, DetectorStores
  <2>2. sampler.pc = "read"
    BY <2>1, BothAddOrOne
  <2> QED
    BY <2>1, <2>2 DEF Sent
<1>4. CASE FillNew
  <2>1. /\ sampler' = sampler /\ detector'.prevSize = detector.prevSize
        /\ detector.pc = "fill" /\ detector'.pc = "load"
    BY <1>4, FillNewStep
  <2>2. sampler.pc = "read"
    BY <2>1, BothAddOrOne
  <2> QED
    BY <2>1, <2>2 DEF Sent
<1> QED
  BY <1>1, <1>2, <1>3, <1>4

LEMMA QuietKeepsWire ==
  ASSUME TypeOK, BoundInv, TurnsInv, WireInv, Noted,
         \/ TestGrowth \/ LoadWanted \/ GrowArray \/ LoadPlace \/ LoadCount
         \/ ReadLine \/ PublishLine \/ FillLine \/ ReadExample
         \/ Detect \/ LoadNew \/ CountNew \/ WantNew \/ PublishNew \/ FitArray \/ FillNew
  PROVE  WireInv'
<1>1. wire' = wire /\ leaf' = leaf /\ (overrun => overrun')
  <2>1. CASE FillLine
    <3>1. wire' = wire /\ leaf' = leaf
      BY <2>1 DEF FillLine
    <3>2. overrun => overrun'
      BY <2>1, Zenon DEF FillLine
    <3> QED
      BY <3>1, <3>2
  <2>2. CASE FillNew
    <3>1. wire' = wire /\ leaf' = leaf
      BY <2>2 DEF FillNew
    <3>2. overrun => overrun'
      BY <2>2, Zenon DEF FillNew
    <3> QED
      BY <3>1, <3>2
  <2>3. CASE ReadExample
    BY <2>3 DEF ReadExample, arrayVars
  <2>4. CASE TestGrowth \/ LoadWanted \/ GrowArray \/ LoadPlace \/ LoadCount
    BY <2>4, SamplerLoads
  <2>5. CASE ReadLine \/ PublishLine
    BY <2>5, ReadLineStep, PublishLineStep
  <2>6. CASE Detect \/ LoadNew \/ CountNew \/ WantNew
    BY <2>6, DetectStep, DetectorLoads
  <2>7. CASE PublishNew
    BY <2>7 DEF PublishNew
  <2>8. CASE FitArray
    BY <2>8 DEF FitArray
  <2> QED
    BY <2>1, <2>2, <2>3, <2>4, <2>5, <2>6, <2>7, <2>8
<1>2. Heard' = Heard
  BY <1>1 DEF Heard
<1>3. ASSUME Apart'
      PROVE  leaf'.pc \in {"struct", "center"} /\ Line(wire', Sent', Heard')
  <2>1. Apart /\ ~ crossed
    BY <1>1, <1>3, ApartBefore
  <2>2. ~ BothAdd'
    BY <1>3 DEF Noted, Apart
  <2>3. Sent' = Sent
    <3>1. CASE ReadExample
      BY <3>1 DEF ReadExample, arrayVars, Sent
    <3>2. CASE ~ ReadExample
      BY <2>1, <2>2, <3>2, SamplerKeepsSent, DetectorKeepsSent
    <3> QED
      BY <3>1, <3>2
  <2>4. leaf.pc \in {"struct", "center"} /\ Line(wire, Sent, Heard)
    BY <2>1 DEF WireInv
  <2> QED
    BY <1>1, <1>2, <2>3, <2>4
<1> QED
  BY <1>3 DEF WireInv

\* Apart, a broadcast finds what is at its place.
LEMMA FoundApart ==
  ASSUME Apart, NEW i, NEW id \in Found(i)
  PROVE  id = clusters[i]
  BY DEF Apart, Found

\* The threads send the broadcast whose turn it is.
LEMMA TurnIsNext ==
  ASSUME NEW what \in {"struct", "center"}, NEW i \in Nat, NEW s \in Nat, i < MaxSize,
         what = "struct" => s = 2 * i, what = "center" => s = 2 * i + 1
  PROVE  /\ Cast(what, i) \in Message
         /\ \A n \in Nat : s = 2 * n => Cast(what, i) = Cast("struct", n)
         /\ \A n \in Nat : s = 2 * n + 1 => Cast(what, i) = Cast("center", n)
<1>1. i \in 0..(MaxSize - 1)
  BY Constants
<1>2. Cast(what, i) \in Message
  BY <1>1 DEF Cast, Message
<1>3. CASE what = "struct"
  <2>1. \A n \in Nat : s = 2 * n => n = i
    BY <1>3
  <2>2. \A n \in Nat : s # 2 * n + 1
    BY <1>3
  <2> QED
    BY <1>2, <1>3, <2>1, <2>2
<1>4. CASE what = "center"
  <2>1. \A n \in Nat : s = 2 * n + 1 => n = i
    BY <1>4
  <2>2. \A n \in Nat : s # 2 * n
    BY <1>4
  <2> QED
    BY <1>2, <1>4, <2>1, <2>2
<1> QED
  BY <1>3, <1>4

LEMMA CastLineWire ==
  ASSUME TypeOK, BoundInv, IdsInv, TurnsInv, WireInv, Noted, CastLine
  PROVE  WireInv'
<1>1. /\ size' = size /\ detector' = detector /\ leaf' = leaf /\ overrun' = overrun
      /\ sampler.pc \in {"struct", "center"}
      /\ \E id \in Found(sampler.cl) : wire' = Append(wire, Cast(sampler.pc, id))
      /\ \/ sampler.pc = "struct" /\ sampler'.pc = "center"
         \/ sampler.pc = "center" /\ sampler'.pc = "read"
  BY CastLineStep
<1>2. Heard' = Heard
  BY <1>1 DEF Heard
<1>3. ASSUME Apart'
      PROVE  leaf'.pc \in {"struct", "center"} /\ Line(wire', Sent', Heard')
  <2>1. Apart /\ ~ crossed
    BY <1>1, <1>3, ApartBefore
  <2>2. Heard \in Nat /\ leaf.pc \in {"struct", "center"} /\ Line(wire, Sent, Heard)
    BY <2>1, HeardFacts
  <2>3. /\ Sent \in Nat /\ size \in Nat /\ detector.pc = "wait"
        /\ sampler.cl + 1 = size
        /\ sampler.pc = "struct" => Sent = 2 * size - 2
        /\ sampler.pc = "center" => Sent = 2 * size - 1
    BY <1>1, <2>1, SentFacts
  <2>4. /\ sampler.cl \in Nat /\ sampler.cl \in Places /\ sampler.cl < size
        /\ size <= MaxSize /\ sampler.cl < MaxSize
    BY <2>3, Counters, Constants
  <2>5. clusters[sampler.cl] = sampler.cl
    <3>1. Stored = size
      BY <1>1, <2>3 DEF Stored
    <3> QED
      BY <2>1, <2>4, <3>1 DEF TurnsInv
  <2>6. wire' = Append(wire, Cast(sampler.pc, sampler.cl))
    BY <1>1, <2>1, <2>5, FoundApart
  <2>7. Sent' = Sent + 1
    <3>1. CASE sampler.pc = "struct"
      <4>1. Sent' = 2 * size - 1
        BY <1>1, <3>1 DEF Sent
      <4> QED
        BY <2>3, <3>1, <4>1
    <3>2. CASE sampler.pc = "center"
      <4>1. Sent' = 2 * size
        BY <1>1, <2>3, <3>2 DEF Sent
      <4> QED
        BY <2>3, <3>2, <4>1
    <3> QED
      BY <1>1, <3>1, <3>2
  <2> DEFINE e == Cast(sampler.pc, sampler.cl)
  <2>8. /\ sampler.pc = "struct" => Sent = 2 * sampler.cl
        /\ sampler.pc = "center" => Sent = 2 * sampler.cl + 1
    BY <2>3, <2>4
  <2>9. /\ e \in Message
        /\ \A n \in Nat : Sent = 2 * n => e = Cast("struct", n)
        /\ \A n \in Nat : Sent = 2 * n + 1 => e = Cast("center", n)
    BY <1>1, <2>3, <2>4, <2>8, TurnIsNext
  <2> HIDE DEF e
  <2>10. Line(Append(wire, e), Sent + 1, Heard)
    BY <2>2, <2>3, <2>9, LineSends DEF IdsInv
  <2> QED
    BY <1>1, <1>2, <2>2, <2>6, <2>7, <2>10 DEF e
<1> QED
  BY <1>1, <1>3 DEF WireInv

LEMMA CastNewWire ==
  ASSUME TypeOK, BoundInv, IdsInv, TurnsInv, WireInv, Noted, CastNew
  PROVE  WireInv'
<1>1. /\ size' = size /\ sampler' = sampler /\ leaf' = leaf /\ overrun' = overrun
      /\ detector.pc \in {"struct", "center"}
      /\ \/ /\ detector.pc = "struct" /\ detector.k >= size
            /\ detector'.pc = "wait" /\ wire' = wire
         \/ /\ \/ /\ detector.pc = "struct" /\ ~ (detector.k >= size)
                  /\ detector'.pc = "center" /\ detector'.k = detector.k
               \/ /\ detector.pc = "center" /\ detector'.pc = "struct"
                  /\ detector'.k = detector.k + 1
            /\ \E id \in Found(detector.k) : wire' = Append(wire, Cast(detector.pc, id))
  BY CastNewStep
<1>2. Heard' = Heard
  BY <1>1 DEF Heard
<1>3. ASSUME Apart'
      PROVE  leaf'.pc \in {"struct", "center"} /\ Line(wire', Sent', Heard')
  <2>1. Apart /\ ~ crossed
    BY <1>1, <1>3, ApartBefore
  <2>2. Heard \in Nat /\ leaf.pc \in {"struct", "center"} /\ Line(wire, Sent, Heard)
    BY <2>1, HeardFacts
  <2>3. sampler.pc = "read"
    BY <1>1, <2>1, BothAddOrOne
  <2>4. /\ Sent \in Nat /\ size \in Nat
        /\ detector.pc = "struct" => Sent = 2 * detector.k
        /\ detector.pc = "center" => Sent = 2 * detector.k + 1
    BY <1>1, <2>1, <2>3, SentFacts
  <2>5. /\ detector.k \in Nat /\ detector.k \in Places /\ size <= MaxSize
        /\ detector.pc = "struct" => detector.k <= size
        /\ detector.pc = "center" => detector.k < size
    BY <2>1, Counters DEF TurnsInv
  <2>6. CASE detector.pc = "struct" /\ detector.k >= size
    <3>1. detector'.pc = "wait" /\ wire' = wire
      BY <1>1, <2>6
    <3>2. Sent' = 2 * size
      BY <1>1, <2>3, <3>1 DEF Sent
    <3>3. Sent' = Sent
      BY <2>4, <2>5, <2>6, <3>2
    <3> QED
      BY <1>1, <1>2, <2>2, <3>1, <3>3
  <2>7. CASE ~ (detector.pc = "struct" /\ detector.k >= size)
    <3>1. /\ \/ /\ detector.pc = "struct"
                /\ detector'.pc = "center" /\ detector'.k = detector.k
             \/ /\ detector.pc = "center" /\ detector'.pc = "struct"
                /\ detector'.k = detector.k + 1
          /\ \E id \in Found(detector.k) : wire' = Append(wire, Cast(detector.pc, id))
      BY <1>1, <2>7
    <3>2. detector.k < size /\ detector.k < MaxSize
      <4>1. detector.k < size
        BY <1>1, <2>4, <2>5, <2>7
      <4> QED
        BY <2>4, <2>5, <4>1, Constants
    <3>3. clusters[detector.k] = detector.k
      <4>1. Stored = size
        BY <1>1, <2>3 DEF Stored
      <4> QED
        BY <2>1, <2>5, <3>2, <4>1 DEF TurnsInv
    <3>4. wire' = Append(wire, Cast(detector.pc, detector.k))
      BY <2>1, <3>1, <3>3, FoundApart
    <3>5. Sent' = Sent + 1
      <4>1. CASE detector.pc = "struct"
        <5>1. Sent' = 2 * detector.k + 1
          BY <1>1, <2>3, <3>1, <4>1 DEF Sent
        <5> QED
          BY <2>4, <4>1, <5>1
      <4>2. CASE detector.pc = "center"
        <5>1. Sent' = 2 * (detector.k + 1)
          BY <1>1, <2>3, <3>1, <4>2 DEF Sent
        <5>2. 2 * (detector.k + 1) = 2 * detector.k + 1 + 1
          BY <2>5
        <5>3. Sent = 2 * detector.k + 1
          BY <2>4, <4>2
        <5> QED
          BY <5>1, <5>2, <5>3
      <4> QED
        BY <1>1, <4>1, <4>2
    <3> DEFINE e == Cast(detector.pc, detector.k)
    <3>6. /\ e \in Message
          /\ \A n \in Nat : Sent = 2 * n => e = Cast("struct", n)
          /\ \A n \in Nat : Sent = 2 * n + 1 => e = Cast("center", n)
      BY <1>1, <2>4, <2>5, <3>2, TurnIsNext
    <3> HIDE DEF e
    <3>7. Line(Append(wire, e), Sent + 1, Heard)
      BY <2>2, <2>4, <3>6, LineSends DEF IdsInv
    <3> QED
      BY <1>1, <1>2, <2>2, <3>4, <3>5, <3>7 DEF e
  <2> QED
    BY <2>6, <2>7
<1> QED
  BY <1>1, <1>3 DEF WireInv

\* And a leaf takes it for what it is.
LEMMA ReceiveWire ==
  ASSUME TypeOK, BoundInv, IdsInv, TurnsInv, WireInv, Noted, Receive
  PROVE  WireInv'
<1>1. /\ size' = size /\ sampler' = sampler /\ detector' = detector /\ overrun' = overrun
      /\ wire # <<>> /\ wire' = Tail(wire)
      /\ leaf' = IF leaf.pc # Head(wire).what THEN [leaf EXCEPT !.pc = "garbled"]
                 ELSE IF leaf.pc = "center" THEN [pc |-> "struct", size |-> leaf.size + 1]
                 ELSE IF Head(wire).id = leaf.size THEN [leaf EXCEPT !.pc = "center"]
                 ELSE [leaf EXCEPT !.pc = "assert"]
  BY DEF Receive, arrayVars
<1>2. Sent' = Sent
  BY <1>1 DEF Sent
<1>3. ASSUME Apart'
      PROVE  leaf'.pc \in {"struct", "center"} /\ Line(wire', Sent', Heard')
  <2>1. Apart /\ ~ crossed
    BY <1>1, <1>3, ApartBefore
  <2>2. /\ Heard \in Nat /\ leaf.size \in Nat /\ leaf.pc \in {"struct", "center"}
        /\ leaf.pc = "struct" => Heard = 2 * leaf.size
        /\ leaf.pc = "center" => Heard = 2 * leaf.size + 1
        /\ Line(wire, Sent, Heard) /\ Sent \in Nat
    BY <2>1, HeardFacts, SentFacts
  <2>3. /\ Line(Tail(wire), Sent, Heard + 1)
        /\ \A n \in Nat : Heard = 2 * n => Head(wire) = Cast("struct", n)
        /\ \A n \in Nat : Heard = 2 * n + 1 => Head(wire) = Cast("center", n)
    BY <1>1, <2>2, LineHears DEF IdsInv
  <2>4. CASE leaf.pc = "struct"
    <3>1. Head(wire).what = "struct" /\ Head(wire).id = leaf.size
      BY <2>2, <2>3, <2>4 DEF Cast
    <3>2. leaf' = [leaf EXCEPT !.pc = "center"]
      BY <1>1, <2>4, <3>1
    <3>3. leaf'.pc = "center" /\ leaf'.size = leaf.size
      BY <3>2 DEF TypeOK
    <3>4. Heard' = Heard + 1
      BY <2>2, <2>4, <3>3 DEF Heard
    <3> QED
      BY <1>1, <1>2, <2>3, <3>3, <3>4
  <2>5. CASE leaf.pc = "center"
    <3>1. Head(wire).what = "center"
      BY <2>2, <2>3, <2>5 DEF Cast
    <3>2. leaf' = [pc |-> "struct", size |-> leaf.size + 1]
      BY <1>1, <2>5, <3>1
    <3>3. leaf'.pc = "struct" /\ leaf'.size = leaf.size + 1
      BY <3>2
    <3>4. Heard' = Heard + 1
      BY <2>2, <2>5, <3>3 DEF Heard
    <3> QED
      BY <1>1, <1>2, <2>3, <3>3, <3>4
  <2> QED
    BY <2>2, <2>4, <2>5
<1> QED
  BY <1>1, <1>3 DEF WireInv

-----------------------------------------------------------------------------
\* The room.  Before the first detection the array grows by K when it is full.
LEMMA AfterK ==
  ASSUME NEW n \in Nat, n % K = 0
  PROVE  (n + K) % K = 0
<1> DEFINE d == n \div K
<1>1. d \in Nat /\ n = K * d
  BY Constants
<1> HIDE DEF d
<1>2. n + K = K * (d + 1) /\ d + 1 \in Nat
  BY <1>1, Constants
<1>3. \A e \in Nat : (K * e) % K = 0
  BY Constants
<1> QED
  BY <1>2, <1>3

\* The room depends on the place, the capacity and on whether there was a detection.
LEMMA RoomStays ==
  ASSUME NEW n, Room(n), capacity' = capacity,
         detector.round > 0 => detector'.round > 0
  PROVE  n < capacity' \/ (detector'.round > 0 /\ n % K # 0)
  BY DEF Room

LEMMA ReadLineRoom ==
  ASSUME TypeOK, RoomInv, ReadLine
  PROVE  RoomInv'
<1>1. /\ size' = size /\ capacity' = capacity /\ detector' = detector
      /\ sampler'.pc \in {"read", "test"} /\ sampler'.hit = sampler.hit
  BY ReadLineStep
<1> QED
  BY <1>1 DEF RoomInv

LEMMA TestGrowthRoom ==
  ASSUME TypeOK, BoundInv, TurnsInv, RoomInv, TestGrowth
  PROVE  RoomInv'
<1>1. /\ size' = size /\ capacity' = capacity /\ detector' = detector
      /\ sampler' = [sampler EXCEPT !.pc = IF IsFull(size) THEN "want" ELSE "place",
                                    !.hit = FALSE]
  BY DEF TestGrowth, arrayVars
<1>2. /\ sampler'.pc = IF IsFull(size) THEN "want" ELSE "place"
      /\ sampler'.hit = FALSE
  BY <1>1, Counters DEF SamplerRec
<1>3. IsFull(size) => size % K = 0
  BY DEF IsFull
<1>4. ~ IsFull(size) => Room(size)
  <2> SUFFICES ASSUME ~ IsFull(size)
               PROVE  Room(size)
    OBVIOUS
  <2>1. ~ (size > 0) \/ size % K # 0
    BY DEF IsFull
  <2>2. CASE detector.round = 0
    <3>1. size <= capacity /\ capacity % K = 0 /\ capacity > 0
      BY <2>2 DEF RoomInv
    <3>2. size \in Nat /\ capacity \in Nat
      BY Counters
    <3>3. size # capacity
      BY <2>1, <3>1, <3>2
    <3>4. size < capacity
      BY <3>1, <3>2, <3>3
    <3> QED
      BY <3>4 DEF Room
  <2>3. CASE detector.round > 0
    <3>1. size > 0
      BY <2>3 DEF TurnsInv
    <3> QED
      BY <2>1, <2>3, <3>1 DEF Room
  <2>4. detector.round \in Nat
    BY Counters
  <2> QED
    BY <2>2, <2>3, <2>4
<1>5. sampler'.pc = "want" => IsFull(size)
  BY <1>2
<1>6. sampler'.pc = "place" => ~ IsFull(size)
  BY <1>2
<1>7. sampler'.pc \in {"want", "place"}
  BY <1>2
<1> QED
  BY <1>1, <1>2, <1>3, <1>4, <1>5, <1>6, <1>7 DEF RoomInv, Room

LEMMA LoadWantedRoom ==
  ASSUME TypeOK, RoomInv, LoadWanted
  PROVE  RoomInv'
<1>1. /\ size' = size /\ capacity' = capacity /\ detector' = detector /\ sampler.pc = "want"
      /\ sampler' = [sampler EXCEPT !.pc = "realloc", !.n = size]
  BY DEF LoadWanted, arrayVars
<1>2. sampler'.pc = "realloc" /\ sampler'.n = size /\ sampler'.hit = sampler.hit
  BY <1>1, Counters DEF SamplerRec
<1> QED
  BY <1>1, <1>2 DEF RoomInv

LEMMA GrowArrayRoom ==
  ASSUME TypeOK, BoundInv, RoomInv, GrowArray
  PROVE  RoomInv'
<1>1. /\ size' = size /\ detector' = detector /\ capacity' = sampler.n + K
      /\ sampler.pc = "realloc" /\ sampler' = [sampler EXCEPT !.pc = "place"]
  BY DEF GrowArray, Grown
<1>2. sampler'.pc = "place" /\ sampler'.hit = sampler.hit
  BY <1>1, Counters DEF SamplerRec
<1>3. ~ sampler.hit => sampler.n = size /\ size % K = 0
  BY <1>1 DEF RoomInv
<1>4. size \in Nat
  BY Counters
<1>5. ~ sampler.hit => /\ size < capacity' /\ size <= capacity' /\ capacity' % K = 0
                       /\ capacity' > 0
  <2>1. ASSUME size % K = 0
        PROVE  (size + K) % K = 0
    BY <1>4, <2>1, AfterK
  <2>2. size < size + K /\ size <= size + K /\ size + K > 0
    BY <1>4, Constants
  <2> QED
    BY <1>1, <1>3, <2>1, <2>2
<1> QED
  BY <1>1, <1>2, <1>5 DEF RoomInv, Room

LEMMA LoadsRoom ==
  ASSUME TypeOK, RoomInv, LoadPlace \/ LoadCount
  PROVE  RoomInv'
<1>1. size' = size /\ capacity' = capacity /\ detector' = detector
  BY DEF LoadPlace, LoadCount, arrayVars
<1>2. CASE LoadPlace
  <2>1. sampler.pc = "place" /\ sampler' = [sampler EXCEPT !.pc = "count", !.cl = size]
    BY <1>2 DEF LoadPlace
  <2>2. sampler'.pc = "count" /\ sampler'.cl = size /\ sampler'.hit = sampler.hit
    BY <2>1, Counters DEF SamplerRec
  <2> QED
    BY <1>1, <2>1, <2>2 DEF RoomInv, Room
<1>3. CASE LoadCount
  <2>1. sampler.pc = "count" /\ sampler' = [sampler EXCEPT !.pc = "publish", !.n = size]
    BY <1>3 DEF LoadCount
  <2>2. /\ sampler'.pc = "publish" /\ sampler'.n = size /\ sampler'.cl = sampler.cl
        /\ sampler'.hit = sampler.hit
    BY <2>1, Counters DEF SamplerRec
  <2> QED
    BY <1>1, <2>1, <2>2 DEF RoomInv, Room
<1> QED
  BY <1>2, <1>3

LEMMA PublishLineRoom ==
  ASSUME TypeOK, BoundInv, RoomInv, PublishLine
  PROVE  RoomInv'
<1>1. /\ size' = sampler.n + 1 /\ capacity' = capacity /\ detector' = detector
      /\ sampler.pc = "publish" /\ sampler'.pc = "fill"
      /\ sampler'.cl = sampler.cl /\ sampler'.hit = sampler.hit
  BY PublishLineStep
<1>2. ~ sampler.hit => Room(sampler.cl) /\ sampler.n = sampler.cl
  BY <1>1 DEF RoomInv
<1>3. detector.round = 0 => size' <= capacity
  <2> SUFFICES ASSUME detector.round = 0
               PROVE  size' <= capacity
    OBVIOUS
  <2>1. Room(sampler.n)
    BY <1>2 DEF RoomInv
  <2>2. sampler.n < capacity
    BY <2>1 DEF Room
  <2>3. sampler.n \in Nat /\ capacity \in Nat
    BY Counters
  <2> QED
    BY <1>1, <2>2, <2>3
<1> QED
  BY <1>1, <1>2, <1>3 DEF RoomInv, Room

LEMMA SamplerStoredRoom ==
  ASSUME TypeOK, BoundInv, RoomInv, FillLine \/ CastLine
  PROVE  RoomInv'
<1>1. size' = size /\ capacity' = capacity /\ detector' = detector
      /\ sampler'.pc \in {"struct", "center", "read"} /\ sampler'.hit = sampler.hit
  BY FillLineStep, CastLineStep
<1> QED
  BY <1>1 DEF RoomInv

LEMMA DetectorStoresRoom ==
  ASSUME TypeOK, BoundInv, RoomInv, PublishNew \/ FitArray
  PROVE  RoomInv'
<1>1. sampler'.hit = TRUE /\ detector'.round = detector.round
      /\ detector.pc \in {"publish", "realloc"}
  BY DetectorStores
<1>2. detector.round # 0
  BY <1>1 DEF BoundInv
<1> QED
  BY <1>1, <1>2 DEF RoomInv

LEMMA OthersRoom ==
  ASSUME TypeOK, BoundInv, RoomInv,
         \/ Detect \/ LoadNew \/ CountNew \/ WantNew \/ FillNew \/ CastNew
         \/ ReadExample \/ Receive
  PROVE  RoomInv'
<1>1. size' = size /\ capacity' = capacity /\ sampler' = sampler
  BY DetectStep, DetectorLoads, FillNewStep, CastNewStep
     DEF ReadExample, Receive, arrayVars
<1>2. detector'.round = detector.round \/ detector'.round = detector.round + 1
  BY DetectStep, DetectorLoads, FillNewStep, CastNewStep DEF ReadExample, Receive
<1>3. detector.round \in Nat
  BY Counters
<1>4. /\ detector'.round = 0 => detector.round = 0
      /\ detector.round > 0 => detector'.round > 0
  BY <1>2, <1>3
<1>5. \A n : Room(n) => (n < capacity' \/ (detector'.round > 0 /\ n % K # 0))
  BY <1>1, <1>4, RoomStays
<1> QED
  BY <1>1, <1>4, <1>5 DEF RoomInv, Room

-----------------------------------------------------------------------------
THEOREM InitInv == Init => IInv
<1> SUFFICES ASSUME Init
             PROVE  IInv
  OBVIOUS
<1> USE DEF Init
<1>1. 0 \in Places /\ K \in Nat /\ K > 0 /\ MaxSize \in Nat /\ MaxLines \in Nat
      /\ 0 \in 0..MaxLines /\ 0 \in 0..MaxRounds /\ 0 \in 0..K
  BY Constants DEF Places
<1>2. TypeOK
  <2>1. size \in Places /\ clusters \in [Places -> Places]
    BY <1>1
  <2>2. capacity \in 0..(MaxSize + K) /\ overrun \in BOOLEAN
    <3>1. \A k, m \in Nat : k \in 0..(m + k)
      OBVIOUS
    <3>2. K \in 0..(MaxSize + K)
      BY <1>1, <3>1
    <3> QED
      BY <3>2
  <2>3. sampler \in [pc : SamplerPcs, line : 0..MaxLines, cl : Places, n : Places,
                     hit : BOOLEAN]
    BY <1>1 DEF SamplerPcs
  <2>4. detector \in [pc : DetectorPcs, round : 0..MaxRounds, prevSize : Places, left : 0..K,
                      id : Places, n : Places, k : Places]
    BY <1>1 DEF DetectorPcs
  <2>5. /\ started \in BOOLEAN /\ crossed \in BOOLEAN
        /\ leaf \in [pc : {"struct", "center", "garbled", "assert"}, size : Places]
    BY <1>1
  <2>6. wire \in Seq([what : {"struct", "center"}, id : Ids])
    BY <1>1
  <2> QED
    BY <2>1, <2>2, <2>3, <2>4, <2>5, <2>6 DEF TypeOK
<1>3. BoundInv
  <2>1. Most(0) \in Nat /\ Most(0) >= MaxLines
    BY <1>1, MostGrows
  <2>2. LinesToCome = MaxLines /\ NewToCome = 0
    BY <1>1 DEF LinesToCome, NewToCome
  <2>3. Fits(size)
    BY <1>1, <2>1, <2>2 DEF Fits
  <2> QED
    BY <1>1, <2>3 DEF BoundInv
<1>4. IdsInv
  BY <1>1 DEF IdsInv
<1>5. TurnsInv
  <2>1. Stored = 0
    BY DEF Stored
  <2>2. \A i \in Places : ~ (i < 0)
    BY PlacesAreNumbers
  <2> QED
    BY <2>1, <2>2 DEF TurnsInv, BothAdd
<1>6. WireInv
  BY DEF WireInv, Line, Sent, Heard
<1>7. RoomInv
  <2>1. K % K = 0
    BY AfterK, <1>1
  <2> QED
    BY <1>1, <2>1 DEF RoomInv
<1> QED
  BY <1>2, <1>3, <1>4, <1>5, <1>6, <1>7 DEF IInv

THEOREM NextInv == IInv /\ [Next]_vars => IInv'
<1> SUFFICES ASSUME IInv, [Next]_vars
             PROVE  IInv'
  OBVIOUS
<1>1. TypeOK /\ BoundInv /\ IdsInv /\ TurnsInv /\ WireInv /\ RoomInv
  BY DEF IInv
<1>2. CASE UNCHANGED vars
  <2>1. /\ size' = size /\ clusters' = clusters /\ capacity' = capacity /\ overrun' = overrun
        /\ sampler' = sampler /\ detector' = detector /\ started' = started
        /\ crossed' = crossed /\ wire' = wire /\ leaf' = leaf
    BY <1>2 DEF vars, arrayVars
  <2>2. TypeOK' /\ BoundInv' /\ IdsInv'
    BY <1>1, <2>1 DEF TypeOK, BoundInv, IdsInv, Fits, LinesToCome, NewToCome
  <2>3. TurnsInv' /\ RoomInv'
    BY <1>1, <2>1 DEF TurnsInv, RoomInv, Room, Stored, BothAdd
  <2>4. WireInv'
    BY <1>1, <2>1 DEF WireInv, Apart, Sent, Heard, Line
  <2> QED
    BY <2>2, <2>3, <2>4 DEF IInv
<1>3. ASSUME Noted, TestGrowth \/ LoadWanted \/ GrowArray \/ LoadPlace \/ LoadCount
      PROVE  IInv'
  <2>1. TypeOK' /\ BoundInv' /\ TurnsInv' /\ WireInv'
    BY <1>1, <1>3, SamplerLoadsBound, SamplerLoadsTurns, QuietKeepsWire
  <2>2. RoomInv'
    BY <1>1, <1>3, TestGrowthRoom, LoadWantedRoom, GrowArrayRoom, LoadsRoom
  <2> QED
    BY <1>1, <1>3, <2>1, <2>2, SamplerLoads, OthersKeepIds DEF IInv
<1>4. ASSUME Noted, ReadLine
      PROVE  IInv'
  <2>1. TypeOK' /\ BoundInv' /\ TurnsInv' /\ WireInv' /\ RoomInv'
    BY <1>1, <1>4, ReadLineBound, ReadLineTurns, QuietKeepsWire, ReadLineRoom
  <2> QED
    BY <1>1, <1>4, <2>1, ReadLineStep, OthersKeepIds DEF IInv
<1>5. ASSUME Noted, PublishLine
      PROVE  IInv'
  <2>1. TypeOK' /\ BoundInv' /\ TurnsInv' /\ WireInv' /\ RoomInv'
    BY <1>1, <1>5, PublishLineBound, PublishLineTurns, QuietKeepsWire, PublishLineRoom
  <2> QED
    BY <1>1, <1>5, <2>1, PublishLineStep, OthersKeepIds DEF IInv
<1>6. ASSUME Noted, FillLine
      PROVE  IInv'
  <2>1. TypeOK' /\ BoundInv' /\ TurnsInv' /\ WireInv' /\ RoomInv'
    BY <1>1, <1>6, FillLineBound, FillLineTurns, QuietKeepsWire, SamplerStoredRoom
  <2> QED
    BY <1>1, <1>6, <2>1, StoresKeepIds DEF IInv
<1>7. ASSUME Noted, CastLine
      PROVE  IInv'
  <2>1. TypeOK' /\ BoundInv' /\ TurnsInv' /\ WireInv' /\ RoomInv'
    BY <1>1, <1>7, CastLineBound, CastLineTurns, CastLineWire, SamplerStoredRoom
  <2> QED
    BY <1>1, <1>7, <2>1, CastsKeepIds DEF IInv
<1>8. ASSUME Noted, ReadExample
      PROVE  IInv'
  <2>1. TypeOK' /\ BoundInv' /\ TurnsInv' /\ WireInv' /\ RoomInv'
    BY <1>1, <1>8, ReadExampleBound, ReadExampleTurns, QuietKeepsWire, OthersRoom
  <2>2. clusters' = clusters /\ wire' = wire /\ leaf' = leaf
    BY <1>8 DEF ReadExample, arrayVars
  <2> QED
    BY <1>1, <2>1, <2>2, OthersKeepIds DEF IInv
<1>9. ASSUME Noted, Detect
      PROVE  IInv'
  <2>1. TypeOK' /\ BoundInv' /\ TurnsInv' /\ WireInv' /\ RoomInv'
    BY <1>1, <1>9, DetectBound, DetectTurns, QuietKeepsWire, OthersRoom
  <2> QED
    BY <1>1, <1>9, <2>1, DetectStep, OthersKeepIds DEF IInv
<1>10. ASSUME Noted, LoadNew \/ CountNew \/ WantNew
       PROVE  IInv'
  <2>1. TypeOK' /\ BoundInv' /\ TurnsInv' /\ WireInv' /\ RoomInv'
    BY <1>1, <1>10, DetectorLoadsBound, DetectorLoadsTurns, QuietKeepsWire, OthersRoom
  <2> QED
    BY <1>1, <1>10, <2>1, DetectorLoads, OthersKeepIds DEF IInv
<1>11. ASSUME Noted, PublishNew \/ FitArray
       PROVE  IInv'
  <2>1. TypeOK' /\ BoundInv' /\ TurnsInv' /\ WireInv' /\ RoomInv'
    BY <1>1, <1>11, DetectorStoresBound, DetectorStoresTurns, QuietKeepsWire,
       DetectorStoresRoom
  <2> QED
    BY <1>1, <1>11, <2>1, DetectorStores, OthersKeepIds DEF IInv
<1>12. ASSUME Noted, FillNew
       PROVE  IInv'
  <2>1. TypeOK' /\ BoundInv' /\ TurnsInv' /\ WireInv' /\ RoomInv'
    BY <1>1, <1>12, FillNewBound, FillNewTurns, QuietKeepsWire, OthersRoom
  <2> QED
    BY <1>1, <1>12, <2>1, StoresKeepIds DEF IInv
<1>13. ASSUME Noted, CastNew
       PROVE  IInv'
  <2>1. TypeOK' /\ BoundInv' /\ TurnsInv' /\ WireInv' /\ RoomInv'
    BY <1>1, <1>13, CastNewBound, CastNewTurns, CastNewWire, OthersRoom
  <2> QED
    BY <1>1, <1>13, <2>1, CastsKeepIds DEF IInv
<1>14. ASSUME Noted, Receive
       PROVE  IInv'
  <2>1. TypeOK' /\ BoundInv' /\ TurnsInv' /\ WireInv' /\ RoomInv'
    BY <1>1, <1>14, ReceiveBound, ReceiveTurns, ReceiveWire, OthersRoom
  <2> QED
    BY <1>1, <1>14, <2>1, ReceiveKeepsIds DEF IInv
<1>15. CASE Noted /\ (AddLine \/ ReadExample \/ AddNew \/ Receive)
  BY <1>3, <1>4, <1>5, <1>6, <1>7, <1>8, <1>9, <1>10, <1>11, <1>12, <1>13, <1>14, <1>15
     DEF AddLine, AddNew
<1> QED
  BY <1>2, <1>15 DEF Next, Stopped, Noted

\* A leaf that has taken everything that was sent, with both threads at rest, has
\* taken two broadcasts for each cluster of rank 0.
LEMMA EverythingHeard ==
  ASSUME IInv, Apart, wire = <<>>, sampler.pc = "read", detector.pc = "wait"
  PROVE  leaf.size = size
<1>1. ~ crossed
  BY DEF Apart
<1>2. /\ Sent = 2 * size /\ size \in Nat /\ Heard \in Nat /\ leaf.size \in Nat
      /\ leaf.pc \in {"struct", "center"}
      /\ leaf.pc = "struct" => Heard = 2 * leaf.size
      /\ leaf.pc = "center" => Heard = 2 * leaf.size + 1
      /\ Line(wire, Sent, Heard)
  BY <1>1, SentFacts, HeardFacts DEF IInv
<1>3. Len(wire) = 0
  OBVIOUS
<1>4. Sent = Heard
  BY <1>2, <1>3 DEF Line
<1> QED
  BY <1>2, <1>4

\* The inductive invariant holds.
THEOREM Invariance == Spec => []IInv
<1>1. Init => IInv
  BY InitInv
<1>2. IInv /\ [Next]_vars => IInv'
  BY NextInv
<1> QED
  BY <1>1, <1>2, PTL DEF Spec

\* As long as no line is added during a detection and none behind the array the
\* assertion of m_receiver holds, each structure is followed by its center, and a leaf
\* that has taken every broadcast has the model of rank 0: the threads need no lock.
THEOREM ApartIsInStep == Spec => []Inv
<1>1. IInv => Inv
  <2> SUFFICES ASSUME IInv
               PROVE  Inv
    OBVIOUS
  <2>1. InStep /\ PairsIntact
    BY DEF IInv, WireInv, InStep, PairsIntact
  <2>2. CaughtUp
    BY EverythingHeard DEF CaughtUp
  <2> QED
    BY <2>1, <2>2 DEF IInv, Inv
<1> QED
  BY <1>1, Invariance, PTL

\* Whatever the order of lines and detections and the interleaving of their accesses,
\* the sampler stores a cluster behind the array only when the detector has changed it
\* since the test of growth, or when a detection has left no room and the place is no
\* multiple of K.
THEOREM RoomUnlessUneven == Spec => OverrunOnlyUneven
<1>1. IInv /\ [Next]_vars =>
        [FillLine /\ sampler.cl >= capacity =>
           sampler.hit \/ (detector.round > 0 /\ sampler.cl % K # 0)]_vars
  <2> SUFFICES ASSUME IInv, FillLine, sampler.cl >= capacity, ~ sampler.hit
               PROVE  detector.round > 0 /\ sampler.cl % K # 0
    OBVIOUS
  <2>1. Room(sampler.cl)
    BY DEF IInv, RoomInv, FillLine
  <2>2. sampler.cl \in Nat /\ capacity \in Nat
    BY Counters DEF IInv
  <2> QED
    BY <2>1, <2>2 DEF Room
<1> QED
  BY <1>1, Invariance, PTL DEF Spec, OverrunOnlyUneven
=============================================================================
