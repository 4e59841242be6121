# Mfog: TLA+ models of the MINAS stream classifiers

The repository holds C implementations of MINAS, a classifier for data streams
that learns new classes while it runs. `bin/offline` trains a model from
labelled examples, `bin/ond` (serial) and `bin/tmpi` (MPI) read that model and
a stream of examples, answer each example with a label, and look for new
classes among the examples they could not label. This directory models those
programs in TLA+, checks the models with TLC and proves the central results
with TLAPS.

## Inventory of the system

| Component | Source | State | Operations | What makes it correct |
|---|---|---|---|---|
| MINAS operations | `src/src/base.c`, `base.h` | `MinasState`: model (array of clusters), buffer of unknowns, `lastNDCheck`, `currId`, `sleepCounter`, `nextLabel`, `nextId` | `identify`, `minasHandleSleep`, `restoreSleep`, `noveltyDetection`, `minasHandleUnknown`, `addCluster` | buffer never overflows; every novelty detection brings a cluster; unknowns are given up only after a second chance; novelties get fresh labels; sleep bookkeeping consistent |
| Serial program | `src/src/online-nd.c` | the above, line buffer of `getline`, an uninitialised `Cluster` | one loop over input lines: cluster, example, other | one answer per example; no assertion fails |
| Distributed program | `src/src/threaded-mpi.c` | rank 0: `MinasState`, packet under construction, end-of-stream count; leaf: replica of the model, rwlock, semaphore, packet | `sampler` and `detector` (rank 0), `classifier` x n and `m_receiver` (leaf), `main` | replicas are prefixes of the root model; every example answered once; two threads add to one model; the program ends |
| Offline training | `src/src/offline.c`, `training`, `kMeansInit`, `kMeans`, `clustering` in `base.c` | training set by class, centers, linear sums | k-means for each class | k clusters per class, ids in order; the clusters cover and count the examples |
| Partial classifier | `src/src/partials/classifier.c` | descriptors, `getline` buffers, model | `select` over a model and a test | answers in order; inputs not mixed up; ends |
| Partial detection | `src/src/partials/detection.c` | list of unknowns with pointers to values, model | store, collect, detect, compress | list within the array, in order, values its own |
| `eet \| online` | `src/old-code/src/reboot/eet.c`, `src/src/partials/online.c` | one thread per file, a mutex, a pipe; examples kept back | merge, answer | answers in order, by a whole model |
| Circular example buffer | `src/old-code/src/reboot/CircularExampleBuffer.c`, `src/old-code/src/test/circ-buff.c` | ring, mutex, two semaphores | `CEB_enqueue`, `CEB_dequeue` | FIFO, one owner per cell, no lost signal |
| Earlier distributed program | `src/old-code/src/reboot/threaded-mpi.c` | slot table, mutex, semaphore, replicas | a slot per example in flight; final statistics | no slot used twice, no deadlock when slots run out |
| First distributed program | `src/old-code/src/mpi/minas-mpi.c` | per rank position, matches | deal, collect, markers, barriers | every example one match; no rank waits for ever |
| MPI trials | `src/src/mpi/helio/minas1.c`, `minas3.c` | ring of unknown samples per node, attached buffer | classify, pack, send, answer by broadcast | messages exact and in order |
| Earlier C code | `src/old-code/src/{base,minas,modules,util}` | - | - | superseded, not built |
| Evaluation, data preparation | `src/src/evaluation/`, `src/src/dataset-preprocessor/` | tables in files | batch scripts | - |
| mfog-java | `src/old-code/mfog-java/` | - | - | abandoned predecessor in Scala and Java |

How they interact: `offline` prints cluster lines, which are concatenated with
the example lines and piped into `ond` or `tmpi`; these print cluster lines
too, so the output of one run can be the input of the next. In `tmpi` the
sampler sends packets of examples to the leaves in turn, classifiers send them
back labelled, the detector collects them, runs novelty detection and
broadcasts each new cluster to the receivers of the leaves.

Hard behaviours: the interplay of trigger, buffer limit and garbage
collection; the unsigned differences of ids; clusters that sleep, are counted
and wake, with three functions updating three fields; labels handed out from
two places; end of input (`feof`). In the MPI program, in addition: two
threads of rank 0 on one `MinasState` without a lock, packets of several
leaves overtaking each other, the semaphore for the initial model, and the
counting of end markers. The other programs add threads that swap cells of a
ring and signal outside of the mutex, slots that outlive their example, buffers
of MPI that fill up, a semaphore that counts one direction only, `select` over
two inputs with one line buffer, and lists whose entries share memory.
`PROJECT.json` lists these hazards with their lines.

## Modules

| Module | Models |
|---|---|
| `Minas` | the operations of `base.c`, as operators on a `MinasState` record |
| `StreamInput` | constants of the input that the next two programs read |
| `OnlineND` | the serial program: `Init`, one action per kind of line, the stale last line, the end |
| `UnknownBuffer` | abstract specification: what MINAS promises about unknowns |
| `Minas_proofs` | lemmas about the operators of `Minas` and of `MainRank` |
| `OnlineND_proofs` | the inductive invariant of the serial program and its theorems |
| `MainRank` | the state of rank 0 of the MPI program and what sampler and detector do to it, as operators |
| `UnorderedND` | abstract specification of rank 0: examples come back from the leaves in any order |
| `UnorderedND_proofs` | the inductive invariant of `UnorderedND` and its theorems |
| `ThreadedMPI` | the MPI program: threads, packets, broadcasts, semaphore; implements `UnorderedND` |
| `ThreadedMPI_proofs` | the inductive invariant of the MPI program, its theorems and the refinement |
| `SharedModel` | the model of rank 0 as `sampler` and `detector` share it, access by access, with cluster lines at any time |
| `SharedModel_proofs` | its inductive invariant and its theorems |
| `CircularBuffer` | the ring of examples, its threads and signals |
| `BoundedFIFO` | abstract specification: a bounded queue |
| `SlottedMPI` | the earlier distributed program, slot table and final statistics included |
| `SlottedND` | abstract specification of its rank 0 |
| `SlottedMPI_proofs` | the inductive invariant of that program, its theorem and the refinement |
| `MasterWorkers` | the first distributed program |
| `UnknownRing` | a node of the MPI trials and rank 0: ring, `MPI_Bsend`, broadcasts (`minas1.c`) |
| `SampledRing` | the third trial, with a sampler that deals packets, built from the operators of `UnknownRing` (`minas3.c`) |
| `SampledRing_proofs` | the inductive invariants of both |
| `MergedOnline` | `eet model test \| online` |
| `PartialClassifier` | `partials/classifier.c` with its two inputs |
| `PartialDetection` | `partials/detection.c` with the memory its list points to |
| `Training` | the offline phase, for values of one dimension |
| `Programs`, `MC_Programs` | the last four, of which one runs, and inputs for them |
| `Standalone_proofs` | the inductive invariants of the ring, of the programs on their own and of `MasterWorkers`, and their theorems |

`OnlineND`, `UnorderedND` and `ThreadedMPI` all build on `Minas`, the last two
through `MainRank`; `OnlineND` and `ThreadedMPI` are instances (`INSTANCE ...
WITH`) of the abstract specifications `UnknownBuffer` and `UnorderedND`.

### Minas

The record `MinasState` has the fields of `struct MinasState`. Ids are natural
numbers; `Cluster.latest_match_id` is an `unsigned int` and is kept modulo
`UIntMod`, and differences of unsigned numbers wrap around (`UDiffExceeds`).
The buffer is the set of its ids: examples enter it with distinct ids and its
order decides nothing but the example dropped first when it is full, a choice
here.

Geometry is abstracted. What the C code decides with distances becomes a choice
between all outcomes the code can have:

- `nearestClusterVal` (`NearestAwake`): any awake cluster. `minDist` is set by
  cluster 0 only, so when that one sleeps the first comparison reads an
  uninitialised variable: the result may then also be NULL. `identify` wakes
  the model in that case and looks again (`Identify`).
- Whether the example is within the radius: both.
- `clustering` (`Clustering`): any assignment of the unknowns to `K` clusters;
  those with at least `MinEx` members are kept.
- `noveltyDetection` (`Labellings`, `LabelRuns`): any kept cluster may be a
  novelty, with the next free label, or an extension of any cluster before it.
- the clean-up (`RemoveResolved`): an unknown is consumed when it lies within
  `distanceMax` of the nearest new cluster. For a member of a kept cluster that
  is the cluster k-means assigned it to: the kept clusters are some of those
  k-means chose from, in the same order. `distanceMax` is the largest distance
  of a member, so members are always consumed. Other unknowns may be
  (`more`). Of the rest, those older than `lastNDCheck` are collected.

An operation with choices returns the set of its outcomes, so that its callers
state the whole handler in one action. The fields `novel` and `touched` of a
cluster and the fields `consumed`, `collected`, `round`, `full` of an outcome are
bookkeeping for the properties. `touched` is the number, not wrapped around, of
the example at which `latest_match_id` was last written, as long as it is below
the bound `Tracked`, which is at most `UIntMod`; `Tracked` itself stands for all
later ones and for a cluster of a detection, whose `latest_match_id` of 0 is no
match. `extensionOF`, `isIntrest`, match counters and printing are
left out.

Operators whose comment starts with "Slip:" are deliberately wrong variants of
the definition below them; nothing uses them. Each property is known to fail
when its slip is put in place (`mutants` in `PROJECT.json`).

### OnlineND

| Variable | Code |
|---|---|
| `st` | `minasState` |
| `garbage` | `cluster.isSleep` on the stack of `main`, never assigned |
| `status` | position: in the loop, after `feof`, finished, or exited on an assertion |
| `last` | the kind of line `getline` left in its buffer |
| `read`, `round`, `full` | bookkeeping: example lines read, the last novelty detection, whether the buffer was ever at its limit |

`ClusterLine` is the branch for 'C', `ExampleLine` the rest of the loop body:
`identify`, `minasHandleSleep` and, for an unknown, `minasHandleUnknown`, in one
step, since the program is sequential. `StaleLine` is the iteration after a
final newline, in which `getline` fails and the last line is handled again.
Assertions are outcomes (`modelIncomplete`, `noNewCluster`).

Input: cluster lines carry ids 0, 1, 2, ... in order, as `offline` and `ond`
print them, and known ones may be repeated; '#' and 'U' lines do not touch the
state.

### MainRank and UnorderedND

The record `Root` is `minasState` of rank 0 with three fields of bookkeeping:
the last novelty detection (`round`), whether the buffer was still at its limit
after an unknown was handled (`full`), and whether the detector left on its
assertion (`failed`). `Lined` and `Numbered` are what `sampler` does for a
cluster and for an example line; `Observed` and `Handled` are what `detector`
does for an example that comes back.

`UnorderedND` keeps only what the other ranks can do to that state: every id
given out comes back once, at any time after the model has `K` clusters, as
`Known` or `Unknown`; end markers may overtake examples.

### ThreadedMPI

| Variable | Code |
|---|---|
| `root` | `minasState` of rank 0 |
| `sampler`, `detector` | position, packet at hand, next destination, number of end markers sent or counted, next cluster to broadcast |
| `receiver`, `classifier` | position and cluster or packet at hand of the threads of each leaf |
| `leaf` | `minasState` of each leaf |
| `ready` | value of `modelReadySemaphore` of each leaf |
| `examples`, `results`, `casts` | messages under way: sampler to the classifiers of a leaf, classifier to detector, broadcasts to each receiver |
| `answered` | bookkeeping: ids printed |

A step is what a thread does between two points where another thread can see
it: an MPI call, a lock, the semaphore, the unlocked look at the size of the
model. Cluster struct and center are two broadcasts and two steps. The
`rwlock` makes `Add` and `IdentifyNext` one step each.

- *Blocking*. A send or broadcast returns once at most `Eager` messages wait at
  the other end; the caller's next step has `Returned(...)` as its guard.
  `Eager = 0` makes every call a rendezvous. MPI keeps messages between two
  ends in order and promises no order between different senders.
- *Classifier*. At this commit `classifier` (lines 62-142) is halfway to
  another message format: it does not compile, never reads the packet size and
  receives from a fixed sender. It is modelled with the packets that `sampler`
  and `detector` use, as in its commented-out lines: receive a packet, wait for
  the model, identify each example, send the packet back, forward the end
  marker and end.
- *Input*. The clusters precede the examples, as the comment of the sampler
  ("(init) Clusters") and every script have it, and there are at least
  `MinLines >= K` of them: with fewer, classifiers wait for ever. No cluster
  has the class W, which is the end marker (`Eos`); the never-assigned label of
  `example` is not W either (`StackLabel`). Nor does a line's label bring the
  next novelty to W: the character below 'W' is a letter, and a letter does not
  move `nextLabel`.
- *Stale last line*. The reading loop has the same `feof` test as the serial
  program. A last line handled twice is just another example, with an id of
  its own, or a cluster that is known already.
- *Left out*. Match counters and the values `MPI_Gather` collects (their sizes
  are in `NothingLeft`), times and printing, and the data races on counters
  nobody reads. The call of `restoreSleep` in `main` does nothing: the counter
  it tests is still 0, as `minasHandleSleep` is never called in this program.

### SharedModel

`ThreadedMPI` reads all clusters before the first example. `SharedModel` drops
that and looks at the one thing it hides: `size`, `clusters` and `capacity` of
the array, to which `sampler` and `detector` append without a lock. `makefile:16`
sets `-g -Wall` and no optimisation, so every mention of `model->size` is a load
of its own, and an action is one access:

| Code | Action |
|---|---|
| `threaded-mpi.c:244`, the test for a known id | `ReadLine` |
| `base.c:490`, the test for growth | `TestGrowth` |
| `base.c:491-492`, the new size and `realloc` | `LoadWanted`, `GrowArray` |
| `base.c:494-495`, the place and the size behind it | `LoadPlace`, `LoadCount`, `PublishLine` |
| `base.c:496-500`, the store of the cluster | `FillLine` |
| `threaded-mpi.c:246-249`, struct and center | `CastLine`, twice |
| `base.c:286-291`, the same of a new cluster, where `realloc` takes the exact size | `LoadNew`, `CountNew`, `PublishNew`, `WantNew`, `FitArray`, `FillNew` |
| `threaded-mpi.c:431-438`, the broadcasts behind `prevSize` | `CastNew` |

A leaf takes the broadcasts in the order of their calls (`Receive`). Two parts of
the state are history: `crossed` says that both threads were adding at the same
time, `sampler.hit` that the detector has changed the size or the array since the
sampler's test for growth. So a line tested before a detection may be stored
behind the array: with `K` = 2 and two clusters the sampler tests and grows to
four, the detector publishes a third and fits the array to three, and the
sampler takes the place behind it.

What C leaves undefined is bounded as follows. A `realloc` is one step; two of
them on the same pointer at once, and a store through the pointer that one of
them has freed, have no outcome of their own. Once `crossed` or `overrun` holds,
a broadcast sends what is at its place or `Junk`, and nothing is claimed of a
leaf any more.

### CircularBuffer and BoundedFIFO

`data` holds which cell of memory is in which place of the ring, `hold` which
one each thread has, and `content` what is in the cells. `Enqueue` and
`Dequeue` are what happens under the mutex; the signals are posted
(`FoundFull`, `Enqueued`, `FoundEmpty`, `Dequeued`) and awaited
(`WaitForSpace`, `WaitForExample`) in steps of their own, as in the code. `main`
joins the producers and then sends end markers, never more than the ring takes.
The ring implements `BoundedFIFO` with the messages between `tail` and `head` as
its queue. The program is started with as many producers as consumers.
`NoLostSignal` says that no thread sleeps while the ring has what it waits for,
unless a signal is there or somebody is about to post one or to look again.
`SignalsCover` is the count behind it: while a producer waits, every free cell
has a signal, a consumer about to post one, or a producer about to use the cell.

### SlottedMPI and SlottedND

`slots` and `table` are the slot table of rank 0: a slot is 0 (never used), a
leaf (claimed) or a leaf plus the number of ranks (free again). `FindSlot`,
`FillSlot` and `SendExample` are three steps, because the mutex covers only the
first; the detector looks the answer up in another (`LookUp`). The end marker
is the last example with another label, still in its slot (`MarkLast`,
`PackMarker`), which the detector may overwrite in between (`MarkerErased`). At
the end each leaf reports its clusters and rank 0 adds them up (`Tell`,
`HearReport`, `AddReport`). `identify` and `noveltyDetection` come from a header
that is not in the repository and are modelled from their use. `SlottedND` keeps
what rank 0 does with ids: deal, handle in any order, detect.

### MasterWorkers

`root` and `worker` are positions; a match is `underWay`, then `arrived`, then in
`memMatches`, since `MPI_Iprobe` sees only what has arrived. `Eager` messages fit
between two ranks; a send beyond waits. Both barriers are modelled by counting
who has entered. `Places` lists where an example is, once for each time: in
which position of which queue, in whose hands, or recorded.

### UnknownRing and SampledRing

Per node, `found` and `taken` count the samples stored and packed; a sample is
its number. `Store` and `PostSample` are two steps, and no semaphore makes
`Store` wait, so a ring may be lapped (`spoilt`). `attached` is the buffer of
`MPI_Bsend`, which is also where the next message is packed (`WrittenOver`).
`UnknownRing` has no specification of its own with fairness: `SampledRing`, whose
actions are its operators with a sampler in front, is what is checked.
The nodes of `SampledRing` are `1.._numprocs - 1` and there is at least one: the
sampler sends its first packet to node 1 whatever the number.
`Width` is how many slots `MPI_Pack` reads at once: 1 with the array of `int` of
`minas3.c`, 4 with the array of `char` of `minas1.c`, which no run instantiates
(see the disagreements).

### MergedOnline, PartialClassifier, PartialDetection, Training, Programs

- `MergedOnline`: each file has a thread that reads a line and, under the mutex,
  writes it to the pipe; `online` keeps examples back until the model is whole.
  The line left in the buffer of `getline` is handled once more at the end.
- `PartialClassifier`: three kinds of model input. Lines pass the kernel's
  buffer (`written`), that of `getline` (`fetched`, in blocks of any size) and
  the program (`taken`). The pipe takes the whole input, so its writer never
  waits. Both inputs share `line`, which keeps what it had when `getline` fails.
- `PartialDetection`: an entry of the list is an id and a cell of memory; `val`
  says whose values a cell holds. Compressing copies both. `detection.c:41` tests
  `feof` before it reads, so after a final newline the last line is handled again
  (`pc = "again"`): a cluster is in the model by then, an unknown has the same
  id and may be stored a second time.
- `Training`: integers in units of `1/Unit`, so that means of up to that many
  values are exact; `lines` is any training set, k-means runs an iteration per
  step and ends as the code does, when the sum of distances stays the same. A
  center may come to lie outside of the values (see the disagreements). `InTurn`
  lists a set of line numbers in ascending order; `Grouped`, the training set by
  class, is two uses of it.
- `Programs`: the four share no state and meet in files only. A behaviour is one
  of one of them, on any of its inputs, while the others stay as they began.

## Runs

The real parameters (`k` = 100, 20 examples per cluster) are out of reach; the
runs use the smallest ones with the same structure. All runs bound the input
with `MaxExamples` and `MaxLines` or their like. Runs that say `CHECK_DEADLOCK
FALSE` are those of programs that may stop: the serial program and `UnorderedND`
at the end of input, `SlottedMPI` when its end marker is lost, `MasterWorkers`
when ranks wait for each other. In all other modules the end is a self-loop,
and TLC reports every other deadlock.

| Run | Instance | Shows |
|---|---|---|
| `unknowns` | K = 2, MinEx = 2, 12 examples, 3 cluster lines, the third at any time before the first detection: limit 8, trigger 4, two novelty detections and left-over unknowns | `TypeOK`; `DetectionFindsCluster`: no exit on `assert(nearest != NULL)`; `RoomAfterHandling`: the commented-out assertion on the buffer would hold; `TriggerBeforeLimit`: detections come from the trigger, never from the limit; `OnlyTriggerOutlives`: only the triggering unknown can outlive two detections; `KeepsBufferPromises`: refinement of `UnknownBuffer` |
| `sleep` | K = 1, MinEx = 2, threshold 2, stamps modulo 5, both values of the uninitialised flag, 6 examples, 3 cluster lines, before or after a detection, with the label of a letter (1) or of a novelty (3) | `SleepCounterMatches`, `SomeClusterAwake`; `SleepersAreStale`: who sleeps was last compared, woken or read longer ago than the threshold, with the two exceptions below; `NoveltyLabelsFresh` |
| `stale_line` | as `unknowns` | finds the input line that is handled twice |
| `unordered` | K = 2, MinEx = 2, 8 examples in any order, 2 cluster lines: two novelty detections | `TypeOK`, `DetectionFindsCluster`, `RoomAfterHandling`, `LeftoverBounded`, for out-of-order ids |
| `leaves` | 2 leaves with 1 classifier, packets of 2, `Eager` = 1, K = 1, MinEx = 1, 4 examples, up to 2 cluster lines | `TypeOK`; `ReplicaIsPrefix`: the assertion of the receiver holds and replicas are prefixes of the model of rank 0; `InOnePlace`: no example lost or answered twice; `ImplementsUnorderedND` |
| `classifiers` | 1 leaf with 2 classifiers, packets of 2, rendezvous, K = 2, 4 examples | `Termination`; `NothingLeft`: when all threads are joined every example is answered, no message is left and all models have the same size |
| `shared` | K = 2, 5 cluster lines at any time, 2 detections, a leaf at most 3 broadcasts behind | `Inv`: unless both threads were adding at once, or a cluster was stored behind the array, the receiver's assertion never fails, struct and center stay together, a leaf ends up with the whole model; `OverrunOnlyUneven`: the sampler stores behind the array only at an uneven place after a detection, or when the detector has changed size or array since the test for growth |
| `ring` | 3 cells, 2 producers with 2 examples each, 2 consumers, main | `Inv`: `OneOwner`, `Loaded`, `SignalsCover` and `NoLostSignal`; `IsFIFO`: refinement of `BoundedFIFO`; `Termination` |
| `slots` | 2 leaves, 3 slots, 4 examples, rendezvous, a detection may follow any second unknown | `Inv`: every answer finds its slot, is printed once, leaves follow the model, the statistics add up; `ImplementsSlottedND`; `Termination`, but for two named faults |
| `minas3` | 2 nodes, ring of 4, messages of 2, 5 packets of 2 samples | `Inv`: packed samples are the ones in turn or whole rings later, messages exact and in order unless something was written over, packets in turn; `EndsWell` |
| `deal` | 2 workers, 12 examples, 2 messages each way | `DealInv`: no example lost or answered twice, only matches are left after the first barrier; `EndsOrJams`: the only way not to end is rank 0 and a worker sending to each other |
| `programs` | see `MC_Programs.cfg` | `EetInv`, `ClassifierInv`, `DetectionInv`, `OfflineInv`, `EndsUnlessDeaf`, `OnlyOldCollected`, `EndsByInput`, each of one program; `DetectionInv` with a last unknown that may be handled twice |

`SleepersAreStale` names two kinds of clusters that may sleep at once, both from
`base.c:394`, which compares `currId` with an `unsigned int`. One is a cluster
whose last example had a number that does not fit into it (`touched` is then
`Tracked`): in the run a cluster matched at example 5 gets the stamp 0. The other
is a cluster of a detection that nothing has been near: its stamp is 0 from the
start. The run reaches both.

`NoveltyLabelsFresh` needs input labels that are not right below a letter or
'-' (`addCluster` sets `nextLabel` one above the label it reads and skips
nothing); the labels of the run are of that kind: a line labelled 1 is a letter and
moves nothing, one labelled 3 moves `nextLabel` to 4 when novelties are labelled
0, 3, 4. The run has a novelty 0, a line labelled 3 behind it, and the next novelty.

`Inv` (`DealInv` in `MasterWorkers`) of each module is the conjunction of its type invariant and the named
parts above it. For each part `PROJECT.json` names a slip of the code that
breaks it.

The bounds are enough for the interesting cases. With four examples and
packets of two, a leaf gets a packet while the other is still busy, unknowns
start a detection in the middle of a packet, its broadcasts meet the packets of
the other leaf, and the last packet may be short (odd numbers of examples) or
missing. With one leaf and two classifiers, both wait for the one semaphore,
share a queue of packets and end on markers that either may get. Two leaves
with two classifiers each would multiply these cases without adding one. In
`shared` the array grows up to three times by lines and is fitted by two
detections of one or two clusters each; either thread may stop between any two
accesses. In `ring` the ring is full and empty with both producers or both
consumers waiting. In `slots` one leaf has two slots, the other one, and both
kinds are used again. In `minas3` ten samples go to a ring of four, which a
node may lap. In `deal` five
examples keep a worker busy for good (two to come, one in hand, two matches that
rank 0 has not taken), so that with twelve rank 0 may wait for ever at the next
example for a worker, at its marker, or in the barrier: dropping any of the three
disjuncts of `WaitsFor` makes `EndsOrJams` fail. In `programs`, `detection` gets to its third detection with a list that
was full before (13 ids, groups of three), `classifier` has models of exactly
and of more than `kParam` clusters, and `offline` all training sets of four
lines over three values and two classes, with seeds that coincide. `EndsByInput`
includes `NeverCut`: on these sets k-means settles before `MaxIteration`.

Fairness is weak and by thread throughout: a thread that can take a step takes
one at last, because the operating system schedules every thread, MPI delivers
a message that both ends are ready for, and a thread at a posted semaphore is
let go. In `ThreadedMPI` the sampler is included: the input is finite and read
to its end, and no receiver or classifier is kept out of the lock for ever. In
`MasterWorkers` messages arrive in the end; in `PartialClassifier` both inputs
come to their end; in `SampledRing` a message leaves the attached buffer in the
end. `OnlineND`, `UnorderedND`, `SharedModel`, `MergedOnline` and
`PartialDetection` state safety only and assume no fairness.

Out of order the buffer can fill up to its limit, which in-order ids never do:
`TriggerBeforeLimit` is a property of the serial program only. `RoomAfterHandling`
holds all the same, because reaching the limit starts a detection, and a
detection always makes room.

## Findings

`stale_line` is a run: `online-nd.c:67` tests `feof` before it reads, and
`getMfogLine` ignores the result of `getline`. When the input ends with a
newline, as text files do, the last example is handled twice. A recorded
evaluation counts 653457 examples and 653458 matches
(`experiments/rpi/almoco/tmi-base.log:107`).

### Other disagreements

Known from building the models, stated here without a run of their own. Most of
them appear in a property above as the exception it names.

- `base.c:344` says an example present in the last novelty detection is
  discarted in the second round. The comparison is strict, and the example that
  set off the last detection has exactly the id `lastNDCheck`: it may stay for
  a third one. `OnlyTriggerOutlives` shows that no other can.
- `threaded-mpi.c:397` says "consider only max id"; `minasHandleUnknown`
  (`base.c:304`) sets `currId` to the id of the unknown, so one that was
  overtaken moves it back, and the unsigned `currId - lastNDCheck` wraps around.
  An unknown older than `lastNDCheck` may also arrive after that detection, and
  is given up by the first one it takes part in.
- `threaded-mpi.c:170` asserts `cl->id == model->size`. With a cluster line behind
  an example the detector may broadcast what the sampler has added as well, and the
  assertion fails (`crossed` in `SharedModel`); after a detection a line may be
  written behind the array, even one that was tested before it (`base.c:490-494`).
- `old-code/src/reboot/threaded-mpi.c:366` asserts that unknowns stay below twice
  the trigger; answers that were overtaken fill the buffer without bringing the
  next detection closer, and it fails. At line 270 the end marker is written
  into an example that is still in its slot, where the detector may overwrite
  it; then no leaf ends. `Termination` names both.
- `old-code/src/mpi/minas-mpi.c:114`: rank 0 does not collect while it sends
  markers and waits in the barrier. `EndsOrJams` names the jam. After the
  barrier it looks once with `MPI_Iprobe` and misses what is still under way.
- `mpi/helio/minas1.c:59`: nothing keeps the classifier from storing over samples
  that have not been packed (`minas3.c:70` the same). `minas1.c:87` packs one
  `MPI_INT` at a slot of an array of `char`, so the three slots behind it go
  into the sample.
- `old-code/src/reboot/eet.c:44` drops the last line of a file without a newline
  at its end, against `eet.c:4`; `LastLineLost` shows that it drops nothing else.
- `partials/detection.c:72-89`: while the model is not whole nothing is collected,
  so the list passes its limit and the assertion at line 89 fails with the first
  unknown after the model. Line 106 copies pointers: an example in the list may
  later hold the values of a younger one. After a final newline the last unknown
  is handled again (line 41) and may be in the list twice. `DetectionInv` bounds all
  three.
- `partials/classifier.c:60`: `select` overwrites the set of descriptors, which is
  filled once, so that with a model file that is always ready the test may never
  be read. At line 65 the end of a model with more than `kParam` clusters reads
  the example that is left in the shared buffer, and the program exits.
- `base.c:78` puts the seed of a cluster in the first sum and not in the count:
  with the examples 1 and 1 and k = 2 the centers become 1 and 1.5. `Covered`
  holds all the same.
- `old-code/src/test/circ-buff.c:16` labels example 26 with `'{'`, on which
  line 17 exits; a ring of 14 cells comes that far.

## Proofs

The theorems hold for every value of the constants that meets the assumptions
named at the end of this section. Each rests on an inductive invariant, which TLC
checked on the instances above before it was proved.

### The operators of base.c

`Minas_proofs` shows for every value of the parameters what each operator does
to the types and to the buffer. The heart of it is `SomeClusterKept`, a
pigeonhole argument: more than `K * (MinEx - 1)` unknowns assigned to `K`
clusters put at least `MinEx` into one. `HandleUnknownFacts` sums up
`minasHandleUnknown`: it never fails, leaves the buffer below the limit, and
either just adds the example or runs one detection with the consumed and
collected sets described above. The second part of the module carries this over
to the operators of `MainRank`.

### The serial program

`OnlineND_proofs` proves that `Inv` is inductive. Beyond the types it states
that the buffer is finite, below the limit, and holds only ids already given
out, of which those older than `lastNDCheck` were looked at by the last
detection (`BufferInv`), and that as long as the program reads, one id was given
out per line read (`CountInv`). The refinement needs the former to know that
collected unknowns were seen before, and that an arriving example is not yet in
the buffer, and the latter to know that its id is within `0..MaxExamples`, the
stale line included.

| Theorem | States |
|---|---|
| `Invariance` | `Spec => []Inv` |
| `TypeCorrect` | `Spec => []TypeOK` |
| `EveryDetectionFinds` | `Spec => []DetectionFindsCluster` |
| `AlwaysRoom` | `Spec => []RoomAfterHandling` |
| `BufferRefinement` | `Spec => KeepsBufferPromises` |
| `OnlyOneSecondRound` | `Spec => OnlyTriggerOutlives` |
| `TriggerComesFirst` | `Trigger >= 3 => (Spec => []TriggerBeforeLimit)` |
| `NoveltiesAreNew` | `LabelsLeaveRoom => (Spec => []NoveltyLabelsFresh)` |
| `SleepersAreCounted` | `Spec => []SleepCounterMatches` |
| `NeverAllAsleep` | `Spec => []SomeClusterAwake` |
| `OnlyStaleSleep` | `Spec => []SleepersAreStale` |

`OnlyOneSecondRound` is an action property. It needs `PresentInv`: nothing the
last detection looked at is younger than `lastNDCheck`. The next detection gives
up all that is older, which leaves the one unknown with that id.

`TriggerComesFirst` has an invariant of its own, `TriggerInv`. The unknowns up to
`lastNDCheck` are what the last detection left, at most `(K - 1) * (MinEx - 1)`
(`FewUnexplained` in `Minas_proofs`: one cluster was kept, and the others have
fewer than `MinEx` members each). As long as no detection is due, either fewer
than `Trigger` unknowns wait or all of them have an id within `Trigger` of
`lastNDCheck`, so there are at most `Trigger` younger ones. Together that is less
than `UnknownsMax - 1`, but only if `Trigger`, which is `K * MinEx`, is at least
3: with `K = 1` and `MinEx = 2` the limit of four is reached. Every
configuration in the repository is far above that.

`NoveltiesAreNew` follows the labels instead of the buffer (`LabelsInOrder`):
`nextLabel` is above every label that is not reserved, it is not reserved itself,
and a novelty's label is new among the clusters before it. `LabelsLeaveRoom` is
the hypothesis that no number below a letter or '-' labels a line, without which
the property is false: `addCluster` would set `nextLabel` to that character.

The last three rest on `SleepInv`. However clusters start, none has a stamp ahead
of `currId`, even one that wrapped around, and `sleepCounter` is never above the
number asleep. When the uninitialised `isSleep` of a line is unset, the counter is
exact, every sleeper is stale and some cluster is awake (`SleepInOrder`). Each
needs the others: `restoreSleep` acts only on what the counter says, and
`minasHandleSleep` counts from it who is left awake. `OnlyStaleSleep` adds
`Stamped`: as long as `touched` tells something, it is the stamp. So what the code
compares is the last example itself.

### The MPI program

`UnorderedND_proofs` proves of rank 0 what holds in any order of the examples.
Its `Inv` needs nothing about the order of ids: types, a finite buffer below its
limit, and no failure. `HandleUnknownFacts` gives all three after any unknown,
because the pigeonhole argument counts the buffer, not the ids.

| Theorem | States |
|---|---|
| `Invariance` | `Spec => []Inv` |
| `TypeCorrect` | `Spec => []TypeOK` |
| `EveryDetectionFinds` | `Spec => []DetectionFindsCluster` |
| `AlwaysRoom` | `Spec => []RoomAfterHandling` |
| `DetectionLeavesFew` | `Spec => []LeftoverBounded`, from `FewUnexplained` in every step |

`ThreadedMPI_proofs` is about all threads, for any numbers of leaves and
classifiers, any size of packets and any `Eager`. Its `Inv` has, beyond the types,

- `RootInv`: no cluster of rank 0 is labelled W, since receivers end on that;
- `PhaseInv`: what has to be over before what: all lines before the first
  example, all examples before the first end marker;
- `PacketInv`: every packet is whole examples with ids given out, or one marker,
  and the threads are at places within it;
- `CastInv`: a count of broadcasts. With `Sent` calls returned to rank 0 and
  `Heard(l)` taken by leaf `l`, what is on its way to it are the ones between, in
  order: cast `2n` is the struct of cluster `n`. This is the strengthening behind
  the receiver's assertion, which speaks of one moment only;
- `PlaceInv`: every id given out is in one kind of place, and there once: with
  the sampler, in a queue, with a classifier, with the detector or answered;
- `MarkerInv`: an end marker for every classifier that was sent for is in the
  queue of its leaf, or a classifier has ended on it, sent it on, and the
  detector has counted it. The detector thus ends only when every queue is empty.

| Theorem | States |
|---|---|
| `Invariance` | `Spec => []Inv` |
| `TypeCorrect` | `Spec => []TypeOK` |
| `ReplicasArePrefixes` | `Spec => []ReplicaIsPrefix`, from `CastInv` |
| `ExamplesAreInOnePlace` | `Spec => []InOnePlace`, from `PlaceInv` |
| `NothingIsLeft` | `Spec => []NothingLeft`, from `MarkerInv` and `CastInv` |
| `RankZeroIsND` | `Spec => ImplementsUnorderedND` |

`RankZeroIsND` maps the steps of sampler and detector on the state of rank 0 to
the steps of `UnorderedND` and all else to stutters. It needs `PlaceInv` to know
that an id comes back once, and `PhaseInv` for the size of the model by then.
Through it `RoomAfterHandling`, `DetectionFindsCluster` and `LeftoverBounded` hold
of the MPI program.

`SharedModel_proofs` drops the order of lines and examples again. Its `IInv` has
the bounds of all sizes, in whatever order the two threads load and store them
(`BoundInv`: each size loaded leaves room for all that is still to come; `IdsInv`),
what each thread finds of what it left, if the other was not adding at the same
time (`TurnsInv`), the same count of broadcasts as above as long as that holds
and nothing was stored behind the array (`WireInv`), and for the array (`RoomInv`)
what the sampler knows from its test for growth on, if the detector keeps off:
that there is room for its cluster, or that a detection has fitted the array and
its place is no multiple of `K`, which the test does not see.

| Theorem | States |
|---|---|
| `Invariance` | `Spec => []IInv` |
| `ApartIsInStep` | `Spec => []Inv`: threads that do not add at the same time need no lock, wherever the lines are |
| `RoomUnlessUneven` | `Spec => OverrunOnlyUneven` |

### The earlier MPI program

`SlottedMPI_proofs` is about any numbers of leaves, slots, clusters and examples
and any `Eager`. What a run checks of the slot table speaks of one slot or one
answer, but an answer finds its slot only if nothing else on its way has the same
number. `IInv` therefore follows all that one leaf has to do with as one line
of numbers, from the detector through `answers`, the classifier and `examples`
to the sampler:

- `LineInv`: this line grows from one end to the other, and holds only ids given
  out, with the end marker behind them. A marker that was erased is a second copy
  of the last id; `Value` maps it to the marker, so that the line still grows;
- `HeldInv` and `StaleInv`: the ids in the line (`Out`) and the claimed slots of
  that leaf correspond one to one. What the other slots still hold is no longer
  out, or a 0 that never was an id. A slot being filled counts as neither;
- `PlaceInv`, `LabelInv`, `MarkerInv`, `IdInv`: where the two threads of rank 0
  are, whose label may be that of the end marker and how long, and that the
  marker is the last thing a leaf is sent;
- `PrintInv`: an id given out is out or printed, and both only while the detector
  is at work on it; each line of the output is another one's;
- `CastInv`: the count of broadcasts, as in `ThreadedMPI_proofs`;
- `CountInv`: what a leaf was given is waiting there or was counted at one of its
  clusters, and rank 0 has added up what was counted at the clusters reported.

`MapThenSumSet` is a recursive function, and induction over its argument is out
of reach. The sums in `CountInv` are of numbers, though, and such a sum is the size
of a set of pairs (`SumIsSize`): one well-founded argument over sets of naturals
(`LeastNat`) replaces the induction, and what a step adds to a sum follows from
what it adds to that set (`SumGrows`).

| Theorem | States |
|---|---|
| `SlottedInvariant` | `Spec => []IInv` |
| `SlottedSafety` | `Spec => []Inv` |
| `RankZeroIsSlottedND` | `Spec => ImplementsSlottedND` |

For the refinement, an id becomes due in `FillSlot` and is handled in
`SortAnswer`; everything else is a stutter. That fewer than `NSlots` ids are
due when one is dealt follows from `HeldInv`: each has a slot, and none has the one
that is being filled (`RoomForOne`). That an id is handled once is `PrintInv`.

### The ring of examples

The first part of `Standalone_proofs` is about rings of any size and any numbers of producers
and consumers. `NoLostSignal` is not inductive, since it does not count:
`IInv` puts `SignalsCover` in its place, from which it follows. Each step of a
thread moves it between the sets that `SignalsCover` adds up (`Moves`), so the
proof follows two sums through every action. For the refinement, `Queue` is
shown to grow at its end by what a producer put in and to lose its head to a
consumer, which is where `OneOwner` is needed: writing to the cell in hand
changes nothing in the ring or in the hand of another thread.

| Theorem | States |
|---|---|
| `RingSafe` | `Spec => []Inv` |
| `RingIsFIFO` | `Spec => IsFIFO` |

### The trials

`SampledRing_proofs` proves of `UnknownRing`, that is of `minas1.c` and of both
widths of `MPI_Pack`, an invariant per node: the semaphore counts what is stored
and not packed (`Count`); the slot of sample `k` holds `k` or one that came whole
rings later (`SlotInv`), and so do the samples packed (`PackedInv`); the samples
packed are those of all messages and of the one begun (`MessageInv`); and until
something is written over, all of these are exact (`FreshInv`), which is only
true together with the bound that it adds, less than a ring between storing and
packing. `minas3.c` inherits it, since its steps are made of the same operators
(`StepRefines`), and adds `DealtInv`: nodes before the next destination have been dealt
exactly one packet more than those behind it.

| Theorem | States |
|---|---|
| `Ring` | `Init /\ [][Next]_ringVars => []RingInv` |
| `RingIsPackedInTurn` | `Init /\ [][Next]_ringVars => [](InTurn /\ ExactUnlessSpoilt)` |
| `TrialInvariant` | `SampledSpec => []Inv` |

### The programs on their own

The second part of `Standalone_proofs` is about `Programs`: about `eet | online` for any number of files, of lines and
of clusters. `EetIInv` adds to what is checked, per file, how far its thread has
read (`EetReads`: a thread in between has a line in hand, and one that is done
has stopped at its end of file), that `written` is the sum of what the threads
wrote, and `OnlineKeeps`: what `online` holds back are the examples behind those
it has answered, in order, and it holds any back only while its model is
incomplete. That `written` ends as
the number of lines less one for each unterminated file is a statement about a
sum over the files (`MapThenSumSet`), which is again taken as the size of a set
of pairs.

The detection is proved for any `K`, `MinEx`, gaps between ids and bounds. Its
list never runs over, because ids are in order and a full list has something to
lose: `FewYoung` says that, unless unknowns came before the model was whole and no
detection has been since, all but the last `NoveltyDetectionTrigger + 1` of the
list are older than the last detection. A list of twice the trigger therefore has an old example as
soon as the trigger is more than 2, which is the assumption. `Compressed` is
shown to be a list with a source for every place, in order (`Compacts`), and from
that follow the order of ids, their dates (`Dated`: nothing from before the check
before the last) and the values: each cell of memory that an example points to has
its own value or a later one (`Valued`), and its own as long as no list was
compressed by a detection (`OwnCells`, `OwnValues`).

For the classifier, `ClassifierIInv` computes from the lines taken how many
clusters and examples were read (`ClustersRead`, `ExamplesRead`), whichever input
they came by. The shared line is the last one read (`LineIsLast`), the answers
are the examples in order and at the end the last of them again (`Answered`).
That the error can only come with more clusters than `kParam` is `OnceMore`: the
loop for the whole model stops one call of `getline` before the end of a model of
exactly `kParam` clusters; `select()` then shows the end of it in its first
round, before any example is read, and the line left is still a cluster.

For the training, `OfflineIInv` adds to the types that each class is in the training
set once (`GoodSet`) and that what was recorded of a class represents it
(`Represents`): its K clusters are those with the ids `IdsOf`, every example has its
nearest one among them and lies within its `distanceMax`, and their counts add up
to the size of the class. A class is described by centers with places 1 to K and
searched by ids behind those of the classes before: `NearestShifts` says that this
changes nothing, ties included. That the counts add up is a sum over a set once
more (`SumOfMembers`), and so is that a mean, even with the seed added to
it, stays between 0 and twice the largest value (`SumBound`, `MovedIsCenter`).
`GroupedFacts` rests on `RanksOccur`: a finite set of numbers has as many ranks as
members. It holds for any finite set of values, any number of lines and any
`MaxIteration`: that the model covers its training set does not depend on k-means
having settled.

| Theorem | States |
|---|---|
| `EetLosesOnlyUnterminated` | `ProgramSpec => []EetInv` |
| `DetectionIsSafe` | `ProgramSpec => []DetectionInv` |
| `OnlyOldIsCollected` | `ProgramSpec => OnlyOldCollected` |
| `ClassifierIsSafe` | `ProgramSpec => []ClassifierInv` |
| `TrainingIsCovered` | `ProgramSpec => []OfflineInv` |

### The first distributed program

The last part of `Standalone_proofs` is about `MasterWorkers` with any number of
workers and examples and any `Eager`. `DealIInv` has three parts beyond the
types. `PlacesInv`: an example has been sent when it is somewhere, it is with one
worker or recorded, and there in one kind of place and one position. `MarkersInv`:
a marker is the last in its queue and the only one, and a worker comes to the barrier by
it, so that its queue is then empty and stays so. `BarrierInv`: nobody passes the
first barrier before all have come to it. Each queue operation is one lemma
(`HasAppended`, `HasTaken`); that the set of places has one element, as
the run counts it, follows at the end (`OnePlaceEach`).

| Theorem | States |
|---|---|
| `EveryExampleInOnePlace` | `DealSpec => []DealInv` |

### What they assume, and what is not proved

All of them rest on the assumptions of their modules only. `ParamsAssumption` and
`LabelsAssumption`: positive `K` and `MinEx`, a positive `UIntMod` and a `Tracked`
no larger, labels that are numbers.
`InputAssumption` and `StackAssumption`: nonempty sets of values for the
uninitialised fields.
`MPIAssumption`: at least one leaf, classifier and example per packet, and the
input as described under `ThreadedMPI`. `SharedModelAssumption`: a positive `K`, numbers for the bounds.
The two `RingAssumption`s and `SampledAssumption`: a ring of two cells or more, a
ring of two messages, at least one node. `SlottedAssumption`: at least as many
slots as leaves, numbers of ranks that a slot, a `char`, can hold, and a whole model
in front of the examples. `ProgramsAssumption`: the four together, positive `K`,
finitely many files, a last line only in a file that has lines, a trigger above 2,
finitely many values in a training set.
`MasterAssumption`: at least one worker, a positive `Eager`. The bounds on the input (`MaxExamples`,
`MaxLines`, `MaxPackets` and their like) may be any natural number.

Every invariant, action property and refinement that a passing run checks is the
statement of one of these theorems. `Termination`, `EndsWell`,
`EndsOrJams`, `EndsUnlessDeaf` and `EndsByInput` stay with TLC: the prover has no
liveness under fairness. `EndsByInput` includes a safety property, `NeverCut`, that is
only model-checked: that k-means settles before `MaxIteration` is a fact about the
training sets of the run, not about all.

## Not modelled, and why

- Distances as floating-point numbers. `Minas` replaces them by choices,
  `Training` by integers of one dimension. The text formats, timing, statistics
  (but those of `SlottedMPI`) and memory management, except where a list shares
  memory (`PartialDetection`) or an array its capacity (`SharedModel`).
- `partials/zip.c`, `main.c` and `online-mpi.c`: they use an older interface of
  `base.c` and repeat what the modelled programs do.
- `mpi/helio/minas2.c` holds pseudo code and does not compile; `mfog-mpi.c` and
  `hello-mpi.c` are trials of the MPI library without a state of the classifier.
- `old-code/src/{base,minas,modules,util}`: earlier generations that no makefile
  builds. `minas/nd-service.c` and `util/net.c` are a model store over sockets
  that never delivers a model.
- `old-code/mfog-java`, `src/evaluation` and `src/dataset-preprocessor`: other
  languages, batch scripts over files.

## Plan

Done: the modules above, with proofs for `Minas`, `OnlineND`, `UnorderedND`,
`ThreadedMPI`, `SharedModel`, `SlottedMPI`, `CircularBuffer`, `UnknownRing`,
`SampledRing`, `MergedOnline`, `PartialDetection`, `PartialClassifier`, `Training`
and `MasterWorkers`. Left:

1. Match counters of `threaded-mpi.c`, which lose increments under a shared
   read lock, and the sums `MPI_Gather` takes of them.
