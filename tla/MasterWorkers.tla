---------------------------- MODULE MasterWorkers ----------------------------
(***************************************************************************)
(* The first distributed classifier, old-code/src/mpi/minas-mpi.c.  Rank 0 *)
(* broadcasts a model, deals the examples to the workers and between two   *)
(* sends collects the matches that happen to have arrived.  A marker ends  *)
(* each worker, a barrier the exchange, and rank 0 looks once more.        *)
(*                                                                         *)
(* What a worker has sent is first under way; MPI_Iprobe sees it when it   *)
(* has arrived, and a barrier says nothing of that.                        *)
(***************************************************************************)
EXTENDS Naturals, Sequences, FiniteSets

CONSTANTS
  NWorkers,   \* clSize - 1
  FileExamples,  \* examples of the file
  Eager       \* messages from one rank to another that MPI buffers

ASSUME MasterAssumption ==
  NWorkers \in Nat \ {0} /\ FileExamples \in Nat /\ Eager \in Nat \ {0}

Workers == 1..NWorkers
Examples == 1..FileExamples
Marker == 0          \* the example with id -1
Broadcasts == 3      \* size of the model, the model, size of an example
Barriers == 2

VARIABLES
  root,         \* rank 0: position, next example, next worker
  worker,       \* per worker: position, and the example or match it holds
  cast,         \* per rank: broadcasts it has taken part in
  entered,      \* per rank: barriers it has come to
  inbox,        \* per worker: examples on their way to it
  underWay,     \* per worker: its matches that have not arrived
  arrived,      \* per worker: its matches that MPI_Iprobe sees
  memMatches    \* examples whose match rank 0 has recorded

places == <<inbox, underWay, arrived, memMatches>>
dealVars == <<root, worker, cast, entered, places>>

Ranks == {0} \cup Workers
RootPositions == {"cast", "send", "poll", "mark", "barrier", "last", "end", "done"}
WorkerPositions == {"cast", "recv", "send", "barrier", "end", "done"}

DealTypeOK ==
  /\ root \in [pc : RootPositions, next : 1..(FileExamples + 1), dest : 1..(NWorkers + 1)]
  /\ worker \in [Workers -> [pc : WorkerPositions, holds : SUBSET Examples]]
  /\ cast \in [Ranks -> 0..Broadcasts]
  /\ entered \in [Ranks -> 0..Barriers]
  /\ inbox \in [Workers -> Seq(Examples \cup {Marker})]
  /\ underWay \in [Workers -> Seq(Examples)] /\ arrived \in [Workers -> Seq(Examples)]
  /\ \A w \in Workers : Len(inbox[w]) <= Eager
                        /\ Len(underWay[w]) + Len(arrived[w]) <= Eager
  /\ memMatches \subseteq Examples

DealInit ==
  /\ root = [pc |-> "cast", next |-> 1, dest |-> 1]
  /\ worker = [w \in Workers |-> [pc |-> "cast", holds |-> {}]]
  /\ cast = [r \in Ranks |-> 0] /\ entered = [r \in Ranks |-> 0]
  /\ inbox = [w \in Workers |-> <<>>]
  /\ underWay = [w \in Workers |-> <<>>] /\ arrived = [w \in Workers |-> <<>>]
  /\ memMatches = {}

RootGoes(pc) == root' = [root EXCEPT !.pc = pc]
WorkerGoes(w, pc) == worker' = [worker EXCEPT ![w].pc = pc]

-----------------------------------------------------------------------------
\* The root of a broadcast need not wait for the others.
RootCast ==
  /\ root.pc = "cast"
  /\ cast' = [cast EXCEPT ![0] = @ + 1]
  /\ RootGoes(IF cast[0] + 1 < Broadcasts THEN "cast" ELSE "send")
  /\ UNCHANGED <<worker, entered, places>>

WorkerCast(w) ==
  /\ worker[w].pc = "cast"
  /\ cast[w] < cast[0]
  /\ cast' = [cast EXCEPT ![w] = @ + 1]
  /\ WorkerGoes(w, IF cast[w] + 1 < Broadcasts THEN "cast" ELSE "recv")
  /\ UNCHANGED <<root, entered, places>>

NextDest(dest) == IF dest < NWorkers THEN dest + 1 ELSE 1

\* sendExamples: an example, then whatever matches are there.
SendExample ==
  /\ root.pc = "send"
  /\ root.next <= FileExamples
  /\ Len(inbox[root.dest]) < Eager
  /\ inbox' = [inbox EXCEPT ![root.dest] = Append(@, root.next)]
  /\ root' = [pc |-> "poll", next |-> root.next + 1, dest |-> NextDest(root.dest)]
  /\ UNCHANGED <<worker, cast, entered, underWay, arrived, memMatches>>

SentAll ==
  /\ root.pc = "send"
  /\ root.next > FileExamples
  /\ root' = [root EXCEPT !.pc = "mark", !.dest = 1]
  /\ UNCHANGED <<worker, cast, entered, places>>

Collect(after) ==
  \/ \E w \in Workers :
       /\ arrived[w] # <<>>
       /\ memMatches' = memMatches \cup {Head(arrived[w])}
       /\ arrived' = [arrived EXCEPT ![w] = Tail(@)]
       /\ UNCHANGED <<root, inbox, underWay>>
  \/ /\ \A w \in Workers : arrived[w] = <<>>
     /\ RootGoes(after)
     /\ UNCHANGED places

Poll == root.pc = "poll" /\ Collect("send") /\ UNCHANGED <<worker, cast, entered>>

\* Slip: the last worker gets no marker.
MarkFewer ==
  /\ root.pc = "mark"
  /\ IF root.dest < NWorkers
       THEN /\ Len(inbox[root.dest]) < Eager
            /\ inbox' = [inbox EXCEPT ![root.dest] = Append(@, Marker)]
            /\ root' = [root EXCEPT !.dest = @ + 1]
       ELSE RootGoes("barrier") /\ UNCHANGED inbox
  /\ UNCHANGED <<worker, cast, entered, underWay, arrived, memMatches>>

\* A marker for each worker, without a look at the matches in between.
Mark ==
  /\ root.pc = "mark"
  /\ IF root.dest <= NWorkers
       THEN /\ Len(inbox[root.dest]) < Eager
            /\ inbox' = [inbox EXCEPT ![root.dest] = Append(@, Marker)]
            /\ root' = [root EXCEPT !.dest = @ + 1]
       ELSE RootGoes("barrier") /\ UNCHANGED inbox
  /\ UNCHANGED <<worker, cast, entered, underWay, arrived, memMatches>>

LastLook == root.pc = "last" /\ Collect("end") /\ UNCHANGED <<worker, cast, entered>>

-----------------------------------------------------------------------------
\* receiveExamples.
RecvExample(w) ==
  /\ worker[w].pc = "recv"
  /\ inbox[w] # <<>>
  /\ inbox' = [inbox EXCEPT ![w] = Tail(@)]
  /\ worker' = [worker EXCEPT ![w] =
                  IF Head(inbox[w]) = Marker THEN [pc |-> "barrier", holds |-> {}]
                  ELSE [pc |-> "send", holds |-> {Head(inbox[w])}]]
  /\ UNCHANGED <<root, cast, entered, underWay, arrived, memMatches>>

\* Slip: a send that does not wait, from a variable that is used again.
OverwritesMatch(w) ==
  /\ worker[w].pc = "send"
  /\ \E x \in worker[w].holds :
       underWay' = [underWay EXCEPT ![w] =
                      IF @ = <<>> THEN <<x>> ELSE [@ EXCEPT ![Len(@)] = x]]
  /\ worker' = [worker EXCEPT ![w] = [pc |-> "recv", holds |-> {}]]
  /\ UNCHANGED <<root, cast, entered, inbox, arrived, memMatches>>

\* identify has answered; MPI_Send waits for room.
SendMatch(w) ==
  /\ worker[w].pc = "send"
  /\ Len(underWay[w]) + Len(arrived[w]) < Eager
  /\ \E x \in worker[w].holds : underWay' = [underWay EXCEPT ![w] = Append(@, x)]
  /\ worker' = [worker EXCEPT ![w] = [pc |-> "recv", holds |-> {}]]
  /\ UNCHANGED <<root, cast, entered, inbox, arrived, memMatches>>

Arrive(w) ==
  /\ underWay[w] # <<>>
  /\ arrived' = [arrived EXCEPT ![w] = Append(@, Head(underWay[w]))]
  /\ underWay' = [underWay EXCEPT ![w] = Tail(@)]
  /\ UNCHANGED <<root, worker, cast, entered, inbox, memMatches>>

-----------------------------------------------------------------------------
\* A barrier is entered once, and left when every rank has entered it.
Position(r) == IF r = 0 THEN root.pc ELSE worker[r].pc
RankGoes(r, pc) == IF r = 0 THEN RootGoes(pc) /\ UNCHANGED worker
               ELSE WorkerGoes(r, pc) /\ UNCHANGED root

\* Slip: one rank does not wait.
NoBarrier(n) == TRUE
BarrierOpen(n) == \A r \in Ranks : entered[r] >= n

\* Slip: a rank comes to a barrier once more.
AtAnyBarrier(r) == Position(r) \in {"barrier", "end"}
AtBarrier(r) ==
  \/ Position(r) = "barrier" /\ entered[r] = 0
  \/ Position(r) = "end" /\ entered[r] = 1

Enter(r) ==
  /\ AtBarrier(r)
  /\ entered' = [entered EXCEPT ![r] = @ + 1]
  /\ UNCHANGED <<root, worker, cast, places>>

Leave(r) ==
  /\ \/ /\ Position(r) = "barrier" /\ entered[r] = 1 /\ BarrierOpen(1)
        /\ RankGoes(r, IF r = 0 THEN "last" ELSE "end")
     \/ /\ Position(r) = "end" /\ entered[r] = 2 /\ BarrierOpen(2)
        /\ RankGoes(r, "done")
  /\ UNCHANGED <<cast, entered, places>>

Root == \/ RootCast \/ SendExample \/ SentAll \/ Poll \/ Mark \/ LastLook
        \/ Enter(0) \/ Leave(0)
Worker(w) == \/ WorkerCast(w) \/ RecvExample(w) \/ SendMatch(w)
             \/ Enter(w) \/ Leave(w)

Done == \A r \in Ranks : Position(r) = "done"

DealNext ==
  \/ Root
  \/ \E w \in Workers : Worker(w) \/ Arrive(w)
  \/ Done /\ UNCHANGED dealVars

\* Every rank runs, and messages arrive.
DealFairness ==
  WF_dealVars(Root) /\ \A w \in Workers : WF_dealVars(Worker(w)) /\ WF_dealVars(Arrive(w))

DealSpec == DealInit /\ [][DealNext]_dealVars /\ DealFairness

-----------------------------------------------------------------------------
SetOf(s) == {s[i] : i \in DOMAIN s}
Outstanding(w) == SetOf(inbox[w]) \cup worker[w].holds

\* Where an example is, once for each time.
PlacesIn(queue, kind, x) ==
  UNION {{<<kind, w, i>> : i \in {j \in DOMAIN queue[w] : queue[w][j] = x}} : w \in Workers}
Places(x) ==
  PlacesIn(inbox, "inbox", x) \cup PlacesIn(underWay, "underWay", x)
  \cup PlacesIn(arrived, "arrived", x)
  \cup {<<"worker", w>> : w \in {v \in Workers : x \in worker[v].holds}}
  \cup {<<"matched">> : y \in memMatches \cap {x}}

\* An example that has been sent is at one worker or has one match, which is on
\* its way or recorded: none is answered twice or dropped.
OnePlace ==
  \A x \in Examples : Cardinality(Places(x)) = IF x < root.next THEN 1 ELSE 0

\* After the first barrier no worker has anything left to do: what rank 0 has not
\* recorded by then are matches, all of them sent.
OnlyMatchesLeft ==
  root.pc \in {"last", "end", "done"} =>
    \A w \in Workers : Outstanding(w) = {} /\ worker[w].pc \in {"barrier", "end", "done"}

\* The invariant of the ranks: every example is accounted for, to the last look.
DealInv == DealTypeOK /\ OnePlace /\ OnlyMatchesLeft

\* Rank 0 waits for a worker that waits, with its next match, for rank 0 to take
\* one: at an example or marker for it, or in the barrier.
WaitsFor(w) ==
  \/ root.pc = "send" /\ root.next <= FileExamples /\ root.dest = w
  \/ root.pc = "mark" /\ root.dest <= w
  \/ root.pc = "barrier"
Jammed ==
  \E w \in Workers : WaitsFor(w) /\ worker[w].pc = "send" /\ Len(arrived[w]) = Eager

\* All ranks end, or rank 0 and a worker wait for each other for ever: nothing
\* else stops the program.
EndsOrJams == <>[](Done \/ Jammed)
=============================================================================
