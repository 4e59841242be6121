---------------------------- MODULE MergedOnline ----------------------------
(***************************************************************************)
(* The pipe "eet model test | online" of src/src/run.sh.  eet              *)
(* (old-code/src/reboot/eet.c) merges files line by line, one thread per   *)
(* file; online (src/src/partials/online.c) keeps examples back until the  *)
(* clusters of a whole model have come through, however the two mix.       *)
(***************************************************************************)
EXTENDS Naturals, Sequences, FiniteSets, FiniteSetsExt

CONSTANTS
  K,             \* kParam: clusters of a complete model
  Files,
  Input,         \* per file: its lines, "C" for a cluster, "E" for an example
  Unterminated,  \* files without a newline at their end
  PipeSize       \* lines the pipe takes

MergedAssumption ==
  /\ K \in Nat \ {0} /\ PipeSize \in Nat \ {0}
  /\ IsFiniteSet(Files)
  /\ Input \in [Files -> Seq({"C", "E"})]
  /\ Unterminated \subseteq {f \in Files : Input[f] # <<>>}

VARIABLES
  at,       \* per file: lines read
  reader,   \* per file: thread of eet
  pipe,     \* lines between the programs
  written,  \* number of lines eet has written
  online, output

eetVars == <<at, reader, written>>
vars == <<eetVars, pipe, online, output>>

Answer == [id : Nat, size : Nat]

TypeOK ==
  /\ at \in [Files -> Nat] /\ \A f \in Files : at[f] <= Len(Input[f])
  /\ reader \in [Files -> {"read", "write", "done"}]
  /\ pipe \in Seq({"C", "E"})
  /\ written \in Nat
  /\ online \in [pc : {"run", "done"}, line : {"C", "E", "none"}, size : Nat,
                 id : Nat, kept : Seq(Nat), waiting : BOOLEAN]
  /\ output \in Seq(Answer)

Init ==
  /\ at = [f \in Files |-> 0]
  /\ reader = [f \in Files |-> "read"]
  /\ pipe = <<>>
  /\ written = 0
  /\ online = [pc |-> "run", line |-> "none", size |-> 0, id |-> 0, kept |-> <<>>,
               waiting |-> TRUE]
  /\ output = <<>>

-----------------------------------------------------------------------------
\* Slip: a line without a newline is written like the others.
OnlyBehindTheEnd(f, n) == n > Len(Input[f])
\* getline leaves the file at its end when it found no newline: behind the last
\* line, or with an unterminated last line, which it has read all the same.
AtEnd(f, n) == \/ n = Len(Input[f]) /\ f \in Unterminated
               \/ n > Len(Input[f])

ReadLine(f) ==
  /\ reader[f] = "read"
  /\ IF AtEnd(f, at[f] + 1)
       THEN /\ reader' = [reader EXCEPT ![f] = "done"]
            /\ UNCHANGED at
       ELSE /\ reader' = [reader EXCEPT ![f] = "write"]
            /\ at' = [at EXCEPT ![f] = @ + 1]
  /\ UNCHANGED <<pipe, written, online, output>>

\* Under the mutex: a line is never cut by another.
WriteLine(f) ==
  /\ reader[f] = "write"
  /\ Len(pipe) < PipeSize
  /\ pipe' = Append(pipe, Input[f][at[f]])
  /\ written' = written + 1
  /\ reader' = [reader EXCEPT ![f] = "read"]
  /\ UNCHANGED <<at, online, output>>

EetDone == \A f \in Files : reader[f] = "done"

-----------------------------------------------------------------------------
\* Slip: one cluster more is waited for.
CompletesLate(o, size) == o.waiting /\ size > K
Completes(o, size) == o.waiting /\ size >= K

\* online: a cluster is added; the one that completes the model releases the
\* examples kept back.
ClusterLine(o) ==
  LET size == o.size + 1
  IN IF Completes(o, size)
       THEN /\ output' = output \o [i \in DOMAIN o.kept |->
                                      [id |-> o.kept[i], size |-> size]]
            /\ online' = [o EXCEPT !.size = size, !.kept = <<>>,
                                   !.waiting = FALSE]
       ELSE /\ online' = [o EXCEPT !.size = size]
            /\ UNCHANGED output

\* Slip: nobody waits for the model.
NeverKeepsBack(o) == FALSE
KeepsBack(o) == o.waiting /\ o.size < K

ExampleLine(o) ==
  IF KeepsBack(o)
    THEN /\ online' = [o EXCEPT !.id = @ + 1, !.kept = Append(@, o.id)]
         /\ UNCHANGED output
    ELSE /\ online' = [o EXCEPT !.id = @ + 1]
         /\ output' = Append(output, [id |-> o.id, size |-> o.size])

HandleLine(o) ==
  \/ o.line = "C" /\ ClusterLine(o)
  \/ o.line = "E" /\ ExampleLine(o)
  \/ o.line = "none" /\ online' = o /\ UNCHANGED output

TakeLine ==
  /\ online.pc = "run"
  /\ pipe # <<>>
  /\ pipe' = Tail(pipe)
  /\ HandleLine([online EXCEPT !.line = Head(pipe)])
  /\ UNCHANGED eetVars

\* The pipe is at its end only for the read that finds nothing, which leaves the
\* last line in the buffer: it is handled once more.
TakeEnd ==
  /\ online.pc = "run"
  /\ pipe = <<>> /\ EetDone
  /\ HandleLine([online EXCEPT !.pc = "done"])
  /\ UNCHANGED <<eetVars, pipe>>

Online == TakeLine \/ TakeEnd

Ended == EetDone /\ online.pc = "done"

Next ==
  \/ \E f \in Files : ReadLine(f) \/ WriteLine(f)
  \/ Online
  \/ Ended /\ UNCHANGED vars

Spec == Init /\ [][Next]_vars

-----------------------------------------------------------------------------
\* Examples are answered in the order in which they came, kept back or not, each
\* once, and by a complete model.
AnswersInOrder ==
  \A i \in DOMAIN output : output[i].id = i - 1 /\ output[i].size >= K

\* An example is answered or kept back, and none is kept by a complete model.
NoneForgotten ==
  /\ online.id = Len(output) + Len(online.kept)
  /\ online.size >= K => online.kept = <<>>

\* Of a file without a newline at its end the last line is lost, against "Reads one
\* line from each ready file at a time and writes to `stdout`" (eet.c:4), and no
\* other line.
LastLineLost ==
  EetDone => written = MapThenSumSet(LAMBDA f : Len(Input[f]), Files) - Cardinality(Unterminated)

\* The invariant of the pipe.
Inv == TypeOK /\ AnswersInOrder /\ NoneForgotten /\ LastLineLost
=============================================================================
