------------------------- MODULE PartialClassifier -------------------------
(***************************************************************************)
(* src/src/partials/classifier.c: the classifier as a program of its own.  *)
(* It reads a whole model, then examples from its standard input and more  *)
(* clusters from either input, and select() says which of the two to read. *)
(*                                                                         *)
(* Three things between the program and its inputs matter and are          *)
(* modelled: the kernel's buffer, the buffer of getline behind it, which   *)
(* select() does not see, and the set of descriptors, which select()       *)
(* overwrites with those that are ready.                                   *)
(***************************************************************************)
EXTENDS Integers, Sequences, SequencesExt

CONSTANTS
  K,           \* kParam
  MaxClusters, \* bound on the clusters of the model
  NExamples    \* the lines of the test

ClassifierAssumption ==
  /\ K \in Nat \ {0} /\ MaxClusters \in Nat /\ MaxClusters >= K
  /\ NExamples \in Nat

VARIABLES
  modelIs,            \* what modelFile is: "stdin", a "file" or a "pipe"
  nClusters,          \* the clusters it holds
  written, closed,    \* what the programs at the other ends have done
  fetched, taken,     \* lines in getline's buffer: those behind taken
  eof,                \* feof
  fds, line,          \* lineptr, shared by both inputs
  pc, size, id,
  out                 \* the answers

modelFile == IF modelIs = "stdin" THEN "stdin" ELSE "model"
Sources == {"stdin", modelFile}

Clusters == [i \in 1..nClusters |-> [type |-> "C", n |-> i - 1]]
Examples == [i \in 1..NExamples |-> [type |-> "E", n |-> i]]
Lines(s) == IF s = "model" THEN Clusters
            ELSE IF modelIs = "stdin" THEN Clusters \o Examples ELSE Examples
LineSet == Range(Clusters) \cup Range(Examples)

argVars == <<modelIs, nClusters>>
inputVars == <<argVars, written, closed>>
fileVars == <<fetched, taken, eof, line>>
vars == <<inputVars, fileVars, fds, pc, size, id, out>>

TypeOK ==
  /\ modelIs \in {"stdin", "file", "pipe"} /\ nClusters \in K..MaxClusters
  /\ \A s \in Sources : /\ taken[s] \in 0..fetched[s]
                        /\ fetched[s] \in 0..written[s]
                        /\ written[s] \in 0..Len(Lines(s))
                        /\ closed[s] => written[s] = Len(Lines(s))
                        /\ eof[s] => closed[s] /\ taken[s] = written[s]
  /\ fds \in (SUBSET Sources) \ {{}}
  /\ line \in LineSet \cup {[type |-> "none", n |-> 0]}
  /\ pc \in {"load", "select", "modelLine", "stdinLine", "end", "assert"}
  /\ size \in 0..nClusters /\ id \in 0..(NExamples + 1)
  /\ \A i \in DOMAIN out : out[i].ex \in 1..NExamples /\ out[i].id = i - 1

Init ==
  /\ modelIs \in {"stdin", "file", "pipe"} /\ nClusters \in K..MaxClusters
  /\ written = [s \in Sources |-> IF s = "model" /\ modelIs = "file" THEN nClusters ELSE 0]
  /\ closed = [s \in Sources |-> s = "model" /\ modelIs = "file"]
  /\ fetched = [s \in Sources |-> 0] /\ taken = fetched
  /\ eof = [s \in Sources |-> FALSE]
  /\ fds = Sources
  /\ line = [type |-> "none", n |-> 0]
  /\ pc = "load" /\ size = 0 /\ id = 0 /\ out = <<>>

-----------------------------------------------------------------------------
\* The other end of a pipe.
Write(s) ==
  /\ ~closed[s]
  /\ IF written[s] < Len(Lines(s))
     THEN written' = [written EXCEPT ![s] = @ + 1] /\ UNCHANGED closed
     ELSE closed' = [closed EXCEPT ![s] = TRUE] /\ UNCHANGED written
  /\ UNCHANGED <<argVars, fileVars, fds, pc, size, id, out>>

\* A line behind what has been taken comes into getline's buffer with as much of
\* what follows as there is.
Fetch(s) ==
  IF taken[s] < fetched[s] THEN fetched' = fetched
  ELSE \E upTo \in (taken[s] + 1)..written[s] : fetched' = [fetched EXCEPT ![s] = upTo]

\* getline and the type of the line.  The end of the input leaves the line of
\* before, from whichever input it was, and only then sets feof.  Slip: what is in
\* the buffer behind the line is thrown away.
TakeBlock(s, got) ==
  IF eof[s] THEN got = [type |-> "0", n |-> 0] /\ UNCHANGED fileVars
  ELSE \/ /\ Fetch(s)
          /\ got = Lines(s)[taken[s] + 1] /\ line' = got
          /\ taken' = [taken EXCEPT ![s] = fetched'[s]]
          /\ UNCHANGED eof
       \/ /\ closed[s] /\ taken[s] = Len(Lines(s))
          /\ eof' = [eof EXCEPT ![s] = TRUE]
          /\ got = line
          /\ UNCHANGED <<fetched, taken, line>>
Take(s, got) ==
  IF eof[s] THEN got = [type |-> "0", n |-> 0] /\ UNCHANGED fileVars
  ELSE \/ /\ Fetch(s)
          /\ got = Lines(s)[taken[s] + 1] /\ line' = got
          /\ taken' = [taken EXCEPT ![s] = @ + 1]
          /\ UNCHANGED eof
       \/ /\ closed[s] /\ taken[s] = Len(Lines(s))
          /\ eof' = [eof EXCEPT ![s] = TRUE]
          /\ got = line
          /\ UNCHANGED <<fetched, taken, line>>

Got == LineSet \cup {[type |-> t, n |-> 0] : t \in {"0", "none"}}

\* A cluster the model has is passed over.  Slip: it is added again.
AddAgain(got) == size' = IF got.type = "C" THEN size + 1 ELSE size
Add(got) == size' = IF got.type = "C" /\ size <= got.n THEN size + 1 ELSE size

\* The loop that reads a whole model.
Load ==
  /\ pc = "load" /\ size < K
  /\ \E got \in Got : /\ Take(modelFile, got)
                      /\ Add(got)
                      /\ pc' = IF got.type = "C" THEN pc ELSE "assert"
  /\ UNCHANGED <<inputVars, fds, id, out>>
Loaded ==
  /\ pc = "load" /\ size >= K
  /\ pc' = "select"
  /\ UNCHANGED <<inputVars, fileVars, fds, size, id, out>>

\* What select() sees: the kernel's buffer, or the end.
Ready(s) == written[s] > fetched[s] \/ closed[s]

Select ==
  /\ pc = "select" /\ ~eof["stdin"]
  /\ \E s \in fds : Ready(s)
  /\ fds' = {s \in fds : Ready(s)}
  /\ pc' = "modelLine"
  /\ UNCHANGED <<inputVars, fileVars, size, id, out>>

\* A line of the model, when it is ready and an input of its own.  Slip: its end
\* and the standard input are not looked for.
ModelLineAlways ==
  /\ pc = "modelLine"
  /\ IF modelFile \in fds
     THEN \E got \in Got :
            /\ Take(modelFile, got)
            /\ Add(got)
            /\ pc' = IF got.type = "C" THEN "stdinLine" ELSE "assert"
     ELSE pc' = "stdinLine" /\ UNCHANGED <<fileVars, size>>
  /\ UNCHANGED <<inputVars, fds, id, out>>
ModelLine ==
  /\ pc = "modelLine"
  /\ IF modelFile # "stdin" /\ modelFile \in fds /\ ~eof[modelFile]
     THEN \E got \in Got :
            /\ Take(modelFile, got)
            /\ Add(got)
            /\ pc' = IF got.type = "C" THEN "stdinLine" ELSE "assert"
     ELSE pc' = "stdinLine" /\ UNCHANGED <<fileVars, size>>
  /\ UNCHANGED <<inputVars, fds, id, out>>

\* An example is answered, with the count of examples as its id; when it is
\* unknown its values are printed too.
Answer(got) ==
  IF got.type = "E"
  THEN /\ id' = id + 1
       /\ \E unknown \in BOOLEAN :
            out' = Append(out, [id |-> id, ex |-> got.n, unknown |-> unknown])
  ELSE UNCHANGED <<id, out>>

StdinLine ==
  /\ pc = "stdinLine"
  /\ pc' = "select"
  /\ IF "stdin" \in fds
     THEN \E got \in Got : Take("stdin", got) /\ Add(got) /\ Answer(got)
     ELSE UNCHANGED <<fileVars, size, id, out>>
  /\ UNCHANGED <<inputVars, fds>>

End == /\ pc = "select" /\ eof["stdin"]
       /\ pc' = "end"
       /\ UNCHANGED <<inputVars, fileVars, fds, size, id, out>>

Program == Load \/ Loaded \/ Select \/ ModelLine \/ StdinLine \/ End
Stopped == pc \in {"end", "assert"} /\ UNCHANGED vars

Next == Program \/ (\E s \in Sources : Write(s)) \/ Stopped

\* The program runs, and the inputs come to their end.
Fairness == /\ WF_vars(Program)
            /\ \A s \in {"stdin", "model"} : WF_vars(s \in Sources /\ Write(s))

Spec == Init /\ [][Next]_vars /\ Fairness

-----------------------------------------------------------------------------
\* Examples are answered in the order of the input, none left out, and only the
\* last is answered again, when its input ends behind it.
InOrder ==
  \A i \in DOMAIN out :
    \/ out[i].ex = i
    \/ i = NExamples + 1 /\ out[i].ex = NExamples /\ eof["stdin"]

\* The model is a prefix of the clusters that were read, each in the place its id
\* says.
ModelIsPrefix == size <= taken[modelFile] /\ (pc # "load" => size >= K)

\* The program ends with all answers, or fails, or has been left without its
\* standard input by a select() that found only the model ready.
EndsUnlessDeaf ==
  <>[](\/ pc = "end" /\ Len(out) = NExamples + 1
       \/ pc = "assert"
       \/ "stdin" \notin fds)

\* The error "Expected cluster 'C'" (line 67) only comes at the end of a model that
\* has an input of its own and more than kParam clusters: then the line that
\* getline has left is an example of the other input.
ModelUnderstood ==
  pc = "assert" => /\ modelIs # "stdin" /\ nClusters > K
                   /\ eof["model"] /\ line.type = "E"

\* The invariant of the classifier.
Inv == TypeOK /\ InOrder /\ ModelIsPrefix /\ ModelUnderstood
=============================================================================
