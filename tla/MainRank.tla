------------------------------ MODULE MainRank ------------------------------
(***************************************************************************)
(* The state of rank 0 of the MPI program, src/src/threaded-mpi.c, and     *)
(* what its two threads do to it: the sampler adds clusters and gives out  *)
(* ids, the detector takes note of the answers of the classifiers.         *)
(***************************************************************************)
EXTENDS StreamInput

CONSTANT StackIds  \* values the uninitialised id of "example" can have

ASSUME StackAssumption ==
  StackIds \subseteq Nat /\ StackIds # {}

\* minasState of rank 0 and, as bookkeeping, its last novelty detection,
\* whether the buffer was ever at its limit after all, and whether the detector
\* has left on assert(nearest != NULL).
Root == [st : MinasState,
         round : [number : Nat, present : SUBSET Nat, consumed : SUBSET Nat,
                  collected : SUBSET Nat],
         full : BOOLEAN, failed : BOOLEAN]

EmptyRoot ==
  [st |-> EmptyState,
   round |-> [number |-> 0, present |-> {}, consumed |-> {}, collected |-> {}],
   full |-> FALSE, failed |-> FALSE]

-----------------------------------------------------------------------------
\* The sampler read a cluster line with a new id.  Lines carry 0, 1, 2, ... in
\* order; one whose id the model already has is passed over.
Lined(r, label, isSleep) ==
  [r EXCEPT !.st = AddCluster(@, [id |-> Len(@.model), label |-> label,
                                  latest |-> UInt(@.currId),
                                  isSleep |-> isSleep, novel |-> FALSE,
                                  touched |-> TouchedAt(@.currId)])]

\* The sampler gave the next id to an example.
Numbered(r) == [r EXCEPT !.st.nextId = @ + 1]

\* The end marker carries what "example" held last.
MarkerIds(r) == IF r.st.nextId = 0 THEN StackIds ELSE {r.st.nextId - 1}

\* Whatever the detector receives moves currId forward, never back.
Observed(r, id) == [r EXCEPT !.st.currId = IF id > @ THEN id ELSE @]

\* Outcomes of minasHandleUnknown on the state of rank 0.
Handled(r, id) ==
  LET s == Observed(r, id).st
  IN {[st |-> h.state,
       round |-> IF h.round
                   THEN [number |-> r.round.number + 1,
                         present |-> s.unknowns \cup {id},
                         consumed |-> h.consumed, collected |-> h.collected]
                   ELSE r.round,
       full |-> r.full \/ h.full,
       failed |-> h.failed] : h \in HandleUnknown(s, id)}
=============================================================================
