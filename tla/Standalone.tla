------------------------------ MODULE Standalone ------------------------------
(***************************************************************************)
(* What the models of the stand-alone programs share: which program it is, *)
(* the program counter and the loop index of its main, and the failures    *)
(* so far.  StandaloneRuns composes those that are checked together;       *)
(* ForkPipes is checked on its own.                                        *)
(***************************************************************************)
EXTENDS Integers, FiniteSets, SequencesExt

CONSTANT MaxFaults   \* bound on failing system calls

ASSUME FaultsAssumption == MaxFaults \in Nat

VARIABLES
  program,    \* the program that is run
  main,       \* program counter of its main
  i,          \* loop index of its main
  faults

shared == <<program, main, i, faults>>

Ended == {"done", "failed", "aborted", "killed"}

Fault == faults < MaxFaults /\ faults' = faults + 1

GoTo(from, to) == main = from /\ main' = to

\* The end of a round of for (i = 0; i < n; i++) {...}; after the last round
\* main goes on at next.
EndRound(n, next) ==
  /\ i' = IF i + 1 < n THEN i + 1 ELSE 0
  /\ main' = IF i + 1 < n THEN main ELSE next
==============================================================================
