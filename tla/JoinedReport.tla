----------------------------- MODULE JoinedReport -----------------------------
(***************************************************************************)
(* What a benchmark that stops its threads by a flag promises: each worker *)
(* keeps its own result up to date while it runs, and the report is made   *)
(* of the results that are final, once all workers have finished.          *)
(*                                                                         *)
(* thread_fairness.c and sleep_wake_thread.c implement it with a volatile  *)
(* int, unprotected data and pthread_join.                                 *)
(***************************************************************************)
CONSTANTS
  Workers,
  NoReport

VARIABLES
  result,     \* each worker's result
  finished,   \* the workers that touch their result no more
  report      \* the results as published, or NoReport

vars == <<result, finished, report>>

Init ==
  /\ DOMAIN result = Workers
  /\ finished = {}
  /\ report = NoReport

\* A worker that runs changes its own result only.
Work(w) ==
  /\ w \notin finished
  /\ result' = [result EXCEPT ![w] = result'[w]]
  /\ UNCHANGED <<finished, report>>

Finish(w) ==
  /\ finished' = finished \union {w}
  /\ UNCHANGED <<result, report>>

Publish ==
  /\ report = NoReport
  /\ finished = Workers
  /\ report' = result
  /\ UNCHANGED <<result, finished>>

Next ==
  \/ \E w \in Workers : Work(w) \/ Finish(w)
  \/ Publish

Spec == Init /\ [][Next]_vars
==============================================================================
