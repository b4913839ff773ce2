--------------------------- MODULE PeriodicSampler ---------------------------
(***************************************************************************)
(* What a wake-up latency benchmark promises to measure.                   *)
(*                                                                         *)
(* Sample k of a measurement belongs to the deadline start + k * Period:   *)
(* deadlines are fixed when the measurement starts and do not move when a  *)
(* sample is late.  The benchmark wants the largest distance between a     *)
(* deadline and the time at which the program ran for it, in exact         *)
(* nanoseconds.                                                            *)
(*                                                                         *)
(* max_latency_scheduling.c, measure_jitter.c and deterministic_latency.c  *)
(* implement it with struct timespec arithmetic.                           *)
(***************************************************************************)
EXTENDS Integers

CONSTANT Period

VARIABLES
  time,      \* the clock
  start,     \* when the measurement started
  samples,   \* samples taken
  worst      \* the largest distance so far

vars == <<time, start, samples, worst>>

Distance(x, y) == IF x < y THEN y - x ELSE x - y

Init ==
  /\ time \in Nat
  /\ start = time
  /\ samples = 0
  /\ worst = 0

Wait ==
  /\ time' >= time
  /\ UNCHANGED <<start, samples, worst>>

Sample ==
  /\ samples' = samples + 1
  /\ LET distance == Distance(time, start + samples' * Period)
     IN  worst' = IF distance > worst THEN distance ELSE worst
  /\ UNCHANGED <<time, start>>

\* The next measurement.
Restart ==
  /\ start' = time
  /\ samples' = 0
  /\ worst' = 0
  /\ UNCHANGED time

Next == Wait \/ Sample \/ Restart

Spec == Init /\ [][Next]_vars
==============================================================================
