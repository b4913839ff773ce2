------------------------------- MODULE Timespec -------------------------------
(***************************************************************************)
(* struct timespec and the arithmetic that the scheduling benchmarks do    *)
(* with it.  A time is a number of nanoseconds or a record of seconds and  *)
(* nanoseconds; the record is what clock_gettime returns and what          *)
(* clock_nanosleep accepts as long as tv_nsec is below one second.         *)
(***************************************************************************)
EXTENDS Integers

CONSTANT NsecPerSec   \* NSEC_PER_SEC

ASSUME NsecPerSecAssumption == NsecPerSec \in Nat \ {0}

Timespecs == [tv_sec : Nat, tv_nsec : 0..(NsecPerSec - 1)]

Ns(t) == t.tv_sec * NsecPerSec + t.tv_nsec

\* clock_gettime at time n.
OfNs(n) == [tv_sec |-> n \div NsecPerSec, tv_nsec |-> n % NsecPerSec]

\* t plus ns nanoseconds, in max_latency_scheduling.c and, written out in the
\* loop, in deterministic_latency.c.
timespec_add(t, ns) ==
  LET nsec == t.tv_nsec + ns
  IN  IF nsec >= NsecPerSec
      THEN [tv_sec |-> t.tv_sec + nsec \div NsecPerSec,
            tv_nsec |-> nsec % NsecPerSec]
      ELSE [t EXCEPT !.tv_nsec = nsec]

\* The same for at most one second, as measure_jitter.c does it.
AddPeriod(t, ns) ==
  LET nsec == t.tv_nsec + ns
  IN  IF nsec >= NsecPerSec
      THEN [tv_sec |-> t.tv_sec + 1, tv_nsec |-> nsec - NsecPerSec]
      ELSE [t EXCEPT !.tv_nsec = nsec]

\* Variant: the seconds are left out.
timespec_diff_nsec_only(end, start) == end.tv_nsec - start.tv_nsec

timespec_diff_ns(end, start) ==
  (end.tv_sec - start.tv_sec) * NsecPerSec + (end.tv_nsec - start.tv_nsec)

Abs(x) == IF x < 0 THEN -x ELSE x
Larger(x, y) == IF x > y THEN x ELSE y
==============================================================================
