---------------------------- MODULE PeriodicWakeup ----------------------------
(***************************************************************************)
(* scheduling/latency/max_latency_scheduling.c, measure_jitter.c and       *)
(* deterministic_latency.c: a real-time thread (the meter) sleeps until a  *)
(* deadline that advances by one period per round, and records the largest *)
(* distance between the deadline and the time it reads when it runs.       *)
(*                                                                         *)
(* measure_jitter.c does so Runs times, with deadlines of their own, and   *)
(* averages the maxima.  In deterministic_latency.c the meter is a thread  *)
(* that main creates after some load threads, and when it has measured it  *)
(* clears a volatile int, which ends them.  In the other two programs the  *)
(* meter is main itself.                                                   *)
(*                                                                         *)
(* The clock is a number of nanoseconds and moves while the meter sleeps   *)
(* or waits for the CPU; a second has NsecPerSec of them.                  *)
(***************************************************************************)
EXTENDS Timespec

CONSTANTS
  Period,        \* PERIOD_NS
  Iterations,    \* ITERATIONS
  Runs,          \* RUNS of measure_jitter.c
  LoadThreads,   \* LOAD_THREADS of deterministic_latency.c
  MaxStart,      \* bound on the clock when the program starts
  MaxLate,       \* bound on how late the meter runs after its deadline
  MaxFaults      \* bound on failing system calls

ASSUME PeriodAssumption == Period \in 1..NsecPerSec
ASSUME SizeAssumption ==
  Iterations \in Nat \ {0} /\ Runs \in Nat \ {0} /\ LoadThreads \in Nat
ASSUME BoundsAssumption ==
  MaxStart \in Nat /\ MaxLate \in Nat /\ MaxFaults \in Nat

Programs == {"max_latency", "measure_jitter", "deterministic_latency"}
Loaders == 1..LoadThreads

VARIABLES
  program,                 \* which of the programs this is, never changed
  main, created, joined,   \* program counter and loop indices of main
  running,                 \* the global flag of deterministic_latency.c
  loader,                  \* program counter of each load thread
  meter,                   \* program counter of the meter
  clock,                   \* CLOCK_MONOTONIC, in nanoseconds
  start,                   \* history: what the deadlines are computed from
  next,                    \* the deadline, a timespec
  i, max_latency,          \* rounds of this measurement, their maximum
  r, sum,                  \* finished measurements, the sum of their maxima
  faults

mainVars == <<main, created, joined>>
sample == <<start, next, i, max_latency>>
total == <<r, sum>>
vars == <<program, mainVars, running, loader, meter, clock, sample, total,
          faults>>

NumLoaders == IF program = "deterministic_latency" THEN LoadThreads ELSE 0
NumRuns == IF program = "measure_jitter" THEN Runs ELSE 1

\* Each program's own addition of a period.
Advance(t) ==
  IF program = "measure_jitter" THEN AddPeriod(t, Period)
  ELSE timespec_add(t, Period)

Init ==
  /\ program \in Programs
  /\ main = "setup" /\ created = 0 /\ joined = 0
  /\ running = TRUE
  /\ loader = [t \in Loaders |-> "none"]
  /\ meter = "none"
  /\ clock \in 0..MaxStart
  /\ start = clock
  /\ next = [tv_sec |-> 0, tv_nsec |-> 0]
  /\ i = 0 /\ max_latency = 0
  /\ r = 0 /\ sum = 0
  /\ faults = 0

------------------------------------------------------------------------------
(* main                                                                    *)

CreateLoader ==
  /\ main = "setup"
  /\ created < NumLoaders
  /\ created' = created + 1
  /\ loader' = [loader EXCEPT ![created'] = "test"]
  /\ UNCHANGED <<program, main, joined, running, meter, clock, sample, total,
                 faults>>

\* Variant: the real-time thread is created before the load threads.
StartMeterFirst ==
  /\ main = "setup"
  /\ meter = "none"
  /\ meter' = "begin"
  /\ main' = IF created = NumLoaders THEN "run" ELSE "setup"
  /\ UNCHANGED <<program, created, joined, running, loader, clock, sample,
                 total, faults>>

\* The setup is complete: the meter starts, in deterministic_latency.c as a
\* thread of its own.
StartMeter ==
  /\ main = "setup"
  /\ created = NumLoaders
  /\ meter' = "begin"
  /\ main' = "run"
  /\ UNCHANGED <<program, created, joined, running, loader, clock, sample,
                 total, faults>>

Live(pc) == pc \notin {"none", "done"}

\* A call of the setup fails (affinity, rlimit, policy or pthread_create):
\* exit, and the load threads created so far end with the process.
SetupFails ==
  /\ main = "setup"
  /\ faults < MaxFaults
  /\ faults' = faults + 1
  /\ main' = "failed"
  /\ loader' = [t \in Loaders |->
                  IF Live(loader[t]) THEN "killed" ELSE loader[t]]
  /\ UNCHANGED <<program, created, joined, running, meter, clock, sample,
                 total>>

\* The meter is done, or has been joined.
JoinMeter ==
  /\ main = "run"
  /\ meter = "done"
  /\ main' = "join"
  /\ UNCHANGED <<program, created, joined, running, loader, meter, clock,
                 sample, total, faults>>

JoinLoader ==
  /\ main = "join"
  /\ joined < NumLoaders
  /\ loader[joined + 1] = "done"
  /\ joined' = joined + 1
  /\ UNCHANGED <<program, main, created, running, loader, meter, clock, sample,
                 total, faults>>

Return ==
  /\ main = "join"
  /\ joined = NumLoaders
  /\ main' = "done"
  /\ UNCHANGED <<program, created, joined, running, loader, meter, clock,
                 sample, total, faults>>

------------------------------------------------------------------------------
(* load_thread t                                                           *)

TestRunning(t) ==
  /\ loader[t] = "test"
  /\ loader' = [loader EXCEPT ![t] = IF running THEN "work" ELSE "done"]
  /\ UNCHANGED <<program, mainVars, running, meter, clock, sample, total,
                 faults>>

\* The busy loop and usleep(100).
Work(t) ==
  /\ loader[t] = "work"
  /\ loader' = [loader EXCEPT ![t] = "test"]
  /\ UNCHANGED <<program, mainVars, running, meter, clock, sample, total,
                 faults>>

------------------------------------------------------------------------------
(* The meter.                                                              *)

\* Variant: a measurement goes on with the deadlines of the one before.
BeginFromOldDeadline ==
  /\ meter = "begin"
  /\ start' = clock
  /\ next' = Advance(IF r = 0 THEN OfNs(clock) ELSE next)
  /\ i' = 0
  /\ max_latency' = 0
  /\ meter' = "sleep"
  /\ UNCHANGED <<program, mainVars, running, loader, clock, total, faults>>

\* clock_gettime, and the first deadline.
Begin ==
  /\ meter = "begin"
  /\ start' = clock
  /\ next' = Advance(OfNs(clock))
  /\ i' = 0
  /\ max_latency' = 0
  /\ meter' = "sleep"
  /\ UNCHANGED <<program, mainVars, running, loader, clock, total, faults>>

\* clock_nanosleep(TIMER_ABSTIME) returns at the deadline or later, and the
\* meter runs; with tv_nsec out of range it would return at once.
Wake ==
  /\ meter = "sleep"
  /\ LET due == IF next \in Timespecs THEN Larger(clock, Ns(next)) ELSE clock
     IN  clock' \in due..(due + MaxLate)
  /\ meter' = "measure"
  /\ UNCHANGED <<program, mainVars, running, loader, sample, total, faults>>

\* Variant: an error of TimerTimeout ends the thread, not just the loop.
SleepFailsReturn ==
  /\ meter = "sleep"
  /\ faults < MaxFaults
  /\ faults' = faults + 1
  /\ clock' \in clock..Larger(clock, Ns(next))
  /\ meter' = "done"
  /\ UNCHANGED <<program, mainVars, running, loader, sample, total>>

\* The sleep fails, at the deadline at the latest.  measure_jitter.c and the
\* QNX branch of deterministic_latency.c leave the loop; the others take the
\* sample all the same.
SleepFails ==
  /\ meter = "sleep"
  /\ faults < MaxFaults
  /\ faults' = faults + 1
  /\ clock' \in clock..Larger(clock, Ns(next))
  /\ \/ program # "max_latency" /\ meter' = "end"
     \/ program # "measure_jitter" /\ meter' = "measure"
  /\ UNCHANGED <<program, mainVars, running, loader, sample, total>>

\* Variant: the deadline is one period from now.
MeasureFromNow ==
  /\ meter = "measure"
  /\ LET latency == Abs(timespec_diff_ns(OfNs(clock), next))
     IN  max_latency' = Larger(latency, max_latency)
  /\ i' = i + 1
  /\ IF i' < Iterations
     THEN next' = Advance(OfNs(clock)) /\ meter' = "sleep"
     ELSE meter' = "end" /\ UNCHANGED next
  /\ UNCHANGED <<program, mainVars, running, loader, clock, start, total,
                 faults>>

\* clock_gettime, the latency and its maximum, and the next deadline.  (After
\* its last round max_latency_scheduling.c computes one that it never uses.)
Measure ==
  /\ meter = "measure"
  /\ LET latency == Abs(timespec_diff_ns(OfNs(clock), next))
     IN  max_latency' = Larger(latency, max_latency)
  /\ i' = i + 1
  /\ IF i' < Iterations
     THEN next' = Advance(next) /\ meter' = "sleep"
     ELSE meter' = "end" /\ UNCHANGED next
  /\ UNCHANGED <<program, mainVars, running, loader, clock, start, total,
                 faults>>

\* The maximum is reported, and running = 0 in deterministic_latency.c; in
\* measure_jitter.c it is added to the sum, and the next measurement begins.
End ==
  /\ meter = "end"
  /\ r' = r + 1
  /\ sum' = sum + max_latency
  /\ running' = (program # "deterministic_latency")
  /\ meter' = IF r' < NumRuns THEN "begin" ELSE "done"
  /\ UNCHANGED <<program, mainVars, loader, clock, sample, faults>>

MainNext == CreateLoader \/ StartMeter \/ JoinMeter \/ JoinLoader \/ Return
LoaderNext(t) == TestRunning(t) \/ Work(t)
MeterNext == Begin \/ Wake \/ Measure \/ End

Next ==
  \/ MainNext \/ SetupFails
  \/ \E t \in Loaders : LoaderNext(t)
  \/ MeterNext \/ SleepFails

Spec == Init /\ [][Next]_vars

\* The meter runs when its sleep ends; it sleeps most of the time, so the other
\* threads, under the default policy, all get to run.
FairSpec ==
  /\ Spec
  /\ WF_vars(MainNext)
  /\ WF_vars(MeterNext)
  /\ \A t \in Loaders : WF_vars(LoaderNext(t))

------------------------------------------------------------------------------
(* Properties.                                                             *)

\* Every variable keeps its type; the deadline is one clock_nanosleep accepts.
TypeOK ==
  /\ program \in Programs
  /\ main \in {"setup", "run", "join", "done", "failed"}
  /\ created \in 0..NumLoaders /\ joined \in 0..NumLoaders
  /\ running \in BOOLEAN
  /\ loader \in [Loaders -> {"none", "test", "work", "done", "killed"}]
  /\ meter \in {"none", "begin", "sleep", "measure", "end", "done"}
  /\ clock \in Nat /\ start \in Nat
  /\ next \in Timespecs
  /\ i \in 0..Iterations /\ max_latency \in Nat
  /\ r \in 0..NumRuns /\ sum \in Nat
  /\ faults \in 0..MaxFaults

\* The latency is measured under the intended load, from the first sample to
\* the last: every load thread runs as long as the meter measures.
LoadWhileMeasuring ==
  meter \in {"sleep", "measure"} =>
    \A t \in 1..NumLoaders : loader[t] \in {"test", "work"}

\* The invariant of the threads: types, and the load.
Inv == TypeOK /\ LoadWhileMeasuring

\* The deadlines do not drift: however late the earlier rounds were, and
\* wherever a second ends, the deadline is a whole number of periods after the
\* start.
NoDrift ==
  meter \in {"sleep", "measure"} => Ns(next) = start + (i + 1) * Period

\* What n rounds can be late: each late round adds what it is later than a
\* period to a backlog, and nothing else does.
Backlog(n) == Larger(MaxLate, MaxLate + (n - 1) * (MaxLate - Period))

\* A reported maximum above MaxLate has its reason in the same measurement: no
\* lateness is inherited from the one before, so the average has the bound too.
\* (A sleep that fails is early, which counts as latency.)  And no sample is
\* missing as long as no sleep fails.
BacklogBounded ==
  faults = 0 =>
    /\ max_latency <= Backlog(i)
    /\ sum <= r * Backlog(Iterations)
    /\ meter = "end" => i = Iterations

Sampler == INSTANCE PeriodicSampler WITH
  time <- clock,
  samples <- i,
  worst <- max_latency

\* The programs measure what they promise: the exact largest distance to the
\* fixed deadlines, early wake-ups included.
MeasuresLatency == Sampler!Spec

\* The program ends: the flag reaches every load thread, also when the timer
\* fails and the measurement breaks off.
Terminates ==
  <>(/\ main \in {"done", "failed"}
     /\ \A t \in Loaders : loader[t] \in {"none", "done", "killed"})
==============================================================================
