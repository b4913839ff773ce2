-------------------------------- MODULE StopFlag --------------------------------
(***************************************************************************)
(* scheduling/threads/thread_fairness.c and sleep_wake_thread.c: main      *)
(* creates threads that measure until a global flag is set, sets it after  *)
(* a while, joins the threads and reports what each of them measured.      *)
(*                                                                         *)
(* In thread_fairness.c a worker counts.  In sleep_wake_thread.c it counts *)
(* its sleeps and adds up by how much nanosleep oversleeps; load threads   *)
(* keep the CPU busy meanwhile.                                            *)
(*                                                                         *)
(* The flag is a volatile int that main writes while the threads read it;  *)
(* a result is plain memory that its thread writes, one field after the    *)
(* other, and main reads.  Only pthread_join orders main's reads after the *)
(* writes.  The memory comes from malloc and is Garbage at first.          *)
(***************************************************************************)
EXTENDS Integers

CONSTANTS
  NumWorkers,   \* num_threads, num_sleep_threads
  NumLoaders,   \* num_load_threads
  Interval,     \* SLEEP_INTERVAL_NS
  MaxJitter,    \* bound on what a nanosleep is measured to oversleep
  MaxCount,     \* bound on the rounds of a worker
  MaxFaults     \* bound on failing system calls

ASSUME SizeAssumption == NumWorkers \in Nat \ {0} /\ NumLoaders \in Nat
ASSUME TimeAssumption == Interval \in Nat /\ MaxJitter \in Nat
ASSUME BoundsAssumption == MaxCount \in Nat \ {0} /\ MaxFaults \in Nat

Workers == 1..NumWorkers
Threads == 1..(NumWorkers + NumLoaders)
Programs == {"thread_fairness", "sleep_wake_thread"}
Garbage == -1
NoReport == <<>>

VARIABLES
  program,           \* which of the two programs this is, never changed
  main, next,        \* program counter and loop index of main
  stop,              \* the global flag
  thread,            \* program counter of each thread
  jitter,            \* local variable of each worker
  total_jitter_ns,   \* field of each worker's result, sleep_wake_thread.c
  iterations,        \* field of each worker's result
  atStop,            \* history: iterations when main set the flag
  report,            \* the results as main read them
  faults

data == <<total_jitter_ns, iterations>>
vars == <<program, main, next, stop, thread, jitter, data, atStop, report,
          faults>>

\* The number of threads the program creates.
Last ==
  IF program = "thread_fairness" THEN NumWorkers ELSE NumWorkers + NumLoaders

Results == [w \in Workers |-> <<total_jitter_ns[w], iterations[w]>>]

Init ==
  /\ program \in Programs
  /\ main = "create"
  /\ next = 1
  /\ stop = FALSE
  /\ thread = [t \in Threads |-> "none"]
  /\ jitter = [w \in Workers |-> 0]
  /\ total_jitter_ns = [w \in Workers |-> Garbage]
  /\ iterations = [w \in Workers |-> Garbage]
  /\ atStop = NoReport
  /\ report = NoReport
  /\ faults = 0

------------------------------------------------------------------------------
(* main                                                                    *)

\* Variant: the data is left as malloc returned it.
CreateWorkerUnset ==
  /\ main = "create"
  /\ next \in Workers
  /\ thread' = [thread EXCEPT ![next] = "test"]
  /\ next' = next + 1
  /\ UNCHANGED <<program, main, stop, jitter, data, atStop, report, faults>>

CreateWorker ==
  /\ main = "create"
  /\ next \in Workers
  /\ total_jitter_ns' = [total_jitter_ns EXCEPT ![next] = 0]
  /\ iterations' = [iterations EXCEPT ![next] = 0]
  /\ thread' = [thread EXCEPT ![next] = "test"]
  /\ next' = next + 1
  /\ UNCHANGED <<program, main, stop, jitter, atStop, report, faults>>

CreateLoader ==
  /\ main = "create"
  /\ next > NumWorkers /\ next <= Last
  /\ thread' = [thread EXCEPT ![next] = "load"]
  /\ next' = next + 1
  /\ UNCHANGED <<program, main, stop, jitter, data, atStop, report, faults>>

\* malloc or pthread_create fails (RLIMIT_AS leaves room for few stacks):
\* exit, and the threads created so far end with the process.
CreateFails ==
  /\ main = "create"
  /\ next <= Last
  /\ faults < MaxFaults
  /\ faults' = faults + 1
  /\ main' = "failed"
  /\ thread' = [t \in Threads |->
                  IF thread[t] = "none" THEN "none" ELSE "killed"]
  /\ UNCHANGED <<program, next, stop, jitter, data, atStop, report>>

CreateDone ==
  /\ main = "create"
  /\ next > Last
  /\ main' = "sleep"
  /\ UNCHANGED <<program, next, stop, thread, jitter, data, atStop, report,
                 faults>>

\* Variant: main wakes up and forgets the flag.
WakeSetsNothing ==
  /\ main = "sleep"
  /\ atStop' = iterations
  /\ next' = 1
  /\ main' = "join"
  /\ UNCHANGED <<program, stop, thread, jitter, data, report, faults>>

\* sleep returns and main sets the flag.
Stop ==
  /\ main = "sleep"
  /\ stop' = TRUE
  /\ atStop' = iterations
  /\ next' = 1
  /\ main' = "join"
  /\ UNCHANGED <<program, thread, jitter, data, report, faults>>

\* Variant: only the load threads are joined.
JoinLoadersOnly ==
  /\ main = "join"
  /\ next <= Last
  /\ next > NumWorkers => thread[next] = "done"
  /\ next' = next + 1
  /\ UNCHANGED <<program, main, stop, thread, jitter, data, atStop, report,
                 faults>>

\* The workers are joined first, then the load threads.
JoinThread ==
  /\ main = "join"
  /\ next <= Last
  /\ thread[next] = "done"
  /\ next' = next + 1
  /\ UNCHANGED <<program, main, stop, thread, jitter, data, atStop, report,
                 faults>>

\* Main reads all results; sleep_wake_thread.c prints the average of those
\* with iterations > 0.
Report ==
  /\ main = "join"
  /\ next > Last
  /\ report' = Results
  /\ main' = "done"
  /\ UNCHANGED <<program, next, stop, thread, jitter, data, atStop, faults>>

------------------------------------------------------------------------------
(* thread_function and sleep_thread_function of worker w                   *)

\* while (!stop); MaxCount bounds how often the loop is entered.
TestStop(w) ==
  /\ thread[w] = "test"
  /\ \/ stop /\ thread' = [thread EXCEPT ![w] = "done"]
     \/ /\ ~stop /\ iterations[w] < MaxCount
        /\ thread' = [thread EXCEPT
             ![w] = IF program = "thread_fairness" THEN "count"
                    ELSE "nanosleep"]
  /\ UNCHANGED <<program, main, next, stop, jitter, data, atStop, report,
                 faults>>

\* Variant: a sleep measured too short counts as a negative delay.
SleepSigned(w) ==
  /\ thread[w] = "nanosleep"
  /\ \E elapsed \in 0..(Interval + MaxJitter) :
       jitter' = [jitter EXCEPT ![w] = elapsed - Interval]
  /\ thread' = [thread EXCEPT ![w] = "total"]
  /\ UNCHANGED <<program, main, next, stop, data, atStop, report, faults>>

\* nanosleep between two readings of the clock; only delays count.
Sleep(w) ==
  /\ thread[w] = "nanosleep"
  /\ \E elapsed \in 0..(Interval + MaxJitter) :
       jitter' = [jitter EXCEPT ![w] = IF elapsed < Interval THEN 0
                                       ELSE elapsed - Interval]
  /\ thread' = [thread EXCEPT ![w] = "total"]
  /\ UNCHANGED <<program, main, next, stop, data, atStop, report, faults>>

AddJitter(w) ==
  /\ thread[w] = "total"
  /\ total_jitter_ns' = [total_jitter_ns EXCEPT ![w] = @ + jitter[w]]
  /\ thread' = [thread EXCEPT ![w] = "count"]
  /\ UNCHANGED <<program, main, next, stop, jitter, iterations, atStop, report,
                 faults>>

\* Variant: the flag is read in every other round only.
CountTwice(w) ==
  /\ thread[w] = "count"
  /\ iterations' = [iterations EXCEPT ![w] = @ + 1]
  /\ thread' = [thread EXCEPT
                  ![w] = IF iterations[w] % 2 = 0 THEN "count" ELSE "test"]
  /\ UNCHANGED <<program, main, next, stop, jitter, total_jitter_ns, atStop,
                 report, faults>>

\* data->iterations++
Count(w) ==
  /\ thread[w] = "count"
  /\ iterations' = [iterations EXCEPT ![w] = @ + 1]
  /\ thread' = [thread EXCEPT ![w] = "test"]
  /\ UNCHANGED <<program, main, next, stop, jitter, total_jitter_ns, atStop,
                 report, faults>>

\* load_thread_function: while (!stop) counter++
EndLoad(t) ==
  /\ thread[t] = "load"
  /\ stop
  /\ thread' = [thread EXCEPT ![t] = "done"]
  /\ UNCHANGED <<program, main, next, stop, jitter, data, atStop, report,
                 faults>>

MainNext ==
  \/ CreateWorker \/ CreateLoader \/ CreateDone
  \/ Stop \/ JoinThread \/ Report

WorkerNext(w) == TestStop(w) \/ Sleep(w) \/ AddJitter(w) \/ Count(w)

Next ==
  \/ MainNext \/ CreateFails
  \/ \E w \in Workers : WorkerNext(w)
  \/ \E t \in Threads : EndLoad(t)

Spec == Init /\ [][Next]_vars

\* All threads share CPU 0 under the default policy, which starves nobody.
FairSpec ==
  /\ Spec
  /\ WF_vars(MainNext)
  /\ \A w \in Workers : WF_vars(WorkerNext(w))
  /\ \A t \in Threads : WF_vars(EndLoad(t))

------------------------------------------------------------------------------
(* Properties.                                                             *)

\* Every variable keeps its type; a worker that runs counts from zero, and no
\* delay is negative.
TypeOK ==
  /\ program \in Programs
  /\ main \in {"create", "sleep", "join", "done", "failed"}
  /\ next \in 1..(Last + 1)
  /\ stop \in BOOLEAN
  /\ thread \in [Threads -> {"none", "test", "nanosleep", "total", "count",
                             "load", "done", "killed"}]
  /\ jitter \in [Workers -> 0..MaxJitter]
  /\ total_jitter_ns \in [Workers -> Nat \union {Garbage}]
  /\ iterations \in [Workers -> 0..MaxCount \union {Garbage}]
  /\ \A w \in Workers :
       thread[w] # "none" =>
         total_jitter_ns[w] # Garbage /\ iterations[w] # Garbage
  /\ atStop \in {NoReport} \union [Workers -> 0..MaxCount]
  /\ report \in {NoReport} \union [Workers -> Nat \X (0..MaxCount)]
  /\ faults \in 0..MaxFaults

\* The workers see the flag late by one iteration at most, however main and
\* threads interleave: the comparison of the counters is fair to each thread.
LateByOneAtMost ==
  atStop # NoReport => \A w \in Workers : iterations[w] - atStop[w] <= 1

\* The average printed for a worker lies within the delays it measured: total
\* and count are read as a pair although they are written one after the other,
\* and a worker without a sleep has no total.
AverageInRange ==
  report # NoReport =>
    \A w \in Workers :
      LET total == report[w][1]
          count == report[w][2]
      IN  0 <= total /\ total <= MaxJitter * count

\* The invariant of the threads: types, and averages of what belongs together.
Inv == TypeOK /\ AverageInRange

Abstract == INSTANCE JoinedReport WITH
  result <- Results,
  finished <- {w \in Workers : thread[w] = "done"}

\* The report is made of final results: main reads none that its thread may
\* still change, although neither flag nor results are protected.
\* That is, the program implements JoinedReport.
ReportIsFinal == Abstract!Spec

\* The program ends, with its report or at a failing pthread_create, and no
\* thread outlives it.
Terminates ==
  <>(/\ main \in {"done", "failed"}
     /\ \A t \in Threads : thread[t] \in {"none", "done", "killed"})
==============================================================================
