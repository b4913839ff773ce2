------------------------------- MODULE ForkPipes -------------------------------
(***************************************************************************)
(* scheduling/process/process_fairness.c, ipc/ipc_pipe_latency.c and       *)
(* scheduling/process/sleep_wake_process.c: a parent makes a pipe and      *)
(* forks a worker N times, the worker measures for a while and writes its  *)
(* result as text, and the parent waits for all its children before it     *)
(* reads any pipe.  The first two programs are the same but for the        *)
(* scheduling policy: a worker counts in batches and the parent reports    *)
(* statistics.  In sleep_wake_process.c a worker counts its sleeps and     *)
(* adds up by how much they are late, the parent reports each result, and  *)
(* num_load_procs more children keep the CPU busy and write nothing.       *)
(*                                                                         *)
(* A pipe is created just before its worker is forked, and the parent      *)
(* closes its write ends only after the last fork: a child inherits both   *)
(* ends of every earlier pipe.  Process 0 is the parent.                   *)
(***************************************************************************)
EXTENDS Standalone

CONSTANTS
  N,           \* NUM_PROCS, num_sleep_procs
  LoadProcs,   \* bound on num_load_procs
  Batch,       \* iterations between two looks at the clock, 1000000
  Interval,    \* SLEEP_INTERVAL_NS, and the time the fastest batch takes
  Duration,    \* RUN_TIME, TEST_DURATION
  MaxDelay     \* bound on the delay of a batch or of a sleep

ASSUME SizeAssumption == N \in Nat \ {0} /\ LoadProcs \in Nat
ASSUME RoundAssumption ==
  Interval \in Nat \ {0} /\ Duration \in Nat \ {0} /\ MaxDelay \in Nat
ASSUME BatchAssumption == Batch \in Nat

Workers == 1..N
Children == 1..(N + LoadProcs)
Procs == {0} \union Children
Programs == {"counting", "sleep_wake_process"}
None == -1
Garbage == <<999>>  \* what the stack holds where counts[] is not yet written
Blank == 10         \* the separator of a text, which is no digit

VARIABLES
  num_load_procs,     \* argument of the program, never changed
  child,              \* program counter of each child
  readers, writers,   \* the processes that hold each pipe's read, write end
  data,               \* the texts in each pipe
  elapsed,            \* running time as each worker sees it, up to Duration
  result,             \* the fields each worker measures
  wrote,              \* history: the workers that wrote their result
  reaped,             \* how many children the parent has waited for
  counts,             \* the results as the parent read them
  stats               \* min, max and sum of the report

arguments == <<program, num_load_procs>>
pipes == <<readers, writers, data>>
work == <<elapsed, result, wrote>>
forkVars == <<arguments, main, i, child, pipes, work, reaped, counts, stats,
          faults>>

NumChildren == N + num_load_procs

MainPC == {"pipe", "fork", "load", "close", "wait", "read", "report", "done",
           "failed"}
ChildPC == {"none", "close", "work", "write", "exit", "ended"}
NoStats == [min |-> None, max |-> None, sum |-> None]

ForkInit ==
  /\ program \in Programs
  /\ num_load_procs \in 0..(IF program = "counting" THEN 0 ELSE LoadProcs)
  /\ main = "pipe"
  /\ i = 1
  /\ child = [c \in Children |-> "none"]
  /\ readers = [w \in Workers |-> {}]
  /\ writers = [w \in Workers |-> {}]
  /\ data = [w \in Workers |-> <<>>]
  /\ elapsed = [w \in Workers |-> 0]
  /\ result = [w \in Workers |-> <<>>]
  /\ wrote = {}
  /\ reaped = 0
  /\ counts = [w \in Workers |-> Garbage]
  /\ stats = NoStats
  /\ faults = 0

------------------------------------------------------------------------------
(* Numbers travel as decimal text.                                         *)

\* The digits of a number, as snprintf prints them.
Digits[n \in Nat] ==
  IF n < 10 THEN <<n>> ELSE Append(Digits[n \div 10], n % 10)

\* No worker measures more than this, a number of 64 bits: 20 digits at most.
Largest == N + Duration * (Batch + MaxDelay + 1) + MaxFaults
ASSUME DigitsAssumption == \A n \in 0..Largest : Len(Digits[n]) <= 20

\* The text of "%llu" for one field, of "%d %ld %ld" for three.
Text(fields) ==
  IF Len(fields) = 1 THEN Digits[fields[1]]
  ELSE Digits[fields[1]] \o <<Blank>> \o Digits[fields[2]] \o <<Blank>>
         \o Digits[fields[3]]

\* sizeof(buf) in parent and child.
BufSize == IF program = "counting" THEN 64 ELSE 128

\* What read leaves in the buffer.
Received(text) ==
  SubSeq(text, 1, IF Len(text) < BufSize THEN Len(text) ELSE BufSize - 1)

\* strtoull or sscanf: a digit extends the last field, a blank begins the next.
Scan(fields, c) ==
  IF c = Blank THEN Append(fields, 0)
  ELSE [fields EXCEPT ![Len(fields)] = 10 * @ + c]

Parse(text) == FoldLeft(Scan, <<0>>, text)

\* What the parent notes for an empty pipe: a count of 0, or no result.
NoData == IF program = "counting" THEN <<0>> ELSE <<>>

\* The loop over counts[] that computes the report.
Update(s, x) ==
  [min |-> IF x[1] < s.min THEN x[1] ELSE s.min,
   max |-> IF x[1] > s.max THEN x[1] ELSE s.max,
   sum |-> s.sum + x[1]]

Statistics(c) ==
  FoldLeft(Update, [min |-> c[1][1], max |-> c[1][1], sum |-> 0], c)

------------------------------------------------------------------------------
(* Descriptors.                                                            *)

Inherit(ends, c) ==
  [w \in Workers |-> IF 0 \in ends[w] THEN ends[w] \union {c} ELSE ends[w]]

CloseAll(ends, p) == [w \in Workers |-> ends[w] \ {p}]

ExitProcess(p) ==
  /\ readers' = CloseAll(readers, p)
  /\ writers' = CloseAll(writers, p)

------------------------------------------------------------------------------
(* The parent.                                                             *)

MakePipe ==
  /\ main = "pipe"
  /\ readers' = [readers EXCEPT ![i] = {0}]
  /\ writers' = [writers EXCEPT ![i] = {0}]
  /\ main' = "fork"
  /\ UNCHANGED <<i, child, data, work, reaped, counts, stats, faults>>

ForkWorker ==
  /\ main = "fork"
  /\ child' = [child EXCEPT ![i] = "close"]
  /\ readers' = Inherit(readers, i)
  /\ writers' = Inherit(writers, i)
  /\ i' = i + 1
  /\ main' = IF i < N THEN "pipe" ELSE "load"
  /\ UNCHANGED <<data, work, reaped, counts, stats, faults>>

\* The load children of sleep_wake_process.c close nothing.
ForkLoad ==
  /\ main = "load"
  /\ i <= NumChildren
  /\ child' = [child EXCEPT ![i] = "work"]
  /\ readers' = Inherit(readers, i)
  /\ writers' = Inherit(writers, i)
  /\ i' = i + 1
  /\ UNCHANGED <<main, data, work, reaped, counts, stats, faults>>

\* An unknown policy, or sched_setaffinity, setrlimit, malloc, pipe or fork
\* fails: exit(EXIT_FAILURE), the children forked so far run on.
SetupFails ==
  /\ main \in {"pipe", "fork", "load"}
  /\ main = "load" => i <= NumChildren
  /\ Fault
  /\ main' = "failed"
  /\ ExitProcess(0)
  /\ UNCHANGED <<i, child, data, work, reaped, counts, stats>>

\* Variant: the parent keeps its write ends.
CloseNothing ==
  /\ main = "load"
  /\ i > NumChildren
  /\ main' = "wait"
  /\ UNCHANGED <<i, child, pipes, work, reaped, counts, stats, faults>>

CloseWriteEnds ==
  /\ main = "load"
  /\ i > NumChildren
  /\ writers' = CloseAll(writers, 0)
  /\ main' = "wait"
  /\ UNCHANGED <<i, child, readers, data, work, reaped, counts, stats,
                 faults>>

EndedChildren == {c \in Children : child[c] = "ended"}

WaitOne ==
  /\ main = "wait"
  /\ reaped < Cardinality(EndedChildren)
  /\ reaped' = reaped + 1
  /\ UNCHANGED <<main, i, child, pipes, work, counts, stats, faults>>

\* Variant: as many waits as there are workers.
WaitForWorkersOnly ==
  /\ main = "wait"
  /\ reaped >= N
  /\ i' = 1
  /\ main' = "read"
  /\ UNCHANGED <<child, pipes, work, reaped, counts, stats, faults>>

\* Every child has been waited for.
AllWaited ==
  /\ main = "wait"
  /\ reaped = NumChildren
  /\ i' = 1
  /\ main' = "read"
  /\ UNCHANGED <<child, pipes, work, reaped, counts, stats, faults>>

\* read returns as soon as there is text, or no write end is left.
CanRead(w) == data[w] # <<>> \/ writers[w] = {}

\* Variant: no else branch for a pipe without a result.
ReadResultNoElse ==
  /\ main = "read"
  /\ i <= N
  /\ CanRead(i)
  /\ counts' = IF data[i] = <<>> THEN counts
               ELSE [counts EXCEPT ![i] = Parse(Received(Head(data[i])))]
  /\ data' = [data EXCEPT ![i] = IF @ = <<>> THEN @ ELSE Tail(@)]
  /\ readers' = [readers EXCEPT ![i] = @ \ {0}]
  /\ i' = i + 1
  /\ UNCHANGED <<main, child, writers, work, reaped, stats, faults>>

\* A result arrives whole or not at all, and its text has three fields: the
\* branch for a text that sscanf cannot take apart is never reached.
ReadResult ==
  /\ main = "read"
  /\ i <= N
  /\ CanRead(i)
  /\ counts' = [counts EXCEPT ![i] = IF data[i] = <<>> THEN NoData
                                     ELSE Parse(Received(Head(data[i])))]
  /\ data' = [data EXCEPT ![i] = IF @ = <<>> THEN @ ELSE Tail(@)]
  /\ readers' = [readers EXCEPT ![i] = @ \ {0}]
  /\ i' = i + 1
  /\ UNCHANGED <<main, child, writers, work, reaped, stats, faults>>

Report ==
  /\ main = "read"
  /\ i > N
  /\ stats' = IF program = "counting" THEN Statistics(counts) ELSE NoStats
  /\ main' = "done"
  /\ ExitProcess(0)
  /\ UNCHANGED <<i, child, data, work, reaped, counts, faults>>

------------------------------------------------------------------------------
(* The children.                                                           *)

\* Only the read end of the worker's own pipe is closed.
ChildClose(w) ==
  /\ child[w] = "close"
  /\ readers' = [readers EXCEPT ![w] = @ \ {w}]
  /\ result' = [result EXCEPT ![w] = IF program = "counting" THEN <<0>>
                                     ELSE <<w - 1, 0, 0>>]
  /\ child' = [child EXCEPT ![w] = "work"]
  /\ UNCHANGED <<main, i, writers, data, elapsed, wrote, reaped, counts,
                 stats, faults>>

\* A round of the timed loop has taken time t; the last one ends the loop.
Round(w, t) ==
  /\ child[w] = "work"
  /\ elapsed' = [elapsed EXCEPT ![w] = Min({@ + t, Duration})]
  /\ child' = [child EXCEPT ![w] =
                  IF elapsed'[w] = Duration THEN "write" ELSE "work"]
  /\ UNCHANGED <<main, i, pipes, wrote, reaped, counts, stats>>

CountBatch(w) ==
  /\ program = "counting"
  /\ \E late \in 0..MaxDelay : Round(w, Interval + late)
  /\ result' = [result EXCEPT ![w][1] = @ + Batch]
  /\ UNCHANGED faults

\* Variant: a sleep that ended early is deducted.
AddJitterSigned(w, t) ==
  result' = [result EXCEPT ![w][2] = @ + t - Interval, ![w][3] = @ + 1]

\* The measured sleep of time t goes into the result.
AddJitter(w, t) ==
  result' = [result EXCEPT ![w][2] = @ + (IF t < Interval THEN 0
                                          ELSE t - Interval),
                           ![w][3] = @ + 1]

Sleep(w) ==
  /\ program = "sleep_wake_process"
  /\ \E late \in 0..MaxDelay :
       Round(w, Interval + late) /\ AddJitter(w, Interval + late)
  /\ UNCHANGED faults

\* nanosleep fails or is interrupted: perror, and the test continues.
SleepFails(w) ==
  /\ program = "sleep_wake_process"
  /\ Fault
  /\ \E t \in 0..Interval : Round(w, t) /\ AddJitter(w, t)

\* The busy loop of a load child is over.  It has nothing to write.
LoadWork(c) ==
  /\ child[c] = "work"
  /\ child' = [child EXCEPT ![c] = "exit"]
  /\ UNCHANGED <<main, i, pipes, work, reaped, counts, stats, faults>>

\* One write of at most 128 bytes is atomic.
ChildWrite(w) ==
  /\ child[w] = "write"
  /\ readers[w] # {}
  /\ data' = [data EXCEPT ![w] = Append(@, Text(result[w]))]
  /\ wrote' = wrote \union {w}
  /\ child' = [child EXCEPT ![w] = "exit"]
  /\ UNCHANGED <<main, i, readers, writers, elapsed, result, reaped, counts,
                 stats, faults>>

\* The parent failed and nobody holds the read end.
ChildSigpipe(w) ==
  /\ child[w] = "write"
  /\ readers[w] = {}
  /\ child' = [child EXCEPT ![w] = "ended"]
  /\ ExitProcess(w)
  /\ UNCHANGED <<main, i, data, work, reaped, counts, stats, faults>>

\* write fails: perror, then close and exit as usual.
ChildWriteFails(w) ==
  /\ child[w] = "write"
  /\ Fault
  /\ child' = [child EXCEPT ![w] = "exit"]
  /\ UNCHANGED <<main, i, pipes, work, reaped, counts, stats>>

ChildExit(c) ==
  /\ child[c] = "exit"
  /\ child' = [child EXCEPT ![c] = "ended"]
  /\ ExitProcess(c)
  /\ UNCHANGED <<main, i, data, work, reaped, counts, stats, faults>>

\* The clock cannot be read and the child exits, or something kills it.
ChildDies(c) ==
  /\ child[c] \notin {"none", "ended"}
  /\ Fault
  /\ child' = [child EXCEPT ![c] = "ended"]
  /\ ExitProcess(c)
  /\ UNCHANGED <<main, i, data, work, reaped, counts, stats>>

------------------------------------------------------------------------------
MainNext ==
  \/ MakePipe \/ ForkWorker \/ ForkLoad \/ CloseWriteEnds
  \/ WaitOne \/ AllWaited \/ ReadResult \/ Report

WorkerNext(w) ==
  ChildClose(w) \/ CountBatch(w) \/ Sleep(w) \/ ChildWrite(w) \/ ChildSigpipe(w)

ChildNext(c) ==
  \/ c \in Workers /\ WorkerNext(c)
  \/ c \notin Workers /\ LoadWork(c)
  \/ ChildExit(c)

ForkNext ==
  /\ \/ MainNext
     \/ SetupFails
     \/ \E c \in Children : ChildNext(c) \/ ChildDies(c)
     \/ \E w \in Workers : ChildWriteFails(w) \/ SleepFails(w)
  /\ UNCHANGED arguments

ForkSpec == ForkInit /\ [][ForkNext]_forkVars

\* The children compete for the CPU, but each gets its share in the end: their
\* loops are bounded by the clock, and the kernel never stops one for ever.
ForkFairSpec ==
  /\ ForkSpec
  /\ WF_forkVars(MainNext /\ UNCHANGED arguments)
  /\ \A c \in Children : WF_forkVars(ChildNext(c) /\ UNCHANGED arguments)

------------------------------------------------------------------------------
(* Properties.                                                             *)

\* Every variable keeps its type, no pipe ever holds two results, and a worker
\* never measures a negative time.
ForkTypeOK ==
  /\ program \in Programs /\ num_load_procs \in 0..LoadProcs
  /\ main \in MainPC /\ i \in 1..(NumChildren + 1)
  /\ child \in [Children -> ChildPC]
  /\ readers \in [Workers -> SUBSET Procs]
  /\ writers \in [Workers -> SUBSET Procs]
  /\ \A w \in Workers : Len(data[w]) <= 1
  /\ elapsed \in [Workers -> 0..Duration]
  /\ \A w \in Workers : \A f \in DOMAIN result[w] : result[w][f] \in Nat
  /\ wrote \subseteq Workers
  /\ reaped \in 0..Cardinality(EndedChildren)
  /\ DOMAIN counts = Workers
  /\ main # "done" \/ program # "counting" => stats = NoStats
  /\ faults \in 0..MaxFaults

\* The parent's reads never block: every pipe still to be read holds its
\* result, or no process, the parent included, holds a write end of it.
ReadNeverBlocks ==
  main = "read" => \A w \in i..N : CanRead(w)

\* The parent reads and reports only when all children, load children included,
\* have ended: none of them disturbs the next benchmark.
NoneLeftBehind ==
  main \in {"read", "done"} => \A c \in 1..NumChildren : child[c] = "ended"

\* The invariant of the processes and their pipes: types, one result per pipe,
\* no blocking read, and no child left behind.
ForkInv == ForkTypeOK /\ ReadNeverBlocks /\ NoneLeftBehind

\* What the report has to say of worker w.
Measured(w) == IF w \in wrote THEN result[w] ELSE NoData

\* The report is made of what the workers measured: each result reaches its own
\* place, every field as the number it was before it became text; a worker that
\* wrote nothing is reported as 0 or not at all, never as garbage; a result has
\* at least one iteration, so that its average exists; and the printed minimum,
\* maximum and sum are those of the counts.
ReportFaithful ==
  LET Count(w) == Measured(w)[1]
      results  == {Count(w) : w \in Workers}
  IN  /\ main = "read" => \A w \in 1..(i - 1) : counts[w] = Measured(w)
      /\ main = "done" /\ program = "sleep_wake_process" =>
           \A w \in wrote : counts[w][3] > 0
      /\ main = "done" /\ program = "counting" =>
           stats = [min |-> Min(results), max |-> Max(results),
                    sum |-> MapThenSumSet(Count, Workers)]

\* Whatever fails or is killed, parent and children all end: no process waits
\* for ever on a pipe whose other ends are spread over its siblings.
EverybodyEnds ==
  <>(/\ main \in {"done", "failed"}
     /\ \A c \in Children : child[c] \in {"none", "ended"})
==============================================================================
