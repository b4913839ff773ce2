------------------------- MODULE PeriodicWakeupProofs -------------------------
(***************************************************************************)
(* The wake-up latency programs measure what they promise, for every       *)
(* length of a second, every period up to a second, and any number of      *)
(* rounds, measurements and load threads: their deadlines stay valid and   *)
(* do not drift, the load lasts as long as a measurement, and they         *)
(* implement PeriodicSampler.                                              *)
(***************************************************************************)
EXTENDS PeriodicWakeup, TLAPS

------------------------------------------------------------------------------
(* The timespec arithmetic is exact and keeps tv_nsec in range, for every   *)
(* length of a second and every time.                                      *)

\* Quotient and remainder, as the carry into the seconds uses them.
LEMMA DivMod ==
  ASSUME NEW n \in Nat
  PROVE  /\ n \div NsecPerSec \in Nat
         /\ n % NsecPerSec \in 0..(NsecPerSec - 1)
         /\ (n \div NsecPerSec) * NsecPerSec + (n % NsecPerSec) = n
<1>1. NsecPerSec \in Nat /\ NsecPerSec > 0
  BY NsecPerSecAssumption
<1>2. n % NsecPerSec \in 0..(NsecPerSec - 1)
  BY <1>1
<1>3. n \div NsecPerSec \in Int
  BY <1>1
<1>4. (n \div NsecPerSec) * NsecPerSec + (n % NsecPerSec) = n
  BY <1>1, <1>3
<1>5. n \div NsecPerSec >= 0
  BY <1>1, <1>2, <1>3, <1>4
<1> QED BY <1>2, <1>3, <1>4, <1>5

\* A timespec stands for a natural number of nanoseconds.
LEMMA NsType ==
  ASSUME NEW t \in Timespecs
  PROVE  Ns(t) \in Nat
<1>1. NsecPerSec \in Nat /\ NsecPerSec > 0
  BY NsecPerSecAssumption
<1>2. t.tv_sec \in Nat /\ t.tv_nsec \in Nat
  BY <1>1 DEF Timespecs
<1>3. t.tv_sec * NsecPerSec \in Nat
  BY <1>1, <1>2
<1> QED BY <1>2, <1>3 DEF Ns

\* clock_gettime returns a valid timespec for the time it is called at.
LEMMA OfNsExact ==
  ASSUME NEW n \in Nat
  PROVE  OfNs(n) \in Timespecs /\ Ns(OfNs(n)) = n
BY DivMod DEF OfNs, Ns, Timespecs

\* timespec_add adds exactly and normalises, whatever is added.
LEMMA AddExact ==
  ASSUME NEW t \in Timespecs, NEW ns \in Nat
  PROVE  /\ timespec_add(t, ns) \in Timespecs
         /\ Ns(timespec_add(t, ns)) = Ns(t) + ns
<1> DEFINE nsec == t.tv_nsec + ns
<1> DEFINE N == NsecPerSec
<1>1. N \in Nat /\ N > 0
  BY NsecPerSecAssumption
<1>2. t.tv_sec \in Nat /\ t.tv_nsec \in 0..(N - 1) /\ nsec \in Nat
  BY <1>1 DEF Timespecs
<1>3. CASE nsec >= N
  <2>1. PICK q \in Nat, m \in 0..(N - 1) :
          nsec \div N = q /\ nsec % N = m /\ q * N + m = nsec
    BY <1>2, DivMod
  <2>2. timespec_add(t, ns) = [tv_sec |-> t.tv_sec + q, tv_nsec |-> m]
    BY <1>3, <2>1 DEF timespec_add
  <2>3. (t.tv_sec + q) * N + m = t.tv_sec * N + nsec
    <3>1. PICK s \in Nat, c \in Nat : t.tv_sec = s /\ N = c
      BY <1>1, <1>2
    <3>2. (s + q) * c = s * c + q * c
      BY ONLY s \in Nat, c \in Nat, q \in Nat
    <3>3. s * c \in Nat /\ q * c \in Nat /\ m \in Nat
      BY <1>1, <3>1
    <3> QED BY <1>2, <2>1, <3>1, <3>2, <3>3
  <2>4. Ns(timespec_add(t, ns)) = t.tv_sec * N + nsec
    BY <2>2, <2>3 DEF Ns
  <2>5. t.tv_sec * N \in Nat
    BY <1>1, <1>2
  <2>6. Ns(t) + ns = t.tv_sec * N + nsec
    BY <1>1, <1>2, <2>5 DEF Ns
  <2>7. timespec_add(t, ns) \in Timespecs
    BY <1>2, <2>2 DEF Timespecs
  <2> QED BY <2>4, <2>6, <2>7
<1>4. CASE ~(nsec >= N)
  <2>1. timespec_add(t, ns) = [tv_sec |-> t.tv_sec, tv_nsec |-> nsec]
    BY <1>4 DEF timespec_add, Timespecs
  <2>2. nsec \in 0..(N - 1)
    BY <1>1, <1>2, <1>4
  <2>3. t.tv_sec * N \in Nat
    BY <1>1, <1>2
  <2>4. Ns(t) + ns = t.tv_sec * N + nsec
    BY <1>2, <2>3 DEF Ns
  <2> QED BY <1>2, <2>1, <2>2, <2>4 DEF Ns, Timespecs
<1> QED BY <1>3, <1>4

\* The subtraction of one second in measure_jitter.c does the same for a period
\* of at most one second.
LEMMA AddPeriodExact ==
  ASSUME NEW t \in Timespecs, NEW ns \in 0..NsecPerSec
  PROVE  /\ AddPeriod(t, ns) \in Timespecs
         /\ Ns(AddPeriod(t, ns)) = Ns(t) + ns
<1> DEFINE nsec == t.tv_nsec + ns
<1>1. NsecPerSec \in Nat /\ NsecPerSec > 0
  BY NsecPerSecAssumption
<1>2. t.tv_sec \in Nat /\ t.tv_nsec \in 0..(NsecPerSec - 1) /\ nsec \in Nat
  BY <1>1 DEF Timespecs
<1>3. t.tv_sec * NsecPerSec \in Nat
  BY <1>1, <1>2
<1>4. (t.tv_sec + 1) * NsecPerSec = t.tv_sec * NsecPerSec + NsecPerSec
  BY <1>1, <1>2
<1>5. CASE nsec >= NsecPerSec
  <2>1. AddPeriod(t, ns) =
          [tv_sec |-> t.tv_sec + 1, tv_nsec |-> nsec - NsecPerSec]
    BY <1>5 DEF AddPeriod
  <2>2. nsec - NsecPerSec \in 0..(NsecPerSec - 1)
    BY <1>1, <1>2, <1>5
  <2> QED BY <1>1, <1>2, <1>3, <1>4, <2>1, <2>2 DEF Ns, Timespecs
<1>6. CASE ~(nsec >= NsecPerSec)
  <2>1. AddPeriod(t, ns) = [tv_sec |-> t.tv_sec, tv_nsec |-> nsec]
    BY <1>6 DEF AddPeriod, Timespecs
  <2>2. nsec \in 0..(NsecPerSec - 1)
    BY <1>1, <1>2, <1>6
  <2> QED BY <1>1, <1>2, <1>3, <2>1, <2>2 DEF Ns, Timespecs
<1> QED BY <1>5, <1>6

\* timespec_diff_ns is the difference in nanoseconds, negative ones included.
LEMMA DiffExact ==
  ASSUME NEW a \in Timespecs, NEW b \in Timespecs
  PROVE  timespec_diff_ns(a, b) = Ns(a) - Ns(b)
<1>1. NsecPerSec \in Nat /\ NsecPerSec > 0
  BY NsecPerSecAssumption
<1>2. /\ a.tv_sec \in Nat /\ a.tv_nsec \in Nat
      /\ b.tv_sec \in Nat /\ b.tv_nsec \in Nat
  BY <1>1 DEF Timespecs
<1>3. (a.tv_sec - b.tv_sec) * NsecPerSec
        = a.tv_sec * NsecPerSec - b.tv_sec * NsecPerSec
  BY <1>1, <1>2
<1>4. a.tv_sec * NsecPerSec \in Nat /\ b.tv_sec * NsecPerSec \in Nat
  BY <1>1, <1>2
<1> QED BY <1>2, <1>3, <1>4 DEF timespec_diff_ns, Ns

------------------------------------------------------------------------------
(* The programs.                                                           *)

\* Before the meter starts, nothing has been measured.
Untouched ==
  meter = "none" => start = clock /\ i = 0 /\ max_latency = 0 /\ r = 0

\* main and the meter: who runs when, and that a round or a measurement is
\* only begun while there are any left.
Control ==
  /\ main \in {"setup", "failed"} <=> meter = "none"
  /\ meter \in {"sleep", "measure"} => i < Iterations
  /\ meter \in {"begin", "sleep", "measure", "end"} => r < NumRuns

\* The load threads are created in the order of their indices, and only the
\* meter's last step ends them.
LoadInv ==
  /\ main = "setup" =>
       \A t \in Loaders : loader[t] = "none" <=> t > created
  /\ main \notin {"setup", "failed"} =>
       \A t \in 1..NumLoaders : loader[t] # "none"
  /\ meter # "done" => running
  /\ running => \A t \in Loaders : loader[t] # "done"
  /\ main # "failed" => \A t \in Loaders : loader[t] # "killed"

\* TypeOK and NoDrift, and what makes them inductive.
IInv == TypeOK /\ NoDrift /\ Untouched /\ Control /\ LoadInv

LEMMA ConstantTypes ==
  /\ NsecPerSec \in Nat /\ NsecPerSec > 0
  /\ Period \in Nat /\ Period > 0 /\ Period <= NsecPerSec
  /\ Iterations \in Nat /\ Iterations > 0
  /\ Runs \in Nat /\ Runs > 0
  /\ LoadThreads \in Nat
  /\ MaxStart \in Nat /\ MaxLate \in Nat /\ MaxFaults \in Nat
BY NsecPerSecAssumption, PeriodAssumption, SizeAssumption, BoundsAssumption

LEMMA NumTypes ==
  /\ NumRuns \in Nat /\ NumRuns > 0
  /\ NumLoaders \in Nat /\ NumLoaders <= LoadThreads
BY ConstantTypes DEF NumRuns, NumLoaders

\* Either way of adding a period is exact and yields a valid timespec.
LEMMA AdvanceExact ==
  ASSUME NEW t \in Timespecs
  PROVE  Advance(t) \in Timespecs /\ Ns(Advance(t)) = Ns(t) + Period
<1>1. CASE program = "measure_jitter"
  BY <1>1, AddPeriodExact, PeriodAssumption DEF Advance
<1>2. CASE program # "measure_jitter"
  BY <1>2, AddExact, ConstantTypes DEF Advance
<1> QED BY <1>1, <1>2

LEMMA InitInv == Init => IInv
<1> SUFFICES ASSUME Init PROVE IInv
  OBVIOUS
<1> USE ConstantTypes, NumTypes
<1>1. clock \in Nat /\ start = clock
  BY DEF Init
<1>2. next \in Timespecs
  BY DEF Init, Timespecs
<1>3. running \in BOOLEAN /\ running
  BY Zenon DEF Init
<1>4. TypeOK
  BY <1>1, <1>2, <1>3 DEF Init, TypeOK
<1>5. LoadInv
  BY <1>3 DEF Init, LoadInv, Loaders
<1> QED BY <1>4, <1>5 DEF Init, IInv, NoDrift, Untouched, Control

------------------------------------------------------------------------------
(* The invariant is inductive.                                             *)

\* No step changes the program, so its constants stay the same.
LEMMA SameProgram ==
  [Next]_vars => program' = program /\ NumRuns' = NumRuns
                 /\ NumLoaders' = NumLoaders
<1> SUFFICES ASSUME [Next]_vars PROVE program' = program
  BY DEF NumRuns, NumLoaders
<1> QED BY DEF Next, MainNext, LoaderNext, MeterNext, vars, CreateLoader,
     StartMeter, JoinMeter, JoinLoader, Return, SetupFails, TestRunning, Work,
     Begin, Wake, Measure, End, SleepFails

\* One measured round: what Measure computes, in exact nanoseconds.
LEMMA MeasureExact ==
  ASSUME TypeOK, NoDrift, meter = "measure"
  PROVE  /\ timespec_diff_ns(OfNs(clock), next)
              = clock - (start + (i + 1) * Period)
         /\ Advance(next) \in Timespecs
         /\ Ns(Advance(next)) = start + (i + 2) * Period
         /\ (i + 1) * Period \in Nat
<1>1. /\ clock \in Nat /\ start \in Nat /\ next \in Timespecs /\ i \in Nat
      /\ Period \in Nat
  BY ConstantTypes DEF TypeOK
<1>2. Ns(next) = start + (i + 1) * Period
  BY DEF NoDrift
<1>3. OfNs(clock) \in Timespecs /\ Ns(OfNs(clock)) = clock
  BY <1>1, OfNsExact
<1>4. timespec_diff_ns(OfNs(clock), next) = clock - Ns(next)
  BY <1>1, <1>3, DiffExact
<1>5. Advance(next) \in Timespecs /\ Ns(Advance(next)) = Ns(next) + Period
  BY <1>1, AdvanceExact
<1>6. (i + 2) * Period = (i + 1) * Period + Period
  BY ONLY <1>1
<1>7. (i + 1) * Period \in Nat
  BY ONLY <1>1
<1> QED BY <1>1, <1>2, <1>4, <1>5, <1>6, <1>7

\* The clock never runs backwards.
LEMMA ClockMoves ==
  ASSUME TypeOK, Wake \/ SleepFails
  PROVE  clock' \in Nat /\ clock' >= clock
<1>1. clock \in Nat /\ Ns(next) \in Nat
  BY NsType DEF TypeOK
<1>2. CASE Wake
  BY <1>1, <1>2, ConstantTypes DEF Wake, Larger
<1>3. CASE SleepFails
  BY <1>1, <1>3 DEF SleepFails, Larger
<1> QED BY <1>2, <1>3

LEMMA TypeInv == IInv /\ [Next]_vars => TypeOK'
<1> SUFFICES ASSUME IInv, [Next]_vars PROVE TypeOK'
  OBVIOUS
<1> USE ConstantTypes, NumTypes, SameProgram DEF sample, total, mainVars
<1>0. TypeOK /\ NoDrift /\ Control
  BY DEF IInv
<1>1. CASE CreateLoader
  BY <1>0, <1>1 DEF CreateLoader, TypeOK, Loaders
<1>2. CASE StartMeter
  BY <1>0, <1>2 DEF StartMeter, TypeOK
<1>3. CASE JoinMeter
  BY <1>0, <1>3 DEF JoinMeter, TypeOK
<1>4. CASE JoinLoader
  BY <1>0, <1>4 DEF JoinLoader, TypeOK
<1>5. CASE Return
  BY <1>0, <1>5 DEF Return, TypeOK
<1>6. CASE SetupFails
  BY <1>0, <1>6 DEF SetupFails, TypeOK
<1>7. ASSUME NEW t \in Loaders, LoaderNext(t) PROVE TypeOK'
  <2>1. loader' \in [Loaders -> {"none", "test", "work", "done", "killed"}]
    BY <1>0, <1>7 DEF LoaderNext, TestRunning, Work, TypeOK
  <2> QED BY <1>0, <1>7, <2>1 DEF LoaderNext, TestRunning, Work, TypeOK
<1>8. CASE Begin
  <2>1. next' \in Timespecs
    BY <1>0, <1>8, OfNsExact, AdvanceExact DEF Begin, TypeOK
  <2> QED BY <1>0, <1>8, <2>1 DEF Begin, TypeOK
<1>9. CASE Wake
  BY <1>0, <1>9, ClockMoves DEF Wake, TypeOK
<1>10. CASE SleepFails
  BY <1>0, <1>10, ClockMoves DEF SleepFails, TypeOK
<1>11. CASE Measure
  <2>1. meter = "measure"
    BY <1>11 DEF Measure
  <2>2. next' \in Timespecs /\ meter' \in {"sleep", "end"}
    BY <1>0, <1>11, <2>1, MeasureExact DEF Measure, TypeOK
  <2>3. max_latency' \in Nat
    BY <1>0, <1>11, <2>1, MeasureExact DEF Measure, TypeOK, Larger, Abs
  <2>4. i' \in 0..Iterations
    BY <1>0, <1>11, <2>1 DEF Measure, TypeOK, Control
  <2> QED BY <1>0, <1>11, <2>2, <2>3, <2>4 DEF Measure, TypeOK
<1>12. CASE End
  <2>1. running' \in BOOLEAN
    BY <1>12, Zenon DEF End
  <2>2. r' \in 0..NumRuns /\ sum' \in Nat
    BY <1>0, <1>12 DEF End, TypeOK, Control
  <2> QED BY <1>0, <1>12, <2>1, <2>2 DEF End, TypeOK
<1>13. CASE UNCHANGED vars
  BY <1>0, <1>13 DEF vars, TypeOK
<1> QED BY <1>1, <1>2, <1>3, <1>4, <1>5, <1>6, <1>7, <1>8, <1>9, <1>10, <1>11,
           <1>12, <1>13 DEF Next, MainNext, MeterNext

\* What the meter measures: no step makes its deadline drift, and main does
\* not interfere.
LEMMA MeterInv == IInv /\ [Next]_vars => NoDrift' /\ Untouched' /\ Control'
<1> SUFFICES ASSUME IInv, [Next]_vars
             PROVE  NoDrift' /\ Untouched' /\ Control'
  OBVIOUS
<1> USE ConstantTypes, NumTypes, SameProgram
    DEF sample, total, mainVars, NoDrift, Untouched, Control
<1>0. TypeOK /\ NoDrift /\ Untouched /\ Control
  BY DEF IInv
<1>1. CASE CreateLoader
  BY <1>0, <1>1 DEF CreateLoader
<1>2. CASE StartMeter
  BY <1>0, <1>2 DEF StartMeter
<1>3. CASE JoinMeter
  BY <1>0, <1>3 DEF JoinMeter
<1>4. CASE JoinLoader
  BY <1>0, <1>4 DEF JoinLoader
<1>5. CASE Return
  BY <1>0, <1>5 DEF Return
<1>6. CASE SetupFails
  BY <1>0, <1>6 DEF SetupFails
<1>7. ASSUME NEW t \in Loaders, LoaderNext(t)
      PROVE  NoDrift' /\ Untouched' /\ Control'
  BY <1>0, <1>7 DEF LoaderNext, TestRunning, Work
<1>8. CASE Begin
  <2>1. clock \in Nat /\ OfNs(clock) \in Timespecs /\ Ns(OfNs(clock)) = clock
    BY <1>0, OfNsExact DEF TypeOK
  <2>2. Ns(next') = clock + Period
    BY <1>8, <2>1, AdvanceExact DEF Begin
  <2>3. start' = clock /\ i' = 0
    BY <1>8 DEF Begin
  <2>4. NoDrift'
    BY <2>1, <2>2, <2>3
  <2> QED BY <1>0, <1>8, <2>4 DEF Begin
<1>9. CASE Wake
  BY <1>0, <1>9 DEF Wake
<1>10. CASE SleepFails
  BY <1>0, <1>10 DEF SleepFails
<1>11. CASE Measure
  <2>1. i' = i + 1 /\ start' = start /\ meter = "measure" /\ i \in Nat
    BY <1>0, <1>11 DEF Measure, TypeOK
  <2>2. i' < Iterations => Ns(next') = start + (i + 2) * Period
    BY <1>0, <1>11, <2>1, MeasureExact DEF Measure
  <2>3. meter' \in {"sleep", "end"} /\ (meter' = "sleep" => i' < Iterations)
    BY <1>11 DEF Measure
  <2>4. i' + 1 = i + 2
    BY <2>1
  <2>5. NoDrift'
    BY <2>1, <2>2, <2>3, <2>4
  <2> QED BY <1>0, <1>11, <2>3, <2>5 DEF Measure
<1>12. CASE End
  BY <1>0, <1>12 DEF End, TypeOK
<1>13. CASE UNCHANGED vars
  BY <1>0, <1>13 DEF vars
<1> QED BY <1>1, <1>2, <1>3, <1>4, <1>5, <1>6, <1>7, <1>8, <1>9, <1>10, <1>11,
           <1>12, <1>13 DEF Next, MainNext, MeterNext

\* The load threads: main creates them all, and they run until the meter ends.
LEMMA LoadersInv == IInv /\ [Next]_vars => LoadInv'
<1> SUFFICES ASSUME IInv, [Next]_vars PROVE LoadInv'
  OBVIOUS
<1> USE ConstantTypes, NumTypes, SameProgram DEF mainVars
<1>0. TypeOK /\ Control /\ LoadInv
  BY DEF IInv
<1>1. CASE CreateLoader
  BY <1>0, <1>1 DEF CreateLoader, LoadInv, TypeOK, Loaders
<1>2. CASE StartMeter
  BY <1>0, <1>2 DEF StartMeter, LoadInv, TypeOK, Control, Loaders
<1>3. CASE JoinMeter
  BY <1>0, <1>3 DEF JoinMeter, LoadInv
<1>4. CASE JoinLoader
  BY <1>0, <1>4 DEF JoinLoader, LoadInv
<1>5. CASE Return
  BY <1>0, <1>5 DEF Return, LoadInv
<1>6. CASE SetupFails
  BY <1>0, <1>6 DEF SetupFails, LoadInv, TypeOK, Control
<1>7. ASSUME NEW t \in Loaders, TestRunning(t) PROVE LoadInv'
  <2>1. CASE running
    BY <1>0, <1>7, <2>1 DEF TestRunning, LoadInv, TypeOK, Loaders
  <2>2. CASE ~running
    BY <1>0, <1>7, <2>2 DEF TestRunning, LoadInv, TypeOK, Loaders
  <2> QED BY <2>1, <2>2
<1>8. ASSUME NEW t \in Loaders, Work(t) PROVE LoadInv'
  BY <1>0, <1>8 DEF Work, LoadInv, TypeOK, Loaders
<1>9. CASE Begin
  BY <1>0, <1>9 DEF Begin, LoadInv
<1>10. CASE Wake
  BY <1>0, <1>10 DEF Wake, LoadInv
<1>11. CASE SleepFails
  BY <1>0, <1>11 DEF SleepFails, LoadInv
<1>12. CASE Measure
  BY <1>0, <1>12 DEF Measure, LoadInv
<1>13. CASE End
  <2>1. meter = "end" /\ running
    BY <1>0, <1>13 DEF End, LoadInv
  <2>2. meter' # "done" => NumRuns > 1
    BY <1>0, <1>13 DEF End, TypeOK
  <2>3. NumRuns > 1 => program = "measure_jitter"
    BY DEF NumRuns
  <2>4. program = "measure_jitter" => running'
    BY <1>13, Zenon DEF End
  <2> QED BY <1>0, <1>13, <2>1, <2>2, <2>3, <2>4 DEF End, LoadInv
<1>14. CASE UNCHANGED vars
  BY <1>0, <1>14 DEF vars, LoadInv
<1> QED BY <1>1, <1>2, <1>3, <1>4, <1>5, <1>6, <1>7, <1>8, <1>9, <1>10, <1>11,
           <1>12, <1>13, <1>14 DEF Next, MainNext, LoaderNext, MeterNext

\* The inductive invariant holds in every behaviour of the programs.
THEOREM Invariant == Spec => []IInv
<1>1. IInv /\ [Next]_vars => IInv'
  BY TypeInv, MeterInv, LoadersInv DEF IInv
<1> QED BY InitInv, <1>1, PTL DEF Spec

\* Every deadline passed to clock_nanosleep is a valid timespec, every variable
\* keeps its type, and every load thread runs as long as the meter measures.
THEOREM TypesAndLoad == Spec => []Inv
<1>1. IInv => Inv
  <2> SUFFICES ASSUME IInv, meter \in {"sleep", "measure"},
                      NEW t \in 1..NumLoaders
               PROVE  loader[t] \in {"test", "work"}
    BY DEF IInv, Inv, LoadWhileMeasuring
  <2>1. t \in Loaders
    BY NumTypes, ConstantTypes DEF Loaders
  <2>2. main \notin {"setup", "failed"} /\ running
    BY DEF IInv, Control, LoadInv
  <2>3. loader[t] \notin {"none", "done", "killed"}
    BY <2>1, <2>2 DEF IInv, LoadInv
  <2> QED BY <2>1, <2>3 DEF IInv, TypeOK
<1> QED BY <1>1, Invariant, PTL

\* The deadlines of the three programs do not drift, whatever the length of a
\* second, the period, and the lateness of the rounds.
THEOREM DeadlinesDoNotDrift == Spec => []NoDrift
<1>1. IInv => NoDrift
  BY DEF IInv
<1> QED BY <1>1, Invariant, PTL

------------------------------------------------------------------------------
(* Lateness.                                                               *)

\* The backlog never shrinks, and one more round adds what MaxLate exceeds the
\* period by, or nothing.
LEMMA BacklogGrows ==
  ASSUME NEW n \in Nat
  PROVE  /\ Backlog(n) \in Nat /\ MaxLate <= Backlog(n)
         /\ n > 0 => /\ Backlog(n) <= Backlog(n + 1)
                     /\ Backlog(n) + MaxLate - Period <= Backlog(n + 1)
<1> DEFINE excess == MaxLate - Period
           late == (n - 1) * excess
<1>1. excess \in Int /\ MaxLate \in Nat
  BY ConstantTypes
<1>2. ((n + 1) - 1) * excess = late + excess /\ late \in Int
  BY ONLY <1>1, n \in Nat
<1>3. Backlog(n) = IF MaxLate > MaxLate + late THEN MaxLate ELSE MaxLate + late
  BY DEF Backlog, Larger
<1>4. Backlog(n + 1) = IF MaxLate > MaxLate + (late + excess) THEN MaxLate
                       ELSE MaxLate + (late + excess)
  BY <1>2 DEF Backlog, Larger
<1>5. n > 0 /\ excess >= 0 => late >= 0
  BY ONLY <1>1, n \in Nat
<1>6. n > 0 /\ excess < 0 => late <= 0
  BY ONLY <1>1, n \in Nat
<1> HIDE DEF late
<1> QED BY <1>1, <1>2, <1>3, <1>4, <1>5, <1>6

\* How late the meter can be as long as no sleep has failed.
Late ==
  faults = 0 =>
    /\ meter = "sleep" => IF i = 0 THEN clock = start
                          ELSE clock <= start + i * Period + Backlog(i)
    /\ meter = "measure" =>
         /\ start + (i + 1) * Period <= clock
         /\ clock <= start + (i + 1) * Period + Backlog(i + 1)
    /\ max_latency <= Backlog(i)
    /\ i = 0 => max_latency = 0
    /\ sum <= r * Backlog(Iterations)
    /\ meter = "end" => i = Iterations

LEMMA InitLate == Init => Late
<1> SUFFICES ASSUME Init PROVE Late
  OBVIOUS
<1>1. Backlog(0) \in Nat /\ Backlog(Iterations) \in Nat
  BY BacklogGrows, ConstantTypes
<1>2. 0 * Backlog(Iterations) = 0
  BY <1>1
<1> QED BY <1>1, <1>2 DEF Init, Late

LEMMA NextLate == IInv /\ Late /\ [Next]_vars => Late'
<1> SUFFICES ASSUME IInv, Late, [Next]_vars, faults' = 0 PROVE Late'
  BY DEF Late
<1> USE DEF sample, total, mainVars
<1>0. /\ TypeOK /\ NoDrift /\ Control
      /\ clock \in Nat /\ start \in Nat /\ i \in Nat /\ max_latency \in Nat
      /\ r \in Nat /\ sum \in Nat
      /\ Iterations \in Nat /\ Period \in Nat /\ MaxLate \in Nat
  BY ConstantTypes, NumTypes DEF IInv, TypeOK
<1>a. /\ Backlog(i) \in Nat /\ Backlog(0) \in Nat
      /\ Backlog(Iterations) \in Nat
      /\ Backlog(i + 1) \in Nat /\ MaxLate <= Backlog(i + 1)
      /\ i > 0 => /\ Backlog(i) <= Backlog(i + 1)
                  /\ Backlog(i) + MaxLate - Period <= Backlog(i + 1)
  BY <1>0, BacklogGrows
<1>b. (i + 1) * Period = i * Period + Period /\ i * Period \in Nat
  BY ONLY <1>0
<1>1. CASE MainNext
  BY <1>1 DEF MainNext, CreateLoader, StartMeter, JoinMeter, JoinLoader,
              Return, Late
<1>2. CASE SetupFails
  BY <1>2, <1>0 DEF SetupFails, Late, TypeOK
<1>3. ASSUME NEW t \in Loaders, LoaderNext(t) PROVE Late'
  BY <1>3 DEF LoaderNext, TestRunning, Work, Late
<1>4. CASE Begin
  BY <1>4, <1>a DEF Begin, Late
<1>5. CASE Wake
  <2>1. next \in Timespecs /\ Ns(next) = start + (i + 1) * Period
    BY <1>0, <1>5 DEF Wake, TypeOK, NoDrift
  <2>2. clock' \in Larger(clock, Ns(next))..(Larger(clock, Ns(next)) + MaxLate)
    BY <1>5, <2>1 DEF Wake
  <2>3. Ns(next) <= clock'
    BY <1>0, <1>b, <2>1, <2>2 DEF Larger
  <2>4. clock' <= Ns(next) + Backlog(i + 1)
    <3>1. CASE clock <= Ns(next)
      BY <1>0, <1>a, <1>b, <2>1, <2>2, <3>1 DEF Larger
    <3>2. CASE clock > Ns(next)
      <4>1. i > 0 /\ clock <= start + i * Period + Backlog(i)
        BY <1>0, <1>5, <1>b, <2>1, <3>2 DEF Wake, Late
      <4>2. clock' <= clock + MaxLate
        BY <1>0, <1>b, <2>1, <2>2, <3>2 DEF Larger
      <4>3. Ns(next) = start + i * Period + Period /\ clock' \in Nat
        BY <1>0, <1>5, <1>b, <2>1, ClockMoves
      <4> QED BY <1>0, <1>a, <1>b, <4>1, <4>2, <4>3
    <3> QED BY <1>0, <1>b, <2>1, <3>1, <3>2
  <2> QED BY <1>5, <2>1, <2>3, <2>4 DEF Wake, Late
<1>6. CASE SleepFails
  BY <1>6, <1>0 DEF SleepFails, TypeOK
<1>7. CASE Measure
  <2> DEFINE deadline == start + (i + 1) * Period
  <2>1. meter = "measure" /\ i' = i + 1 /\ UNCHANGED <<clock, start, r, sum>>
    BY <1>7 DEF Measure
  <2>2. deadline \in Nat /\ deadline <= clock
        /\ clock <= deadline + Backlog(i + 1)
        /\ max_latency <= Backlog(i)
    BY <1>0, <1>7, <1>b, <2>1 DEF Measure, Late
  <2>3. max_latency' = Larger(Abs(clock - deadline), max_latency)
    BY <1>0, <1>7, <2>1, MeasureExact DEF Measure
  <2>4. i = 0 => max_latency = 0
    BY <1>7 DEF Measure, Late
  <2>5. max_latency' <= Backlog(i + 1)
    BY <1>0, <1>a, <2>2, <2>3, <2>4 DEF Larger, Abs
  <2>6. meter' \in {"sleep", "end"} /\ (meter' = "end" => i' = Iterations)
    BY <1>0, <1>7, <2>1 DEF Measure, Control
  <2>7. i' # 0 /\ clock' <= start' + i' * Period + Backlog(i')
    BY <1>0, <2>1, <2>2
  <2> QED BY <1>7, <2>1, <2>5, <2>6, <2>7 DEF Measure, Late
<1>8. CASE End
  <2>1. i = Iterations /\ max_latency <= Backlog(i)
        /\ sum <= r * Backlog(Iterations)
    BY <1>8 DEF End, Late
  <2>2. (r + 1) * Backlog(Iterations)
          = r * Backlog(Iterations) + Backlog(Iterations)
        /\ r * Backlog(Iterations) \in Nat
    BY ONLY <1>0, <1>a
  <2>3. r' = r + 1 /\ sum' = sum + max_latency
    BY <1>8 DEF End
  <2>4. sum' <= r' * Backlog(Iterations)
    BY <1>0, <1>a, <2>1, <2>2, <2>3
  <2> QED BY <1>8, <2>1, <2>4 DEF End, Late
<1>9. CASE UNCHANGED vars
  BY <1>9 DEF vars, Late
<1> QED BY <1>1, <1>2, <1>3, <1>4, <1>5, <1>6, <1>7, <1>8, <1>9
     DEF Next, MeterNext

\* As long as no sleep fails, the maximum of a measurement is at most the
\* backlog of its own rounds, the sum of the maxima accordingly, and every
\* sample has been taken.
THEOREM BacklogIsBounded == Spec => []BacklogBounded
<1>1. Late => BacklogBounded
  BY DEF Late, BacklogBounded
<1> QED BY InitLate, NextLate, Invariant, <1>1, PTL DEF Spec

------------------------------------------------------------------------------
(* Refinement: every step is a step of the sampler, or none.               *)

LEMMA InitRefines == Init => Sampler!Init
BY ConstantTypes DEF Init, Sampler!Init

LEMMA NextRefines == IInv /\ [Next]_vars => [Sampler!Next]_(Sampler!vars)
<1> SUFFICES ASSUME IInv, [Next]_vars PROVE [Sampler!Next]_(Sampler!vars)
  OBVIOUS
<1> USE DEF Sampler!vars, sample
<1>0. /\ TypeOK /\ NoDrift
      /\ clock \in Nat /\ start \in Nat /\ i \in Nat /\ max_latency \in Nat
  BY ConstantTypes DEF IInv, TypeOK
<1>1. CASE MainNext
  BY <1>1 DEF MainNext, CreateLoader, StartMeter, JoinMeter, JoinLoader, Return
<1>2. CASE SetupFails
  BY <1>2 DEF SetupFails
<1>3. ASSUME NEW t \in Loaders, LoaderNext(t)
      PROVE  [Sampler!Next]_(Sampler!vars)
  BY <1>3 DEF LoaderNext, TestRunning, Work
<1>4. CASE Begin
  BY <1>4 DEF Begin, Sampler!Restart, Sampler!Next
<1>5. CASE Wake
  BY <1>0, <1>5, ClockMoves DEF Wake, Sampler!Wait, Sampler!Next
<1>6. CASE SleepFails
  BY <1>0, <1>6, ClockMoves DEF SleepFails, Sampler!Wait, Sampler!Next
<1>7. CASE Measure
  <2> DEFINE deadline == start + (i + 1) * Period
  <2>1. /\ timespec_diff_ns(OfNs(clock), next) = clock - deadline
        /\ (i + 1) * Period \in Nat
    BY <1>0, <1>7, MeasureExact DEF Measure
  <2>2. deadline \in Nat
    BY <1>0, <2>1
  <2>3. i' = i + 1 /\ UNCHANGED <<clock, start>>
    BY <1>7 DEF Measure
  <2>4. max_latency' = Larger(Abs(clock - deadline), max_latency)
    BY <1>7, <2>1 DEF Measure
  <2> HIDE DEF deadline
  <2>5. Abs(clock - deadline) = Sampler!Distance(clock, deadline)
    BY <1>0, <2>2 DEF Abs, Sampler!Distance
  <2>6. max_latency' = IF Sampler!Distance(clock, deadline) > max_latency
                       THEN Sampler!Distance(clock, deadline)
                       ELSE max_latency
    BY <2>4, <2>5 DEF Larger
  <2>7. deadline = start + i' * Period
    BY <2>3 DEF deadline
  <2> QED BY <2>3, <2>6, <2>7 DEF Sampler!Sample, Sampler!Next
<1>8. CASE End
  BY <1>8 DEF End
<1>9. CASE UNCHANGED vars
  BY <1>9 DEF vars
<1> QED BY <1>1, <1>2, <1>3, <1>4, <1>5, <1>6, <1>7, <1>8, <1>9
     DEF Next, MeterNext

\* The three programs implement PeriodicSampler: the maximum of a measurement
\* is the exact largest distance to its fixed deadlines.
THEOREM Implements == Spec => MeasuresLatency
<1> QED BY InitRefines, NextRefines, Invariant, PTL
     DEF Spec, MeasuresLatency, Sampler!Spec
==============================================================================
