---------------------------- MODULE StopFlagProofs ----------------------------
(***************************************************************************)
(* For any number of threads and rounds, thread_fairness.c and             *)
(* sleep_wake_thread.c report final results, each total belongs to its     *)
(* count, and no worker goes on for more than one round after the flag is  *)
(* set.                                                                    *)
(***************************************************************************)
EXTENDS StopFlag, TLAPS

\* A worker in the loop has not counted the round it is in.
InLoop == {"nanosleep", "total", "count"}

\* Before the flag is set nothing is recorded, afterwards the flag stays set.
StopInv ==
  /\ main \in {"create", "sleep", "failed"} =>
       ~stop /\ atStop = NoReport /\ report = NoReport
  /\ main \in {"join", "done"} => stop /\ atStop \in [Workers -> 0..MaxCount]
  /\ main = "join" => report = NoReport
  /\ \A t \in Threads : thread[t] = "done" => stop

\* main creates and joins the threads in the order of their indices.
IndexInv ==
  /\ main = "create" =>
       \A t \in Threads : thread[t] = "none" <=> t >= next
  /\ main \in {"sleep", "join"} => \A t \in 1..Last : thread[t] # "none"
  /\ main = "join" =>
       \A t \in Threads : t < next => thread[t] = "done"

\* Where a worker is tells how far its counter can be from the bound and, once
\* the flag is set, from its value at that time.
CountInv ==
  \A w \in Workers :
    /\ thread[w] \in InLoop => iterations[w] < MaxCount
    /\ main \in {"join", "done"} =>
         /\ iterations[w] >= atStop[w]
         /\ iterations[w] <= atStop[w] + 1
         /\ thread[w] \in InLoop => iterations[w] = atStop[w]

\* The rounds whose delay may be part of a worker's total.
Added(w) ==
  iterations[w] + IF thread[w] \in {"count", "killed"} THEN 1 ELSE 0

\* A total is made of one delay per round, before and after it is counted.
TotalInv ==
  \A w \in Workers :
    thread[w] # "none" => total_jitter_ns[w] <= MaxJitter * Added(w)

IInv == TypeOK /\ StopInv /\ IndexInv /\ CountInv /\ TotalInv /\ AverageInRange

LEMMA ConstantTypes ==
  /\ NumWorkers \in Nat /\ NumWorkers > 0 /\ NumLoaders \in Nat
  /\ Interval \in Nat /\ MaxJitter \in Nat
  /\ MaxCount \in Nat /\ MaxCount > 0
  /\ MaxFaults \in Nat
BY SizeAssumption, TimeAssumption, BoundsAssumption

LEMMA LastTypes ==
  /\ Last \in Nat /\ NumWorkers <= Last /\ Last <= NumWorkers + NumLoaders
  /\ Workers \subseteq Threads
  /\ Workers \subseteq 1..Last
  /\ 1..Last \subseteq Threads
<1>1. Last \in Nat /\ NumWorkers <= Last /\ Last <= NumWorkers + NumLoaders
  BY ConstantTypes DEF Last
<1> QED BY <1>1, ConstantTypes DEF Workers, Threads

\* No step changes the program, so the number of threads stays the same.
LEMMA SameProgram == [Next]_vars => program' = program /\ Last' = Last
<1> SUFFICES ASSUME [Next]_vars PROVE program' = program
  BY DEF Last
<1> QED BY DEF Next, MainNext, WorkerNext, vars, CreateWorker, CreateLoader,
     CreateFails, CreateDone, Stop, JoinThread, Report, TestStop, Sleep,
     AddJitter, Count, EndLoad

\* An empty report is not one of results.
LEMMA NoReportIsNone ==
  ASSUME NEW S, NEW f \in [Workers -> S]
  PROVE  f # NoReport
<1>1. 1 \in Workers
  BY ConstantTypes DEF Workers
<1>2. DOMAIN f = Workers /\ DOMAIN NoReport = {}
  BY DEF NoReport
<1> QED BY <1>1, <1>2

\* The result of a worker that runs is a pair of numbers.
LEMMA ResultTypes ==
  ASSUME TypeOK, NEW w \in Workers, thread[w] # "none"
  PROVE  iterations[w] \in 0..MaxCount /\ total_jitter_ns[w] \in Nat
BY DEF TypeOK

LEMMA InitInv == Init => IInv
<1> SUFFICES ASSUME Init PROVE IInv
  OBVIOUS
<1> USE ConstantTypes, LastTypes DEF Init
<1>1. TypeOK
  <2>1. next \in 1..(Last + 1) /\ faults \in 0..MaxFaults
    OBVIOUS
  <2>2. stop \in BOOLEAN
    BY Zenon
  <2>3. atStop \in {NoReport} /\ report \in {NoReport}
    BY Zenon
  <2>4. /\ thread \in [Threads -> {"none"}]
        /\ \A t \in Threads : thread[t] = "none"
    OBVIOUS
  <2>5. /\ jitter \in [Workers -> 0..MaxJitter]
        /\ total_jitter_ns \in [Workers -> Nat \union {Garbage}]
        /\ iterations \in [Workers -> 0..MaxCount \union {Garbage}]
    OBVIOUS
  <2>6. main \in {"create", "sleep", "join", "done", "failed"}
        /\ program \in Programs
    OBVIOUS
  <2> QED BY <2>1, <2>2, <2>3, <2>4, <2>5, <2>6 DEF TypeOK
<1>2. StopInv /\ AverageInRange
  BY DEF StopInv, AverageInRange
<1>3. IndexInv /\ CountInv /\ TotalInv
  BY DEF IndexInv, CountInv, TotalInv, InLoop, Threads
<1> QED BY <1>1, <1>2, <1>3 DEF IInv

------------------------------------------------------------------------------
(* Types.                                                                  *)

LEMMA TypeInv == IInv /\ [Next]_vars => TypeOK'
<1> SUFFICES ASSUME IInv, [Next]_vars PROVE TypeOK'
  OBVIOUS
<1> USE ConstantTypes, LastTypes, SameProgram DEF data
<1>0. TypeOK /\ StopInv /\ IndexInv /\ CountInv
  BY DEF IInv
<1>1. CASE CreateWorker
  <2>1. next \in Workers /\ next \in Threads /\ next + 1 \in 1..(Last + 1)
    BY <1>1 DEF CreateWorker, Workers
  <2>2. /\ total_jitter_ns' \in [Workers -> Nat \union {Garbage}]
        /\ iterations' \in [Workers -> 0..MaxCount \union {Garbage}]
    BY <1>0, <1>1, <2>1 DEF CreateWorker, TypeOK
  <2>3. \A w \in Workers :
          thread'[w] # "none" =>
            total_jitter_ns'[w] # Garbage /\ iterations'[w] # Garbage
    BY <1>0, <1>1, <2>1 DEF CreateWorker, TypeOK, Garbage
  <2> QED BY <1>0, <1>1, <2>1, <2>2, <2>3 DEF CreateWorker, TypeOK
<1>2. CASE CreateLoader
  <2>1. next \in Threads /\ next \notin Workers /\ next + 1 \in 1..(Last + 1)
    BY <1>0, <1>2 DEF CreateLoader, TypeOK, Workers, Threads
  <2>2. \A w \in Workers : thread'[w] = thread[w]
    BY <1>0, <1>2, <2>1 DEF CreateLoader, TypeOK
  <2> QED BY <1>0, <1>2, <2>1, <2>2 DEF CreateLoader, TypeOK
<1>3. CASE CreateFails
  BY <1>0, <1>3 DEF CreateFails, TypeOK
<1>4. CASE CreateDone
  BY <1>0, <1>4 DEF CreateDone, TypeOK
<1>5. CASE Stop
  <2>1. atStop' \in [Workers -> 0..MaxCount]
    BY <1>0, <1>5 DEF Stop, TypeOK, IndexInv
  <2> QED BY <1>0, <1>5, <2>1 DEF Stop, TypeOK
<1>6. CASE JoinThread
  BY <1>0, <1>6 DEF JoinThread, TypeOK
<1>7. CASE Report
  <2>1. \A w \in Workers : thread[w] # "none"
    BY <1>0, <1>7 DEF Report, IndexInv
  <2>2. Results \in [Workers -> Nat \X (0..MaxCount)]
    BY <1>0, <2>1, ResultTypes DEF Results
  <2> QED BY <1>0, <1>7, <2>2 DEF Report, TypeOK
<1>8. ASSUME NEW w \in Workers, TestStop(w) PROVE TypeOK'
  BY <1>0, <1>8 DEF TestStop, TypeOK
<1>9. ASSUME NEW w \in Workers, Sleep(w) PROVE TypeOK'
  <2>1. jitter' \in [Workers -> 0..MaxJitter]
    BY <1>0, <1>9 DEF Sleep, TypeOK
  <2> QED BY <1>0, <1>9, <2>1 DEF Sleep, TypeOK
<1>10. ASSUME NEW w \in Workers, AddJitter(w) PROVE TypeOK'
  <2>1. total_jitter_ns[w] \in Nat /\ jitter[w] \in Nat
    BY <1>0, <1>10, ResultTypes DEF AddJitter, TypeOK
  <2> QED BY <1>0, <1>10, <2>1 DEF AddJitter, TypeOK, Garbage
<1>11. ASSUME NEW w \in Workers, Count(w) PROVE TypeOK'
  <2>1. iterations[w] \in Nat /\ iterations[w] < MaxCount
    BY <1>0, <1>11, ResultTypes DEF Count, CountInv, InLoop
  <2> QED BY <1>0, <1>11, <2>1 DEF Count, TypeOK, Garbage
<1>12. ASSUME NEW t \in Threads, EndLoad(t) PROVE TypeOK'
  BY <1>0, <1>12 DEF EndLoad, TypeOK
<1>13. CASE UNCHANGED vars
  BY <1>0, <1>13 DEF vars, TypeOK
<1> QED BY <1>1, <1>2, <1>3, <1>4, <1>5, <1>6, <1>7, <1>8, <1>9, <1>10, <1>11,
           <1>12, <1>13 DEF Next, MainNext, WorkerNext

------------------------------------------------------------------------------
(* The flag and the order of the threads.                                  *)

LEMMA OrderInv == IInv /\ [Next]_vars => StopInv' /\ IndexInv'
<1> SUFFICES ASSUME IInv, [Next]_vars PROVE StopInv' /\ IndexInv'
  OBVIOUS
<1> USE ConstantTypes, LastTypes, SameProgram DEF data
<1>0. TypeOK /\ StopInv /\ IndexInv
  BY DEF IInv
<1>1. CASE CreateWorker
  <2>1. StopInv'
    BY <1>0, <1>1 DEF CreateWorker, StopInv
  <2>2. IndexInv'
    BY <1>0, <1>1 DEF CreateWorker, IndexInv, TypeOK, Threads
  <2> QED BY <2>1, <2>2
<1>2. CASE CreateLoader
  <2>1. StopInv'
    BY <1>0, <1>2 DEF CreateLoader, StopInv
  <2>2. IndexInv'
    BY <1>0, <1>2 DEF CreateLoader, IndexInv, TypeOK, Threads
  <2> QED BY <2>1, <2>2
<1>3. CASE CreateFails
  BY <1>0, <1>3 DEF CreateFails, StopInv, IndexInv, TypeOK
<1>4. CASE CreateDone
  <2>1. \A t \in 1..Last : ~(t >= next)
    BY <1>4, <1>0 DEF CreateDone, TypeOK
  <2> QED BY <1>0, <1>4, <2>1 DEF CreateDone, StopInv, IndexInv
<1>5. CASE Stop
  <2>1. atStop' \in [Workers -> 0..MaxCount]
    BY <1>0, <1>5 DEF Stop, TypeOK, IndexInv
  <2> QED BY <1>0, <1>5, <2>1 DEF Stop, StopInv, IndexInv, Threads
<1>6. CASE JoinThread
  BY <1>0, <1>6 DEF JoinThread, StopInv, IndexInv, TypeOK, Threads
<1>7. CASE Report
  BY <1>0, <1>7 DEF Report, StopInv, IndexInv
<1>8. ASSUME NEW t \in Threads,
             \/ t \in Workers /\ WorkerNext(t)
             \/ EndLoad(t)
      PROVE  StopInv' /\ IndexInv'
  <2>1. UNCHANGED <<main, next, stop, atStop, report>>
    BY <1>8 DEF WorkerNext, TestStop, Sleep, AddJitter, Count, EndLoad
  <2>2. thread[t] \notin {"none", "done"}
    BY <1>8 DEF WorkerNext, TestStop, Sleep, AddJitter, Count, EndLoad
  <2>3. \A u \in Threads : u # t => thread'[u] = thread[u]
    BY <1>0, <1>8
    DEF WorkerNext, TestStop, Sleep, AddJitter, Count, EndLoad, TypeOK
  <2>4. thread'[t] # "none" /\ (thread'[t] = "done" => stop)
    BY <1>0, <1>8
    DEF WorkerNext, TestStop, Sleep, AddJitter, Count, EndLoad, TypeOK
  <2>5. StopInv'
    BY <1>0, <2>1, <2>3, <2>4 DEF StopInv
  <2>6. IndexInv'
    BY <1>0, <2>1, <2>2, <2>3, <2>4 DEF IndexInv
  <2> QED BY <2>5, <2>6
<1>9. CASE UNCHANGED vars
  BY <1>0, <1>9 DEF vars, StopInv, IndexInv
<1> QED BY <1>1, <1>2, <1>3, <1>4, <1>5, <1>6, <1>7, <1>8, <1>9
     DEF Next, MainNext

------------------------------------------------------------------------------
(* Counts and totals.                                                      *)

LEMMA CountKept == IInv /\ [Next]_vars => CountInv'
<1> SUFFICES ASSUME IInv, [Next]_vars PROVE CountInv'
  OBVIOUS
<1> USE ConstantTypes, LastTypes DEF data
<1>0. TypeOK /\ StopInv /\ IndexInv /\ CountInv
  BY DEF IInv
<1>1. CASE CreateWorker
  BY <1>0, <1>1 DEF CreateWorker, CountInv, TypeOK, InLoop
<1>2. CASE CreateLoader
  BY <1>0, <1>2 DEF CreateLoader, CountInv, TypeOK, InLoop
<1>3. CASE CreateFails
  BY <1>0, <1>3 DEF CreateFails, CountInv, InLoop
<1>4. CASE CreateDone
  BY <1>0, <1>4 DEF CreateDone, CountInv
<1>5. CASE Stop
  <2>1. \A w \in Workers : iterations[w] \in 0..MaxCount
    BY <1>0, <1>5, ResultTypes DEF Stop, IndexInv
  <2> QED BY <1>0, <1>5, <2>1 DEF Stop, CountInv
<1>6. CASE JoinThread
  BY <1>0, <1>6 DEF JoinThread, CountInv
<1>7. CASE Report
  BY <1>0, <1>7 DEF Report, CountInv
<1>8. ASSUME NEW w \in Workers, TestStop(w) PROVE CountInv'
  BY <1>0, <1>8 DEF TestStop, CountInv, StopInv, TypeOK, InLoop
<1>9. ASSUME NEW w \in Workers, Sleep(w) PROVE CountInv'
  BY <1>0, <1>9 DEF Sleep, CountInv, TypeOK, InLoop
<1>10. ASSUME NEW w \in Workers, AddJitter(w) PROVE CountInv'
  BY <1>0, <1>10 DEF AddJitter, CountInv, TypeOK, InLoop
<1>11. ASSUME NEW w \in Workers, Count(w) PROVE CountInv'
  <2>1. iterations[w] \in Nat /\ iterations[w] < MaxCount
    BY <1>0, <1>11, ResultTypes DEF Count, CountInv, InLoop
  <2>2. iterations'[w] = iterations[w] + 1 /\ thread'[w] = "test"
    BY <1>0, <1>11 DEF Count, TypeOK
  <2>3. UNCHANGED <<main, atStop>> /\ thread[w] = "count"
    BY <1>11 DEF Count
  <2>4. \A u \in Workers : u # w =>
          iterations'[u] = iterations[u] /\ thread'[u] = thread[u]
    BY <1>0, <1>11 DEF Count, TypeOK
  <2>5. main \in {"join", "done"} => atStop[w] \in 0..MaxCount
    BY <1>0 DEF StopInv
  <2> QED BY <1>0, <2>1, <2>2, <2>3, <2>4, <2>5 DEF CountInv, InLoop
<1>12. ASSUME NEW t \in Threads, EndLoad(t) PROVE CountInv'
  BY <1>0, <1>12 DEF EndLoad, CountInv, TypeOK, InLoop
<1>13. CASE UNCHANGED vars
  BY <1>0, <1>13 DEF vars, CountInv
<1> QED BY <1>1, <1>2, <1>3, <1>4, <1>5, <1>6, <1>7, <1>8, <1>9, <1>10, <1>11,
           <1>12, <1>13 DEF Next, MainNext, WorkerNext

\* One more round leaves room for one more delay.
LEMMA OneMore ==
  ASSUME NEW m \in Nat, NEW n \in Nat
  PROVE  m * n \in Nat /\ m * (n + 1) = m * n + m /\ m * (n + 0) = m * n
OBVIOUS

\* Only AddJitter and Count change the result of a worker that runs, and only
\* Count takes it out of the state between the two.
LEMMA Untouched ==
  ASSUME IInv, [Next]_vars, NEW w \in Workers, thread[w] # "none",
         ~AddJitter(w), ~Count(w)
  PROVE  /\ iterations'[w] = iterations[w]
         /\ total_jitter_ns'[w] = total_jitter_ns[w]
         /\ thread[w] \in {"count", "killed"} =>
              thread'[w] \in {"count", "killed"}
<1> USE LastTypes DEF data
<1>0. TypeOK /\ IndexInv
  BY DEF IInv
<1>1. CASE CreateWorker
  <2>1. next # w
    BY <1>0, <1>1, ConstantTypes DEF CreateWorker, IndexInv, TypeOK, Workers
  <2> QED BY <1>0, <1>1, <2>1 DEF CreateWorker, TypeOK
<1>2. CASE CreateLoader
  <2>1. next # w
    BY <1>2, ConstantTypes DEF CreateLoader, Workers
  <2> QED BY <1>0, <1>2, <2>1 DEF CreateLoader, TypeOK
<1>3. CASE CreateFails
  BY <1>0, <1>3 DEF CreateFails
<1>4. CASE CreateDone \/ Stop \/ JoinThread \/ Report
  BY <1>4 DEF CreateDone, Stop, JoinThread, Report
<1>5. ASSUME NEW u \in Workers, WorkerNext(u)
      PROVE  /\ iterations'[w] = iterations[w]
             /\ total_jitter_ns'[w] = total_jitter_ns[w]
             /\ thread[w] \in {"count", "killed"} =>
                  thread'[w] \in {"count", "killed"}
  BY <1>0, <1>5
  DEF WorkerNext, TestStop, Sleep, AddJitter, Count, TypeOK
<1>6. ASSUME NEW t \in Threads, EndLoad(t)
      PROVE  /\ iterations'[w] = iterations[w]
             /\ total_jitter_ns'[w] = total_jitter_ns[w]
             /\ thread[w] \in {"count", "killed"} =>
                  thread'[w] \in {"count", "killed"}
  BY <1>0, <1>6 DEF EndLoad, TypeOK
<1>7. CASE UNCHANGED vars
  BY <1>7 DEF vars
<1> QED BY <1>1, <1>2, <1>3, <1>4, <1>5, <1>6, <1>7 DEF Next, MainNext

LEMMA TotalKept == IInv /\ [Next]_vars => TotalInv'
<1> SUFFICES ASSUME IInv, [Next]_vars,
                    NEW w \in Workers, thread'[w] # "none"
             PROVE  (total_jitter_ns[w] <= MaxJitter * Added(w))'
  BY DEF TotalInv
<1> USE DEF data
<1> DEFINE n == iterations[w]
           total == total_jitter_ns[w]
           Room(i) == MaxJitter * i
<1>0. IInv /\ TypeOK /\ TotalInv /\ w \in Threads
  BY LastTypes DEF IInv
<1>1. CASE thread[w] = "none"
  <2>1. CreateWorker /\ next = w
    BY <1>0, <1>1, ConstantTypes, SMTT(30)
    DEF Next, MainNext, WorkerNext, CreateWorker, CreateLoader, CreateFails,
        CreateDone, Stop, JoinThread, Report, TestStop, Sleep, AddJitter,
        Count, EndLoad, vars, TypeOK, Workers, Threads
  <2>2. n' = 0 /\ total' = 0 /\ thread'[w] = "test"
    BY <1>0, <2>1 DEF CreateWorker, TypeOK
  <2>3. Added(w)' = 0
    BY <2>2 DEF Added
  <2> QED BY <2>2, <2>3, ConstantTypes
<1>2. CASE thread[w] # "none"
  <2>1. n \in Nat /\ total \in Nat
    BY <1>0, <1>2, ResultTypes
  <2>2. /\ Room(n) \in Nat /\ Room(n + 1) = Room(n) + MaxJitter
        /\ Room(n + 0) = Room(n)
    BY <2>1, ConstantTypes, OneMore
  <2>3. /\ total <= Room(n + 1)
        /\ thread[w] \notin {"count", "killed"} => total <= Room(n)
    <3>1. total <= MaxJitter * Added(w)
      BY <1>0, <1>2 DEF TotalInv
    <3>2. CASE thread[w] \in {"count", "killed"}
      <4>1. Added(w) = n + 1
        BY <3>2 DEF Added
      <4> QED BY <3>1, <3>2, <4>1
    <3>3. CASE thread[w] \notin {"count", "killed"}
      <4>1. Added(w) = n
        BY <2>1, <3>3 DEF Added
      <4>2. total <= Room(n)
        BY <3>1, <4>1
      <4> HIDE DEF n, total, Room
      <4>3. total <= Room(n + 1)
        BY <2>1, <2>2, <4>2, ConstantTypes
      <4> QED BY <4>2, <4>3
    <3> QED BY <3>2, <3>3
  <2> HIDE DEF n, total, Room
  <2>4. CASE AddJitter(w)
    <3>1. n' = n /\ total' = total + jitter[w] /\ thread'[w] = "count"
      BY <1>0, <2>4 DEF AddJitter, TypeOK, n, total
    <3>2. jitter[w] \in 0..MaxJitter /\ total <= Room(n)
      BY <1>0, <2>3, <2>4 DEF AddJitter, TypeOK
    <3>3. total' <= Room(n + 1)
      BY <2>1, <2>2, <3>1, <3>2, ConstantTypes
    <3>4. Added(w)' = n + 1
      BY <3>1 DEF Added, n
    <3> QED BY <3>3, <3>4 DEF Room, total
  <2>5. CASE Count(w)
    <3>1. n' = n + 1 /\ total' = total /\ thread'[w] = "test"
      BY <1>0, <2>5 DEF Count, TypeOK, n, total
    <3>2. Added(w)' = n + 1
      BY <3>1, <2>1 DEF Added, n
    <3> QED BY <2>3, <3>1, <3>2 DEF Room, total
  <2>6. CASE ~AddJitter(w) /\ ~Count(w)
    <3>1. UNCHANGED <<n, total>>
      BY <1>0, <1>2, <2>6, Untouched DEF n, total
    <3>2. thread[w] \in {"count", "killed"} =>
            thread'[w] \in {"count", "killed"}
      BY <1>0, <1>2, <2>6, Untouched
    <3>3. CASE thread'[w] \in {"count", "killed"}
      <4>1. Added(w)' = n + 1
        BY <3>1, <3>3 DEF Added, n
      <4> QED BY <2>3, <3>1, <4>1 DEF Room, total
    <3>4. CASE thread'[w] \notin {"count", "killed"}
      <4>1. Added(w)' = n + 0
        BY <3>1, <3>4 DEF Added, n
      <4>2. total <= Room(n + 0)
        BY <2>2, <2>3, <3>2, <3>4
      <4> QED BY <3>1, <4>1, <4>2 DEF Room, total
    <3> QED BY <3>3, <3>4
  <2> QED BY <2>4, <2>5, <2>6
<1> QED BY <1>1, <1>2

\* main has joined every worker when it reports.
LEMMA AllJoined ==
  ASSUME TypeOK, IndexInv, Report
  PROVE  \A w \in Workers : thread[w] = "done"
<1> SUFFICES ASSUME NEW w \in Workers PROVE thread[w] = "done"
  OBVIOUS
<1>1. main = "join" /\ next > Last /\ next \in Nat
  BY LastTypes DEF Report, TypeOK
<1>2. w \in Threads /\ w < next
  BY <1>1, LastTypes
<1> QED BY <1>1, <1>2 DEF IndexInv

\* What is reported is of workers that are done, and their totals have no
\* delay that is not counted.
LEMMA AverageKept == IInv /\ [Next]_vars => AverageInRange'
<1> SUFFICES ASSUME IInv, [Next]_vars PROVE AverageInRange'
  OBVIOUS
<1>0. TypeOK /\ StopInv /\ IndexInv /\ TotalInv /\ AverageInRange
  BY DEF IInv
<1>1. CASE Report
  <2>1. report' = Results /\ \A w \in Workers : thread[w] = "done"
    BY <1>0, <1>1, AllJoined DEF Report
  <2>2. ASSUME NEW w \in Workers
        PROVE  /\ 0 <= total_jitter_ns[w]
               /\ total_jitter_ns[w] <= MaxJitter * iterations[w]
    <3>1. iterations[w] \in Nat /\ total_jitter_ns[w] \in Nat
      BY <1>0, <2>1, ResultTypes
    <3>2. Added(w) = iterations[w]
      BY <2>1, <3>1 DEF Added
    <3> QED BY <1>0, <2>1, <3>1, <3>2 DEF TotalInv
  <2>3. \A w \in Workers :
          report'[w] = <<total_jitter_ns[w], iterations[w]>>
    BY <2>1 DEF Results
  <2> QED BY <2>2, <2>3 DEF AverageInRange
<1>2. CASE ~Report
  <2>1. report' = report
    BY <1>2 DEF Next, MainNext, WorkerNext, CreateWorker, CreateLoader,
       CreateFails, CreateDone, Stop, JoinThread, TestStop, Sleep, AddJitter,
       Count, EndLoad, vars
  <2> QED BY <1>0, <2>1 DEF AverageInRange
<1> QED BY <1>1, <1>2

------------------------------------------------------------------------------
(* The theorems.                                                           *)

\* The inductive invariant holds in every behaviour of the two programs.
THEOREM Invariant == Spec => []IInv
<1>1. IInv /\ [Next]_vars => IInv'
  BY TypeInv, OrderInv, CountKept, TotalKept, AverageKept DEF IInv
<1> QED BY <1>1, InitInv, PTL DEF Spec

\* A worker that runs counts from zero, no delay is negative and every
\* variable keeps its type.
THEOREM TypeCorrect == Spec => []TypeOK
<1>1. IInv => TypeOK
  BY DEF IInv
<1> QED BY <1>1, Invariant, PTL

\* No worker goes on for more than one round after the flag is set, for any
\* number of threads.
THEOREM LateByOne == Spec => []LateByOneAtMost
<1>1. IInv => LateByOneAtMost
  <2> SUFFICES ASSUME IInv, atStop # NoReport, NEW w \in Workers
               PROVE  iterations[w] - atStop[w] <= 1
    BY DEF LateByOneAtMost
  <2>1. main \in {"join", "done"}
    BY DEF IInv, StopInv, TypeOK
  <2>2. iterations[w] <= atStop[w] + 1 /\ iterations[w] >= atStop[w]
    BY <2>1 DEF IInv, CountInv
  <2>3. atStop[w] \in Nat
    BY <2>1, ConstantTypes DEF IInv, StopInv
  <2>4. iterations[w] \in Int
    BY ConstantTypes DEF IInv, TypeOK, Garbage
  <2> QED BY <2>2, <2>3, <2>4
<1> QED BY <1>1, Invariant, PTL

\* The average printed for a worker lies within the delays it measured.
THEOREM AverageCorrect == Spec => []AverageInRange
<1>1. IInv => AverageInRange
  BY DEF IInv
<1> QED BY <1>1, Invariant, PTL

\* Types are kept and averages are of values that belong together, whatever the
\* threads do while main reads.
THEOREM InvCorrect == Spec => []Inv
  BY TypeCorrect, AverageCorrect, PTL DEF Inv

LEMMA InitRefines == Init => Abstract!Init
<1> SUFFICES ASSUME Init PROVE Abstract!Init
  OBVIOUS
<1>1. \A w \in Workers : thread[w] = "none"
  BY LastTypes DEF Init
<1> QED BY <1>1 DEF Init, Abstract!Init, Results

\* Every step of the two programs is a step of JoinedReport, or none.
LEMMA NextRefines == IInv /\ [Next]_vars => [Abstract!Next]_(Abstract!vars)
<1> SUFFICES ASSUME IInv, [Next]_vars PROVE [Abstract!Next]_(Abstract!vars)
  OBVIOUS
<1> DEFINE finished == {w \in Workers : thread[w] = "done"}
<1> USE LastTypes DEF Abstract!vars, Abstract!Next
<1>0. TypeOK /\ StopInv /\ IndexInv
  BY DEF IInv
<1>1. CASE CreateWorker
  <2>1. next \in Workers /\ next \notin finished
    BY <1>0, <1>1 DEF CreateWorker, IndexInv, TypeOK
  <2>2. finished' = finished
    BY <1>0, <1>1, <2>1 DEF CreateWorker, TypeOK
  <2>3. Results' = [Results EXCEPT ![next] = Results'[next]]
    BY <1>0, <1>1, <2>1 DEF CreateWorker, TypeOK, Results
  <2>4. report' = report
    BY <1>1 DEF CreateWorker
  <2> QED BY <2>1, <2>2, <2>3, <2>4 DEF Abstract!Work
<1>2. CASE CreateLoader
  <2>1. next \notin Workers
    BY <1>2, ConstantTypes DEF CreateLoader, Workers
  <2>2. finished' = finished
    BY <1>0, <1>2, <2>1 DEF CreateLoader, TypeOK
  <2> QED BY <1>2, <2>2 DEF CreateLoader, data, Results
<1>3. CASE CreateFails
  <2>1. \A w \in Workers : thread[w] # "done" /\ thread'[w] # "done"
    BY <1>0, <1>3 DEF CreateFails, StopInv
  <2>2. finished' = finished
    BY <2>1
  <2> QED BY <1>3, <2>2 DEF CreateFails, data, Results
<1>4. CASE CreateDone \/ Stop \/ JoinThread \/ UNCHANGED vars
  BY <1>4 DEF CreateDone, Stop, JoinThread, vars, data, Results
<1>5. CASE Report
  <2>1. \A w \in Workers : thread[w] = "done"
    BY <1>0, <1>5, AllJoined
  <2>2. report = NoReport
    BY <1>0, <1>5 DEF Report, StopInv
  <2>3. report' = Results /\ UNCHANGED <<Results, finished>>
    BY <1>5 DEF Report, data, Results
  <2>4. finished = Workers
    BY <2>1
  <2> QED BY <2>2, <2>3, <2>4 DEF Abstract!Publish
<1>6. ASSUME NEW w \in Workers, WorkerNext(w)
      PROVE  [Abstract!Next]_(Abstract!vars)
  <2>1. report' = report
    BY <1>6 DEF WorkerNext, TestStop, Sleep, AddJitter, Count
  <2>2. CASE TestStop(w) \/ Sleep(w)
    <3>1. UNCHANGED Results
      BY <2>2 DEF TestStop, Sleep, data, Results
    <3>2. finished' = finished \/ finished' = finished \union {w}
      BY <1>0, <2>2, ZenonT(30) DEF TestStop, Sleep, TypeOK
    <3> QED BY <2>1, <3>1, <3>2 DEF Abstract!Finish
  <2>3. CASE AddJitter(w) \/ Count(w)
    <3>1. finished' = finished /\ w \notin finished
      BY <1>0, <2>3, ZenonT(30) DEF AddJitter, Count, TypeOK
    <3>2. Results' = [Results EXCEPT ![w] = Results'[w]]
      BY <1>0, <2>3 DEF AddJitter, Count, TypeOK, Results
    <3> QED BY <2>1, <3>1, <3>2 DEF Abstract!Work
  <2> QED BY <1>6, <2>2, <2>3 DEF WorkerNext
<1>7. ASSUME NEW t \in Threads, EndLoad(t)
      PROVE  [Abstract!Next]_(Abstract!vars)
  <2>1. UNCHANGED <<Results, report>>
    BY <1>7 DEF EndLoad, data, Results
  <2>2. CASE t \in Workers
    <3>1. finished' = finished \union {t}
      BY <1>0, <1>7, <2>2 DEF EndLoad, TypeOK
    <3> QED BY <2>1, <2>2, <3>1 DEF Abstract!Finish
  <2>3. CASE t \notin Workers
    <3>1. finished' = finished
      BY <1>0, <1>7, <2>3 DEF EndLoad, TypeOK
    <3> QED BY <2>1, <3>1
  <2> QED BY <2>2, <2>3
<1> QED BY <1>1, <1>2, <1>3, <1>4, <1>5, <1>6, <1>7 DEF Next, MainNext

\* The two programs implement JoinedReport: they report final results.
THEOREM Implements == Spec => ReportIsFinal
<1> QED BY InitRefines, NextRefines, Invariant, PTL
     DEF Spec, ReportIsFinal, Abstract!Spec
==============================================================================
