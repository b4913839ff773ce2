------------------------- MODULE QnxPriorityInversion -------------------------
(***************************************************************************)
(* scheduling/priority/qnx_priority_inversion.c: main creates a thread     *)
(* that takes the mutex, then the thread that wants it, then the thread    *)
(* that only computes, and waits on a semaphore after each creation.       *)
(*                                                                         *)
(* The threads' attributes carry priorities, but not                       *)
(* PTHREAD_EXPLICIT_SCHED, and no thread is bound to a CPU; so no order of *)
(* execution is assumed here but the one that the semaphores and the mutex *)
(* enforce.  Time passes while a thread spins and, by MaxLate, while it is  *)
(* not scheduled after that; the other steps take no time.                 *)
(*                                                                         *)
(* The results of pthread_create are ignored: a thread may be absent.      *)
(***************************************************************************)
EXTENDS PriorityInversion

NoReport == -1

VARIABLES
  low, med, high,                             \* the three threads
  sem_low_locked, sem_high_ready, sem_high_done,
  mutex,                                      \* its owner
  lowStart, medStart, high_t0,                     \* when each began to spin, wait
  reported                                    \* the wait reported, or NoReport

sems == <<sem_low_locked, sem_high_ready, sem_high_done>>
threads == <<low, med, high>>
times == <<clock, lowStart, medStart, high_t0>>
qnxVars == <<threads, sems, mutex, lowStart, medStart, high_t0, reported>>

QnxInit ==
  /\ program = "qnx_priority_inversion"
  /\ i = 0
  /\ main = "create_low"
  /\ low = "absent" /\ med = "absent" /\ high = "absent"
  /\ sem_low_locked = 0 /\ sem_high_ready = 0 /\ sem_high_done = 0
  /\ mutex = Free
  /\ clock = 0 /\ lowStart = 0 /\ medStart = 0 /\ high_t0 = 0
  /\ reported = NoReport
  /\ faults = 0

------------------------------------------------------------------------------
(* main                                                                    *)

CreateLow ==
  /\ main = "create_low"
  /\ low' = "lock"
  /\ main' = "wait_low"
  /\ UNCHANGED <<med, high, sems, mutex, times, reported, faults>>

\* Variant: main does not wait for the first thread.
WaitLowNot ==
  /\ main = "wait_low"
  /\ main' = "create_high"
  /\ UNCHANGED <<threads, sems, mutex, times, reported, faults>>

WaitLow ==
  /\ main = "wait_low"
  /\ sem_low_locked > 0
  /\ sem_low_locked' = sem_low_locked - 1
  /\ main' = "create_high"
  /\ UNCHANGED <<threads, sem_high_ready, sem_high_done, mutex, times,
                 reported, faults>>

CreateHigh ==
  /\ main = "create_high"
  /\ high' = "ready"
  /\ main' = "wait_high"
  /\ UNCHANGED <<low, med, sems, mutex, times, reported, faults>>

WaitHigh ==
  /\ main = "wait_high"
  /\ sem_high_ready > 0
  /\ sem_high_ready' = sem_high_ready - 1
  /\ main' = "create_med"
  /\ UNCHANGED <<threads, sem_low_locked, sem_high_done, mutex, times,
                 reported, faults>>

CreateMed ==
  /\ main = "create_med"
  /\ med' = "spin"
  /\ medStart' = clock
  /\ main' = "wait_done"
  /\ UNCHANGED <<low, high, sems, mutex, clock, lowStart, high_t0, reported,
                 faults>>

\* pthread_create fails: its result is ignored.
QnxCreateFails ==
  /\ faults < MaxFaults
  /\ faults' = faults + 1
  /\ \/ main = "create_low" /\ main' = "wait_low"
     \/ main = "create_high" /\ main' = "wait_high"
     \/ main = "create_med" /\ main' = "wait_done"
  /\ UNCHANGED <<threads, sems, mutex, times, reported>>

EndedBy(pc) == IF pc \in {"absent", "done"} THEN pc ELSE "killed"

\* The last sem_wait, and return: the process ends with all its threads.
WaitDone ==
  /\ main = "wait_done"
  /\ sem_high_done > 0
  /\ sem_high_done' = sem_high_done - 1
  /\ main' = "done"
  /\ low' = EndedBy(low) /\ med' = EndedBy(med) /\ high' = EndedBy(high)
  /\ UNCHANGED <<sem_low_locked, sem_high_ready, mutex, times, reported,
                 faults>>

------------------------------------------------------------------------------
(* The threads.                                                            *)

LowLocks ==
  /\ low = "lock"
  /\ mutex = Free
  /\ mutex' = "low"
  /\ low' = "post"
  /\ UNCHANGED <<main, med, high, sems, times, reported, faults>>

LowPosts ==
  /\ low = "post"
  /\ sem_low_locked' = sem_low_locked + 1
  /\ lowStart' = clock
  /\ low' = "hold"
  /\ UNCHANGED <<main, med, high, sem_high_ready, sem_high_done, mutex, clock,
                 medStart, high_t0, reported, faults>>

\* Variant: the mutex is not released.
LowKeepsMutex ==
  /\ low = "hold"
  /\ clock - lowStart >= Hold
  /\ low' = "done"
  /\ UNCHANGED <<main, med, high, sems, mutex, times, reported, faults>>

LowUnlocks ==
  /\ low = "hold"
  /\ clock - lowStart >= Hold
  /\ mutex' = Free
  /\ low' = "done"
  /\ UNCHANGED <<main, med, high, sems, times, reported, faults>>

HighPosts ==
  /\ high = "ready"
  /\ sem_high_ready' = sem_high_ready + 1
  /\ high' = "ask"
  /\ UNCHANGED <<main, low, med, sem_low_locked, sem_high_done, mutex,
                 times, reported, faults>>

HighAsks ==
  /\ high = "ask"
  /\ high_t0' = clock
  /\ high' = "lock"
  /\ UNCHANGED <<main, low, med, sems, mutex, clock, lowStart, medStart,
                 reported, faults>>

HighLocks ==
  /\ high = "lock"
  /\ mutex = Free
  /\ mutex' = "high"
  /\ reported' = clock - high_t0
  /\ high' = "unlock"
  /\ UNCHANGED <<main, low, med, sems, times, faults>>

\* Variant: main is told, and the mutex is not released.
HighPostsFirst ==
  /\ high = "unlock"
  /\ sem_high_done' = sem_high_done + 1
  /\ high' = "done"
  /\ UNCHANGED <<main, low, med, sem_low_locked, sem_high_ready, mutex,
                 times, reported, faults>>

HighUnlocks ==
  /\ high = "unlock"
  /\ mutex' = Free
  /\ high' = "post"
  /\ UNCHANGED <<main, low, med, sems, times, reported, faults>>

HighPostsDone ==
  /\ high = "post"
  /\ sem_high_done' = sem_high_done + 1
  /\ high' = "done"
  /\ UNCHANGED <<main, low, med, sem_low_locked, sem_high_ready, mutex,
                 times, reported, faults>>

MedEnds ==
  /\ med = "spin"
  /\ clock - medStart >= Med
  /\ med' = "done"
  /\ UNCHANGED <<main, low, high, sems, mutex, times, reported, faults>>

QnxTick ==
  /\ \/ low = "hold" /\ clock - lowStart < Hold + MaxLate
     \/ med = "spin" /\ clock - medStart < Med + MaxLate
  /\ clock' = clock + 1
  /\ UNCHANGED <<main, threads, sems, mutex, lowStart, medStart, high_t0,
                 reported, faults>>

QnxMainNext ==
  CreateLow \/ WaitLow \/ CreateHigh \/ WaitHigh \/ CreateMed \/ WaitDone
LowNext == LowLocks \/ LowPosts \/ LowUnlocks
HighNext == HighPosts \/ HighAsks \/ HighLocks \/ HighUnlocks \/ HighPostsDone

QnxNext == QnxMainNext \/ LowNext \/ HighNext \/ MedEnds \/ QnxTick \/ QnxCreateFails

QnxSpec ==
  QnxInit /\ [][QnxNext]_<<main, clock, faults, qnxVars>>

------------------------------------------------------------------------------
(* Properties.                                                             *)

\* Every variable keeps its type; a semaphore never counts beyond one.
QnxTypeOK ==
  /\ main \in {"create_low", "wait_low", "create_high", "wait_high",
               "create_med", "wait_done", "done"}
  /\ low \in {"absent", "lock", "post", "hold", "done", "killed"}
  /\ med \in {"absent", "spin", "done", "killed"}
  /\ high \in {"absent", "ready", "ask", "lock", "unlock", "post", "done",
               "killed"}
  /\ sem_low_locked \in 0..1 /\ sem_high_ready \in 0..1
  /\ sem_high_done \in 0..1
  /\ mutex \in {Free, "low", "high"}
  /\ clock \in Nat /\ lowStart \in 0..clock
  /\ medStart \in 0..clock /\ high_t0 \in 0..clock
  /\ reported \in {NoReport} \union Nat
  /\ faults \in 0..MaxFaults

\* The report includes all that was left of the low-priority thread's hold when
\* the high-priority thread asked for the mutex, in whatever order the threads
\* are scheduled: the semaphores see to it that the mutex is taken first.
WaitIncludesHold == reported # NoReport => high_t0 + reported >= lowStart + Hold

\* The process exits with its report made and the mutex free: neither of the
\* two threads that use the mutex is killed within its critical section.
CleanExit == main = "done" => reported # NoReport /\ mutex = Free

\* The invariant of the program: types, and a clean exit.
QnxInv == QnxTypeOK /\ CleanExit

\* Once the first thread is there, all waits of main are answered, unless the
\* thread that should answer could not be created.
MainEnds ==
  low = "lock" ~> main = "done" \/ (main = "wait_high" /\ high = "absent")
==============================================================================
