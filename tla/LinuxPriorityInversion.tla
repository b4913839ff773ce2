------------------------ MODULE LinuxPriorityInversion ------------------------
(***************************************************************************)
(* scheduling/priority/linux_priority_inversion.c: a low-priority thread   *)
(* holds a mutex that a high-priority thread wants, while a thread of      *)
(* medium priority computes.  Main posts their start semaphores one after  *)
(* the other and joins the high-priority thread.                           *)
(*                                                                         *)
(* The threads run under SCHED_FIFO or SCHED_RR: of those that can run, as *)
(* many do as there are CPUs, those with the highest priorities.  A step   *)
(* of a thread takes no time; time passes, in clock ticks, while all       *)
(* running threads spin, or while main sleeps and nobody can run.  The     *)
(* spinning loops look at the clock, not at the CPU time used.             *)
(*                                                                         *)
(* Main binds itself, and with it the threads it creates, to CPU 0.  The   *)
(* results of this and of its other pthread calls are ignored: all CPUs    *)
(* the program was started on may be in use, a thread may be absent, and   *)
(* main may not have been promoted.                                        *)
(***************************************************************************)
EXTENDS PriorityInversion

CONSTANTS
  Gap,      \* usleep(1000)
  NumCpus   \* bound on the CPUs the program may be started on

ASSUME GapAssumption == Gap \in Nat \ {0}
ASSUME CpuAssumption == NumCpus \in Nat \ {0}

Threads == {"low", "med", "high"}
PrioMax == 3
SchedOther == 0
Prio == [low |-> PrioMax - 2, med |-> PrioMax - 1, high |-> PrioMax]

VARIABLES
  cpus,       \* how many CPUs the threads may use
  mainPrio,   \* main's priority
  wakeAt,     \* when main's usleep ends
  thread,     \* program counter of each thread
  sem,        \* the start semaphore of each thread
  t0,         \* local of each thread: when it began to spin or to wait
  owner,      \* of the mutex
  waited      \* what the high-priority thread reports

mainVars == <<main, cpus, mainPrio, wakeAt>>
linuxVars == <<cpus, mainPrio, wakeAt, thread, sem, t0, owner, waited>>

MainSteps == {"pin", "promote", "create_low", "create_med", "create_high",
              "post_low", "usleep_1", "post_med", "usleep_2", "post_high",
              "lower", "join", "done", "crashed"}

LinuxInit ==
  /\ program = "linux_priority_inversion"
  /\ clock = 0
  /\ i = 0
  /\ main = "pin"
  /\ cpus \in 1..NumCpus
  /\ mainPrio = SchedOther
  /\ wakeAt = 0
  /\ thread = [t \in Threads |-> "absent"]
  /\ sem = [t \in Threads |-> 0]
  /\ t0 = [t \in Threads |-> 0]
  /\ owner = Free
  /\ waited = 0
  /\ faults = 0

------------------------------------------------------------------------------
(* The scheduler.                                                          *)

CanRun(t) ==
  \/ thread[t] = "start" /\ sem[t] > 0
  \/ thread[t] = "lock" /\ owner = Free
  \/ thread[t] = "run"

MainCanRun ==
  /\ main \in {"usleep_1", "usleep_2"} => clock >= wakeAt
  /\ main = "join" => thread["high"] = "done"
  /\ main \notin {"done", "crashed"}

\* Variant: the owner of the mutex inherits the priority of who waits for it.
EffectivePrioInherited(t) ==
  IF owner = t /\ thread["high"] = "lock" THEN PrioMax ELSE Prio[t]

\* pthread_mutex_init(&mutex, NULL): a mutex without a priority protocol.
EffectivePrio(t) == Prio[t]

\* How many of those that can run have a higher priority.
Ahead(prio) ==
  Cardinality({u \in Threads : CanRun(u) /\ EffectivePrio(u) > prio})
    + IF MainCanRun /\ mainPrio > prio THEN 1 ELSE 0

\* They leave a CPU.
IsRunning(t) == CanRun(t) /\ Ahead(EffectivePrio(t)) < cpus
MainRuns == MainCanRun /\ Ahead(mainPrio) < cpus

\* Variant: the hold is a CPU time, what med used does not count.
SpinsCpuTime(t) ==
  /\ thread[t] = "run"
  /\ \/ t = "low"
        /\ clock - t0[t] < Hold + IF thread["med"] = "done" THEN Med ELSE 0
     \/ t = "med" /\ clock - t0[t] < Med

\* A loop while (now_ns() - t0 < D) of thread t has not ended yet.
Spins(t) ==
  /\ thread[t] = "run"
  /\ \/ t = "low" /\ clock - t0[t] < Hold
     \/ t = "med" /\ clock - t0[t] < Med

LinuxTick ==
  /\ ~MainRuns
  /\ \A t \in Threads : IsRunning(t) => Spins(t)
  /\ \/ \E t \in Threads : IsRunning(t)
     \/ main \in {"usleep_1", "usleep_2"} /\ clock < wakeAt
  /\ clock' = clock + 1
  /\ UNCHANGED <<mainVars, thread, sem, t0, owner, waited, faults>>

------------------------------------------------------------------------------
(* main                                                                    *)

\* pthread_setaffinity_np(CPU 0); the threads created later inherit it.
Pin ==
  /\ MainRuns
  /\ GoTo("pin", "promote")
  /\ cpus' = 1
  /\ UNCHANGED <<clock, mainPrio, wakeAt, thread, sem, t0, owner, waited, faults>>

\* It fails if CPU 0 is none of the program's: its result is ignored.
PinFails ==
  /\ MainRuns
  /\ faults < MaxFaults
  /\ faults' = faults + 1
  /\ GoTo("pin", "promote")
  /\ UNCHANGED <<clock, cpus, mainPrio, wakeAt, thread, sem, t0, owner, waited>>

Promote ==
  /\ MainRuns
  /\ GoTo("promote", "create_low")
  /\ mainPrio' = PrioMax
  /\ UNCHANGED <<clock, cpus, wakeAt, thread, sem, t0, owner, waited, faults>>

\* pthread_setschedparam fails without the privilege: reported, and ignored.
PromoteFails ==
  /\ MainRuns
  /\ faults < MaxFaults
  /\ faults' = faults + 1
  /\ GoTo("promote", "create_low")
  /\ UNCHANGED <<clock, cpus, mainPrio, wakeAt, thread, sem, t0, owner, waited>>

GoToCreate(t) ==
  \/ t = "low" /\ GoTo("create_low", "create_med")
  \/ t = "med" /\ GoTo("create_med", "create_high")
  \/ t = "high" /\ GoTo("create_high", "post_low")

CreateThread(t) ==
  /\ MainRuns
  /\ GoToCreate(t)
  /\ thread' = [thread EXCEPT ![t] = "start"]
  /\ UNCHANGED <<clock, cpus, mainPrio, wakeAt, sem, t0, owner, waited, faults>>

\* pthread_create fails: its result is ignored.
ThreadCreateFails(t) ==
  /\ MainRuns
  /\ faults < MaxFaults
  /\ faults' = faults + 1
  /\ GoToCreate(t)
  /\ UNCHANGED <<clock, cpus, mainPrio, wakeAt, thread, sem, t0, owner, waited>>

\* sem_post, and then usleep(1000) or, after the last post, the call that is
\* to lower main's priority.
Post(t) ==
  /\ MainRuns
  /\ \/ t = "low" /\ GoTo("post_low", "usleep_1")
     \/ t = "med" /\ GoTo("post_med", "usleep_2")
     \/ t = "high" /\ GoTo("post_high", "lower")
  /\ sem' = [sem EXCEPT ![t] = @ + 1]
  /\ wakeAt' \in IF t = "high" THEN {wakeAt}
                 ELSE (clock + Gap)..(clock + Gap + MaxLate)
  /\ UNCHANGED <<clock, cpus, mainPrio, thread, t0, owner, waited, faults>>

EndSleep ==
  /\ MainRuns
  /\ GoTo("usleep_1", "post_med") \/ GoTo("usleep_2", "post_high")
  /\ UNCHANGED <<clock, cpus, mainPrio, wakeAt, thread, sem, t0, owner,
                 waited, faults>>

\* pthread_setschedparam(SCHED_OTHER) with sp.sched_priority still prio_max:
\* SCHED_OTHER has no priority but 0, so the call fails with EINVAL and main
\* keeps what it has.
Lower ==
  /\ MainRuns
  /\ GoTo("lower", "join")
  /\ UNCHANGED <<clock, cpus, mainPrio, wakeAt, thread, sem, t0, owner,
                 waited, faults>>

\* The process ends, and all its threads with it.
Exit(to) ==
  /\ main = "join"
  /\ main' = to
  /\ thread' = [t \in Threads |->
                  IF thread[t] \in {"absent", "done"} THEN thread[t]
                  ELSE "killed"]
  /\ UNCHANGED <<clock, cpus, mainPrio, wakeAt, sem, t0, owner, waited, faults>>

Join ==
  /\ MainRuns
  /\ Exit("done")

\* pthread_join of a handle that pthread_create never wrote: it may crash or
\* return an error, or wait for ever.
JoinGarbage ==
  /\ main = "join"
  /\ thread["high"] = "absent"
  /\ \E to \in {"done", "crashed"} : Exit(to)

------------------------------------------------------------------------------
(* The threads.                                                            *)

\* sem_wait returns.
Start(t) ==
  /\ IsRunning(t)
  /\ thread[t] = "start"
  /\ sem' = [sem EXCEPT ![t] = @ - 1]
  /\ t0' = [t0 EXCEPT ![t] = clock]
  /\ thread' = [thread EXCEPT ![t] = IF t = "med" THEN "run" ELSE "lock"]
  /\ UNCHANGED <<clock, mainVars, owner, waited, faults>>

LinuxLowLocks ==
  /\ IsRunning("low")
  /\ thread["low"] = "lock"
  /\ owner' = "low"
  /\ t0' = [t0 EXCEPT !["low"] = clock]
  /\ thread' = [thread EXCEPT !["low"] = "run"]
  /\ UNCHANGED <<clock, mainVars, sem, waited, faults>>

LinuxHighLocks ==
  /\ IsRunning("high")
  /\ thread["high"] = "lock"
  /\ owner' = "high"
  /\ waited' = clock - t0["high"]
  /\ thread' = [thread EXCEPT !["high"] = "run"]
  /\ UNCHANGED <<clock, mainVars, sem, t0, faults>>

\* Variant: the mutex is not released.
LinuxLowKeepsMutex ==
  /\ IsRunning("low") /\ ~Spins("low")
  /\ thread["low"] = "run"
  /\ thread' = [thread EXCEPT !["low"] = "done"]
  /\ UNCHANGED <<clock, mainVars, sem, t0, owner, waited, faults>>

\* The loop ends: pthread_mutex_unlock.
LowEnds ==
  /\ IsRunning("low") /\ ~Spins("low")
  /\ thread["low"] = "run"
  /\ owner' = Free
  /\ thread' = [thread EXCEPT !["low"] = "done"]
  /\ UNCHANGED <<clock, mainVars, sem, t0, waited, faults>>

LinuxMedEnds ==
  /\ IsRunning("med") /\ ~Spins("med")
  /\ thread["med"] = "run"
  /\ thread' = [thread EXCEPT !["med"] = "done"]
  /\ UNCHANGED <<clock, mainVars, sem, t0, owner, waited, faults>>

\* The report, and pthread_mutex_unlock.
HighEnds ==
  /\ IsRunning("high")
  /\ thread["high"] = "run"
  /\ owner' = Free
  /\ thread' = [thread EXCEPT !["high"] = "done"]
  /\ UNCHANGED <<clock, mainVars, sem, t0, waited, faults>>

LinuxMainNext ==
  \/ Pin \/ Promote \/ EndSleep \/ Lower \/ Join
  \/ \E t \in Threads : CreateThread(t) \/ Post(t)

LinuxThreadNext ==
  \/ \E t \in Threads : Start(t)
  \/ LinuxLowLocks \/ LinuxHighLocks \/ LowEnds \/ LinuxMedEnds \/ HighEnds

LinuxNext ==
  \/ LinuxMainNext \/ LinuxThreadNext \/ LinuxTick
  \/ PinFails \/ PromoteFails
  \/ \E t \in Threads : ThreadCreateFails(t)
  \/ JoinGarbage

LinuxSpec ==
  LinuxInit /\ [][LinuxNext]_<<main, clock, faults, linuxVars>>

------------------------------------------------------------------------------
(* Properties.                                                             *)

\* Every variable keeps its type; a semaphore is posted once.
LinuxTypeOK ==
  /\ clock \in Nat /\ wakeAt \in Nat
  /\ main \in MainSteps
  /\ cpus \in 1..NumCpus
  /\ mainPrio \in {SchedOther, PrioMax}
  /\ thread \in
       [Threads -> {"absent", "start", "lock", "run", "done", "killed"}]
  /\ sem \in [Threads -> 0..1]
  /\ t0 \in [Threads -> 0..clock]
  /\ owner \in {Free, "low", "high"}
  /\ waited \in 0..clock
  /\ faults \in 0..MaxFaults

\* What the program is there to show, a priority inversion: when the high-
\* priority thread had to wait for the mutex, it waited until the medium one,
\* which never touches the mutex, had finished, or there was no medium one.
\* That takes a single CPU.  Where the binding to one has failed and there are
\* more, no inversion is shown: the wait is never longer than the hold, however
\* long the medium thread computes.
InversionShown ==
  waited > 0 =>
    IF cpus = 1 THEN thread["med"] \in {"absent", "done"} ELSE waited <= Hold

\* The two causes of the wait do not add up.  The low-priority thread holds the
\* mutex until a time, not for an amount of work, so what the medium thread
\* computes meanwhile counts towards the hold.
WaitsOverlap == waited <= IF Hold > Med THEN Hold ELSE Med

\* The invariant of the threads: types, and waits that overlap.
LinuxInv == LinuxTypeOK /\ WaitsOverlap

\* If there is a high-priority thread it gets the mutex and reports, whether or
\* not main was promoted and the other threads could be created.
HighReports == thread["high"] = "start" ~> thread["high"] = "done"
==============================================================================
