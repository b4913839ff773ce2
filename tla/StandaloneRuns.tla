---------------------------- MODULE StandaloneRuns ----------------------------
(***************************************************************************)
(* The programs that run alone on the machine, none of which shares state  *)
(* with another: one of them is chosen, and the others stay as they are.   *)
(***************************************************************************)
EXTENDS MemoryBench, FileBench, NetworkChecks, LinuxPriorityInversion,
        QnxPriorityInversion

priorityVars == <<clock, linuxVars, qnxVars>>
vars == <<shared, memVars, fileVars, netVars, priorityVars>>

\* The state of a program that is not run.
MemIdle ==
  /\ capacity = 0 /\ table = NULL /\ live = {} /\ cut = 0 /\ failed_allocs = 0
  /\ ptrs = [k \in Index |-> NULL]

FileIdle ==
  /\ dir = FALSE /\ files = {} /\ testfile = Absent /\ swept = FALSE
  /\ written = Absent /\ nread = 0 /\ ignored = 0 /\ runs = 0

NetIdle ==
  /\ host = "other" /\ root = FALSE /\ world_write = FALSE
  /\ shadow = "intact" /\ os_name = "UNKNOWN" /\ datafile = "absent"
  /\ total = Zero /\ seen = [k \in Kinds |-> <<>>]
  /\ report = Nothing /\ undisturbed = TRUE /\ netruns = 0

LinuxIdle ==
  /\ cpus = 1 /\ mainPrio = SchedOther /\ wakeAt = 0 /\ owner = Free /\ waited = 0
  /\ thread = [t \in Threads |-> "absent"]
  /\ sem = [t \in Threads |-> 0] /\ t0 = [t \in Threads |-> 0]

QnxIdle ==
  /\ low = "absent" /\ med = "absent" /\ high = "absent" /\ mutex = Free
  /\ sem_low_locked = 0 /\ sem_high_ready = 0 /\ sem_high_done = 0
  /\ lowStart = 0 /\ medStart = 0 /\ high_t0 = 0 /\ reported = NoReport

Init ==
  \/ MemInit /\ FileIdle /\ NetIdle /\ clock = 0 /\ LinuxIdle /\ QnxIdle
  \/ FileInit /\ MemIdle /\ NetIdle /\ clock = 0 /\ LinuxIdle /\ QnxIdle
  \/ NetInit /\ MemIdle /\ FileIdle /\ clock = 0 /\ LinuxIdle /\ QnxIdle
  \/ LinuxInit /\ MemIdle /\ FileIdle /\ NetIdle /\ QnxIdle
  \/ QnxInit /\ MemIdle /\ FileIdle /\ NetIdle /\ LinuxIdle

MemAlone ==
  /\ program \in MemoryPrograms
  /\ UNCHANGED <<fileVars, netVars, priorityVars>>

FileAlone ==
  /\ program \in FilePrograms
  /\ UNCHANGED <<memVars, netVars, priorityVars>>

NetAlone ==
  /\ program = "network_and_security"
  /\ UNCHANGED <<memVars, fileVars, priorityVars>>

LinuxAlone ==
  /\ program = "linux_priority_inversion"
  /\ UNCHANGED <<program, i, memVars, fileVars, netVars, qnxVars>>

QnxAlone ==
  /\ program = "qnx_priority_inversion"
  /\ UNCHANGED <<program, i, memVars, fileVars, netVars, linuxVars>>

Next ==
  \/ MemNext /\ MemAlone
  \/ FileNext /\ FileAlone
  \/ NetNext /\ NetAlone
  \/ LinuxNext /\ LinuxAlone
  \/ QnxNext /\ QnxAlone

Spec == Init /\ [][Next]_vars

\* A step of a program that has one thread, and is not a kill or a new run.
SequentialStep ==
  \/ MemNext /\ MemAlone
  \/ FileSteps /\ FileAlone
  \/ NetSteps /\ NetAlone

\* A program that runs goes on, and no command it waits for runs for ever.
\* Time passes, and the CPU executes
\* what is scheduled: the threads of the Linux program spin for less than the
\* 95% of a second that Linux grants real-time threads, and those of the QNX
\* program have one priority, so all get to run.
FairSpec ==
  /\ Spec
  /\ WF_vars(SequentialStep)
  /\ WF_vars(LinuxTick /\ LinuxAlone)
  /\ WF_vars(LinuxMainNext /\ LinuxAlone)
  /\ WF_vars(LinuxThreadNext /\ LinuxAlone)
  /\ WF_vars(QnxTick /\ QnxAlone)
  /\ WF_vars(QnxMainNext /\ QnxAlone)
  /\ WF_vars(LowNext /\ QnxAlone)
  /\ WF_vars(HighNext /\ QnxAlone)
  /\ WF_vars(MedEnds /\ QnxAlone)

------------------------------------------------------------------------------
(* Properties.                                                             *)

\* The invariant of the program that is run.
Inv ==
  /\ program \in MemoryPrograms => MemTypeOK
  /\ program \in FilePrograms => FileTypeOK
  /\ program = "network_and_security" => NetInv
  /\ program = "linux_priority_inversion" => LinuxInv
  /\ program = "qnx_priority_inversion" => QnxInv

\* Every program comes to its end, whatever fails: the sequential ones always,
\* and the last run of one that is run again; the priority inversion programs
\* unless the thread that somebody waits for could not be created.
EveryProgramEnds ==
  /\ []<>(main \in Ended \/ program \in {"linux_priority_inversion",
                                         "qnx_priority_inversion"})
  /\ HighReports
  /\ MainEnds
==============================================================================
