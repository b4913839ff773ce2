------------------------------ MODULE IpcLatency ------------------------------
(***************************************************************************)
(* ipc/ipc_latency.c: a parent and an echo child exchange messages over    *)
(* one POSIX message queue that both of them send to and receive from,     *)
(* while load threads keep the CPUs busy.                                  *)
(*                                                                         *)
(* The queue name outlives the processes, so several runs of the program   *)
(* are modelled.  Each run creates at most one queue object, numbered by   *)
(* the run.  A run can be interrupted anywhere, its child with it (Ctrl-C) *)
(* or not (SIGKILL of the parent alone): an orphaned child keeps its       *)
(* descriptor and goes on serving the object it has open.                  *)
(*                                                                         *)
(* An interrupt is also the only way out of the final join: the load       *)
(* threads never reach a cancellation point in while (1) counter++, so     *)
(* pthread_join does not return after pthread_cancel, and the mq_close and *)
(* mq_unlink behind it have no action here.                                *)
(*                                                                         *)
(* A message is abstracted to the run and the process that sent it.        *)
(***************************************************************************)
EXTENDS Naturals, Sequences, FiniteSets

CONSTANTS
  Iterations,   \* ITERATIONS
  MaxMsg,       \* attr.mq_maxmsg
  MaxRuns,      \* bound on the number of times the program is started
  MaxFaults     \* bound on failing system calls, over all runs

ASSUME IterationsAssumption == Iterations \in Nat \ {0}
ASSUME BoundsAssumption ==
  MaxMsg \in Nat \ {0} /\ MaxRuns \in Nat \ {0} /\ MaxFaults \in Nat

Runs == 1..MaxRuns
NoQueue == 0

VARIABLES
  run,        \* the current run
  parent,     \* program counter of the current run's parent
  child,      \* program counter of the child of each run
  name,       \* the queue object QUEUE_NAME is linked to, or NoQueue
  mq,         \* the queue object each run has open, or NoQueue
  queue,      \* contents of each queue object
  buffer,     \* each child's buffer
  echoes,     \* each child's loop counter
  rounds,     \* the parent's loop counter
  received,   \* what the parent's mq_receive calls returned, in order
  faults      \* failed system calls so far

vars == <<run, parent, child, name, mq, queue, buffer, echoes, rounds,
          received, faults>>

mqs == <<name, mq, queue>>
childVars == <<child, buffer, echoes>>
loopVars == <<rounds, received>>

Message == [run : Runs, by : {"parent", "child"}]
ParentPC == {"start", "unlink", "open", "load", "fork", "send", "recv",
             "kill", "join", "over"}
ChildPC == {"none", "recv", "send", "exited", "failed", "killed"}
Ended == {"none", "exited", "failed", "killed"}

Init ==
  /\ run = 1
  /\ parent = "start"
  /\ child = [r \in Runs |-> "none"]
  /\ name = NoQueue
  /\ mq = [r \in Runs |-> NoQueue]
  /\ queue = [r \in Runs |-> <<>>]
  /\ buffer = [r \in Runs |-> <<>>]
  /\ echoes = [r \in Runs |-> 0]
  /\ rounds = 0
  /\ received = <<>>
  /\ faults = 0

Fault == faults < MaxFaults /\ faults' = faults + 1

------------------------------------------------------------------------------
(* The parent.                                                             *)

\* parse_sched_policy accepts the argument, or exits.
ParsePolicy ==
  /\ parent = "start"
  /\ parent' \in {"unlink", "over"}
  /\ UNCHANGED <<run, mqs, childVars, loopVars, faults>>

\* Variant: the queue of an earlier run is not removed.
UnlinkNothing ==
  /\ parent = "unlink"
  /\ parent' = "open"
  /\ UNCHANGED <<run, mqs, childVars, loopVars, faults>>

\* mq_unlink(QUEUE_NAME); its result is ignored.
Unlink ==
  /\ parent = "unlink"
  /\ name' = NoQueue
  /\ parent' = "open"
  /\ UNCHANGED <<run, mq, queue, childVars, loopVars, faults>>

\* mq_open with O_CREAT and without O_EXCL.
Open ==
  /\ parent = "open"
  /\ name' = IF name = NoQueue THEN run ELSE name
  /\ mq' = [mq EXCEPT ![run] = name']
  /\ parent' = "load"
  /\ UNCHANGED <<run, queue, childVars, loopVars, faults>>

\* The load threads only use CPU time: nothing below depends on them.
StartLoad ==
  /\ parent = "load"
  /\ parent' = "fork"
  /\ UNCHANGED <<run, mqs, childVars, loopVars, faults>>

\* mq_open or pthread_create fails: exit, the name stays.
SetupFails ==
  /\ parent \in {"open", "load"}
  /\ Fault
  /\ parent' = "over"
  /\ UNCHANGED <<run, mqs, childVars, loopVars>>

Fork ==
  /\ parent = "fork"
  /\ child' = [child EXCEPT ![run] = "recv"]
  /\ parent' = "send"
  /\ UNCHANGED <<run, mqs, buffer, echoes, loopVars, faults>>

\* fork fails: mq_close, mq_unlink, exit.
ForkFails ==
  /\ parent = "fork"
  /\ Fault
  /\ name' = NoQueue
  /\ parent' = "over"
  /\ UNCHANGED <<run, mq, queue, childVars, loopVars>>

Send ==
  /\ parent = "send"
  /\ rounds < Iterations
  /\ Len(queue[mq[run]]) < MaxMsg
  /\ queue' = [queue EXCEPT ![mq[run]] =
                 Append(@, [run |-> run, by |-> "parent"])]
  /\ parent' = "recv"
  /\ UNCHANGED <<run, name, mq, childVars, loopVars, faults>>

\* mq_receive takes the oldest message, whoever sent it.
Receive ==
  /\ parent = "recv"
  /\ queue[mq[run]] # <<>>
  /\ received' = Append(received, Head(queue[mq[run]]))
  /\ queue' = [queue EXCEPT ![mq[run]] = Tail(@)]
  /\ rounds' = rounds + 1
  /\ parent' = "send"
  /\ UNCHANGED <<run, name, mq, childVars, faults>>

LoopDone ==
  /\ parent = "send"
  /\ rounds = Iterations
  /\ parent' = "kill"
  /\ UNCHANGED <<run, mqs, childVars, loopVars, faults>>

\* mq_send or mq_receive fails: break.
BreakLoop ==
  /\ \/ parent = "send" /\ rounds < Iterations
     \/ parent = "recv"
  /\ Fault
  /\ parent' = "kill"
  /\ UNCHANGED <<run, mqs, childVars, loopVars>>

\* The report, then kill(pid, SIGKILL); pthread_join follows.
KillChild ==
  /\ parent = "kill"
  /\ child' = [child EXCEPT ![run] = IF @ \in Ended THEN @ ELSE "killed"]
  /\ parent' = "join"
  /\ UNCHANGED <<run, mqs, buffer, echoes, loopVars, faults>>

------------------------------------------------------------------------------
(* The echo child of run r.                                                *)

ChildRecv(r) ==
  /\ child[r] = "recv"
  /\ echoes[r] < Iterations
  /\ queue[mq[r]] # <<>>
  /\ buffer' = [buffer EXCEPT ![r] = <<Head(queue[mq[r]])>>]
  /\ queue' = [queue EXCEPT ![mq[r]] = Tail(@)]
  /\ child' = [child EXCEPT ![r] = "send"]
  /\ UNCHANGED <<run, parent, name, mq, echoes, loopVars, faults>>

\* Variant: the child reads and does not answer.
ChildSendNothing(r) ==
  /\ child[r] = "send"
  /\ echoes' = [echoes EXCEPT ![r] = @ + 1]
  /\ child' = [child EXCEPT ![r] = "recv"]
  /\ UNCHANGED <<run, parent, mqs, buffer, loopVars, faults>>

ChildSend(r) ==
  /\ child[r] = "send"
  /\ Len(queue[mq[r]]) < MaxMsg
  /\ queue' = [queue EXCEPT ![mq[r]] =
                 Append(@, [buffer[r][1] EXCEPT !.by = "child"])]
  /\ echoes' = [echoes EXCEPT ![r] = @ + 1]
  /\ child' = [child EXCEPT ![r] = "recv"]
  /\ UNCHANGED <<run, parent, name, mq, buffer, loopVars, faults>>

\* Variant: a failing mq_receive is reported and the echo sent all the same.
ChildFailsAndGoesOn(r) ==
  /\ child[r] = "recv" /\ echoes[r] < Iterations /\ buffer[r] # <<>>
  /\ Fault
  /\ child' = [child EXCEPT ![r] = "send"]
  /\ UNCHANGED <<run, parent, mqs, buffer, echoes, loopVars>>

\* mq_receive or mq_send fails: exit(EXIT_FAILURE).
ChildFails(r) ==
  /\ \/ child[r] = "recv" /\ echoes[r] < Iterations
     \/ child[r] = "send"
  /\ Fault
  /\ child' = [child EXCEPT ![r] = "failed"]
  /\ UNCHANGED <<run, parent, mqs, buffer, echoes, loopVars>>

ChildExit(r) ==
  /\ child[r] = "recv"
  /\ echoes[r] = Iterations
  /\ child' = [child EXCEPT ![r] = "exited"]
  /\ UNCHANGED <<run, parent, mqs, buffer, echoes, loopVars, faults>>

------------------------------------------------------------------------------
(* The user.                                                               *)

\* Ctrl-C reaches the whole process group, SIGKILL the parent alone.
Interrupt ==
  /\ parent # "over"
  /\ parent' = "over"
  /\ \/ UNCHANGED child
     \/ child' = [child EXCEPT ![run] = IF @ \in Ended THEN @ ELSE "killed"]
  /\ UNCHANGED <<run, mqs, buffer, echoes, loopVars, faults>>

Rerun ==
  /\ parent = "over"
  /\ run < MaxRuns
  /\ run' = run + 1
  /\ parent' = "start"
  /\ rounds' = 0
  /\ received' = <<>>
  /\ UNCHANGED <<mqs, childVars, faults>>

ParentNext ==
  \/ ParsePolicy \/ Unlink \/ Open \/ StartLoad \/ Fork
  \/ Send \/ Receive \/ LoopDone \/ KillChild

ChildNext(r) == ChildRecv(r) \/ ChildSend(r) \/ ChildExit(r)

Next ==
  \/ ParentNext
  \/ SetupFails \/ ForkFails \/ BreakLoop
  \/ \E r \in Runs : ChildNext(r) \/ ChildFails(r)
  \/ Interrupt \/ Rerun

Spec == Init /\ [][Next]_vars

\* No process is starved for ever: the parent is a real-time process, the
\* children compete with the load threads under the default policy.
FairSpec ==
  Spec /\ WF_vars(ParentNext) /\ \A r \in Runs : WF_vars(ChildNext(r))

------------------------------------------------------------------------------
(* Properties.                                                             *)

\* Every variable of ipc_latency.c keeps its type and its range.
TypeOK ==
  /\ run \in Runs
  /\ parent \in ParentPC
  /\ child \in [Runs -> ChildPC]
  /\ name \in Runs \union {NoQueue}
  /\ mq \in [Runs -> Runs \union {NoQueue}]
  /\ \A r \in Runs : queue[r] \in Seq(Message) /\ Len(queue[r]) <= MaxMsg
  /\ \A r \in Runs : buffer[r] \in Seq(Message) /\ Len(buffer[r]) <= 1
  /\ echoes \in [Runs -> 0..Iterations]
  /\ rounds \in 0..Iterations
  /\ received \in Seq(Message) /\ Len(received) = rounds
  /\ faults \in 0..MaxFaults

\* Messages on their way through queue object q.
InFlight(q) ==
  Len(queue[q]) + Cardinality({r \in Runs : mq[r] = q /\ child[r] = "send"})

\* One token per run: the queue of the running parent holds nothing when the
\* parent sends and one message while it waits, unless this run's child failed
\* with the message in its hands.  It is what keeps a queue shared by two
\* senders from filling up, and what lets the parent wait without a timeout.
OneToken ==
  /\ parent = "send" => InFlight(mq[run]) = 0
  /\ parent = "recv" => \/ InFlight(mq[run]) = 1
                        \/ InFlight(mq[run]) = 0 /\ child[run] = "failed"

\* The invariant of the shared queue: types, and one token.
Inv == TypeOK /\ OneToken

\* Whatever an interrupted run left behind (its queue name, a message in it,
\* an orphaned child), the parent only receives messages of its own run.
OwnRunOnly == \A i \in 1..Len(received) : received[i].run = run

\* A run that got past its argument reaches the report, although parent and
\* child steal each other's messages, unless somebody interrupts it or the
\* child fails and takes the message along.
EveryRunReports ==
  parent = "unlink" ~>
    \/ parent \in {"join", "over"}
    \/ parent = "recv" /\ queue[mq[run]] = <<>> /\ child[run] = "failed"

\* "Measure round-trip latency" (the comment above the timed loop): each
\* latency sample ends with the receipt of the child's echo.
SamplesAreRoundTrips == \A i \in 1..Len(received) : received[i].by = "child"
==============================================================================
