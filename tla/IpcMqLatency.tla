----------------------------- MODULE IpcMqLatency -----------------------------
(***************************************************************************)
(* ipc/ipc_mq_latency.c: a parent times Iterations round trips to an echo  *)
(* child over two POSIX message queues, ptoc (parent to child) and ctop.   *)
(*                                                                         *)
(* Queue names outlive the processes: a run that was killed, or that left  *)
(* through one of the error exits, leaves its names, and perhaps the       *)
(* message in flight, to the next run.  Init covers every such leftover.   *)
(* mq_open has no O_EXCL: it opens what is linked and creates what is not. *)
(*                                                                         *)
(* The 64 bytes of a message are abstracted to the round it was sent in    *)
(* (Stale for a leftover).  The program does not send that number: it is   *)
(* what tells here whose answer the parent is reading.                     *)
(***************************************************************************)
EXTENDS Integers, Sequences

CONSTANTS
  Iterations,   \* ITERATIONS
  MaxMsg,       \* attr.mq_maxmsg
  MaxFaults     \* bound on failing system calls in a run

ASSUME IterationsAssumption == Iterations \in Nat \ {0}
ASSUME MaxMsgAssumption == MaxMsg \in Nat \ {0}
ASSUME FaultsAssumption == MaxFaults \in Nat

VARIABLES
  parent, child,   \* program counters of the two processes
  linked,          \* the queue names that exist in the system
  ptoc, ctop,      \* contents of the two queues, oldest message first
  buf,             \* the child's buffer
  rounds,          \* the parent's loop counter i
  answer,          \* the message the parent received last
  echoes,          \* the child's loop counter i
  faults           \* failed system calls so far

vars == <<parent, child, linked, ptoc, ctop, buf, rounds, answer, echoes,
          faults>>

queues == <<linked, ptoc, ctop>>
counters == <<rounds, answer, echoes>>

Names == {"mq_ptoc", "mq_ctop"}
Stale == 0

ParentPC == {"start", "unlink", "open_ptoc", "open_ctop", "fork", "send",
             "recv", "close", "kill", "wait", "done", "failed"}
ChildPC == {"none", "recv", "send", "exited", "failed", "killed"}
Ended == {"exited", "failed", "killed"}

\* A previous run had at most one message in flight when it stopped.
Leftover == {<< <<>>, <<>> >>, << <<Stale>>, <<>> >>, << <<>>, <<Stale>> >>}

Init ==
  /\ parent = "start"
  /\ child = "none"
  /\ linked \in SUBSET Names
  /\ \E left \in Leftover :
       /\ ptoc = left[1]
       /\ ctop = left[2]
  /\ ptoc # <<>> => "mq_ptoc" \in linked
  /\ ctop # <<>> => "mq_ctop" \in linked
  /\ buf = Stale
  /\ rounds = 0
  /\ answer = Stale
  /\ echoes = 0
  /\ faults = 0

Fault == faults < MaxFaults /\ faults' = faults + 1

------------------------------------------------------------------------------
(* The parent.                                                             *)

\* parse_sched_policy accepts the argument, or exits.
ParsePolicy ==
  /\ parent = "start"
  /\ parent' \in {"unlink", "failed"}
  /\ UNCHANGED <<child, queues, buf, counters, faults>>

\* Variant: the queues of an earlier run are not removed.
UnlinkNothing ==
  /\ parent = "unlink"
  /\ parent' = "open_ptoc"
  /\ UNCHANGED <<child, queues, buf, counters, faults>>

\* mq_unlink of both names; the results are ignored.
Unlink ==
  /\ parent = "unlink"
  /\ linked' = {}
  /\ parent' = "open_ptoc"
  /\ UNCHANGED <<child, ptoc, ctop, buf, counters, faults>>

OpenPtoc ==
  /\ parent = "open_ptoc"
  /\ linked' = linked \union {"mq_ptoc"}
  /\ ptoc' = IF "mq_ptoc" \in linked THEN ptoc ELSE <<>>
  /\ parent' = "open_ctop"
  /\ UNCHANGED <<child, ctop, buf, counters, faults>>

OpenCtop ==
  /\ parent = "open_ctop"
  /\ linked' = linked \union {"mq_ctop"}
  /\ ctop' = IF "mq_ctop" \in linked THEN ctop ELSE <<>>
  /\ parent' = "fork"
  /\ UNCHANGED <<child, ptoc, buf, counters, faults>>

\* mq_open or fork fails: exit(EXIT_FAILURE) without removing any name.
SetupFails ==
  /\ parent \in {"open_ptoc", "open_ctop", "fork"}
  /\ Fault
  /\ parent' = "failed"
  /\ UNCHANGED <<child, queues, buf, counters>>

Fork ==
  /\ parent = "fork"
  /\ parent' = "send"
  /\ child' = "recv"
  /\ UNCHANGED <<queues, buf, counters, faults>>

\* mq_send blocks while the queue is full.
ParentSend ==
  /\ parent = "send"
  /\ rounds < Iterations
  /\ Len(ptoc) < MaxMsg
  /\ ptoc' = Append(ptoc, rounds + 1)
  /\ parent' = "recv"
  /\ UNCHANGED <<child, linked, ctop, buf, counters, faults>>

\* Variant: the sample is counted without waiting for the answer.
ParentRecvNoWait ==
  /\ parent = "recv"
  /\ ctop' = IF ctop = <<>> THEN ctop ELSE Tail(ctop)
  /\ answer' = IF ctop = <<>> THEN answer ELSE Head(ctop)
  /\ rounds' = rounds + 1
  /\ parent' = "send"
  /\ UNCHANGED <<child, linked, ptoc, buf, echoes, faults>>

\* mq_receive blocks, without a timeout, while the queue is empty.
ParentRecv ==
  /\ parent = "recv"
  /\ ctop # <<>>
  /\ ctop' = Tail(ctop)
  /\ answer' = Head(ctop)
  /\ rounds' = rounds + 1
  /\ parent' = "send"
  /\ UNCHANGED <<child, linked, ptoc, buf, echoes, faults>>

LoopDone ==
  /\ parent = "send"
  /\ rounds = Iterations
  /\ parent' = "close"
  /\ UNCHANGED <<child, queues, buf, counters, faults>>

\* mq_send or mq_receive fails: break.
BreakLoop ==
  /\ \/ parent = "send" /\ rounds < Iterations
     \/ parent = "recv"
  /\ Fault
  /\ parent' = "close"
  /\ UNCHANGED <<child, queues, buf, counters>>

\* mq_close and mq_unlink; the child's descriptors keep the queues alive.
CloseAndUnlink ==
  /\ parent = "close"
  /\ linked' = {}
  /\ parent' = "kill"
  /\ UNCHANGED <<child, ptoc, ctop, buf, counters, faults>>

\* Variant: the parent goes straight to wait(NULL).
KillNobody ==
  /\ parent = "kill"
  /\ parent' = "wait"
  /\ UNCHANGED <<child, queues, buf, counters, faults>>

\* SIGKILL ends the child wherever it is and does nothing to a zombie.
KillChild ==
  /\ parent = "kill"
  /\ child' = IF child \in Ended THEN child ELSE "killed"
  /\ parent' = "wait"
  /\ UNCHANGED <<queues, buf, counters, faults>>

WaitChild ==
  /\ parent = "wait"
  /\ child \in Ended
  /\ parent' = "done"
  /\ UNCHANGED <<child, queues, buf, counters, faults>>

------------------------------------------------------------------------------
(* The child: the echo server.                                             *)

ChildRecv ==
  /\ child = "recv"
  /\ echoes < Iterations
  /\ ptoc # <<>>
  /\ buf' = Head(ptoc)
  /\ ptoc' = Tail(ptoc)
  /\ child' = "send"
  /\ UNCHANGED <<parent, linked, ctop, counters, faults>>

\* Variant: the echo is sent twice.
ChildSendTwice ==
  /\ child = "send"
  /\ Len(ctop) < MaxMsg
  /\ ctop' = ctop \o <<buf, buf>>
  /\ echoes' = echoes + 1
  /\ child' = "recv"
  /\ UNCHANGED <<parent, linked, ptoc, buf, rounds, answer, faults>>

ChildSend ==
  /\ child = "send"
  /\ Len(ctop) < MaxMsg
  /\ ctop' = Append(ctop, buf)
  /\ echoes' = echoes + 1
  /\ child' = "recv"
  /\ UNCHANGED <<parent, linked, ptoc, buf, rounds, answer, faults>>

\* mq_receive or mq_send fails: exit(EXIT_FAILURE).
ChildFails ==
  /\ \/ child = "recv" /\ echoes < Iterations
     \/ child = "send"
  /\ Fault
  /\ child' = "failed"
  /\ UNCHANGED <<parent, queues, buf, counters>>

ChildExit ==
  /\ child = "recv"
  /\ echoes = Iterations
  /\ child' = "exited"
  /\ UNCHANGED <<parent, queues, buf, counters, faults>>

------------------------------------------------------------------------------
ParentNext ==
  \/ ParsePolicy \/ Unlink \/ OpenPtoc \/ OpenCtop \/ Fork
  \/ ParentSend \/ ParentRecv \/ LoopDone
  \/ CloseAndUnlink \/ KillChild \/ WaitChild

ChildNext == ChildRecv \/ ChildSend \/ ChildExit

Failure == SetupFails \/ BreakLoop \/ ChildFails

Next == ParentNext \/ ChildNext \/ Failure

Spec == Init /\ [][Next]_vars

\* Both processes keep running: a process that is not blocked in a queue
\* operation takes its next step.  No call has to fail.
FairSpec == Spec /\ WF_vars(ParentNext) /\ WF_vars(ChildNext)

------------------------------------------------------------------------------
(* Properties.                                                             *)

\* Every variable of ipc_mq_latency.c keeps its type and its range.
TypeOK ==
  /\ parent \in ParentPC
  /\ child \in ChildPC
  /\ linked \in SUBSET Names
  /\ ptoc \in Seq(0..Iterations)
  /\ ctop \in Seq(0..Iterations)
  /\ Len(ptoc) <= MaxMsg /\ Len(ctop) <= MaxMsg
  /\ buf \in 0..Iterations
  /\ answer \in 0..Iterations
  /\ rounds \in 0..Iterations
  /\ echoes \in 0..Iterations
  /\ faults \in 0..MaxFaults

Forked == child # "none"

\* One token: once the child runs, at most one message is in flight, in one
\* of the queues or in the child's buffer, and there is none when the parent
\* is about to send.  So neither mq_send can block on a full queue.
OneMessage ==
  Forked =>
    /\ Len(ptoc) + Len(ctop) + (IF child = "send" THEN 1 ELSE 0) <= 1
    /\ parent = "send" => ptoc = <<>> /\ ctop = <<>> /\ child # "send"

\* Every answer the parent receives is the echo of the message it sent in
\* that round: never a leftover of an earlier run, never an earlier echo.
AnswersMatch == answer = rounds

\* The two loop counters stay in step: the child has echoed every completed
\* round and the one whose echo waits in ctop.  So when all rounds are done
\* the SIGKILL of the cleanup finds no echo half done.
EchoesInStep == Forked => echoes = rounds + Len(ctop)

\* The invariant of the exchange: types, one message, an answer to each, and
\* counters in step.
Inv == TypeOK /\ OneMessage /\ AnswersMatch /\ EchoesInStep

\* Whatever fails, the program ends, with one exception: when the child has
\* failed the parent waits in mq_receive, which has no timeout, for an answer
\* nobody will send.  If nothing fails it has then measured all rounds and
\* leaves no queue name behind.
EndsUnlessChildFails ==
  <>(\/ parent = "failed"
     \/ /\ parent = "done"
        /\ faults = 0 => rounds = Iterations /\ linked = {}
     \/ parent = "recv" /\ ctop = <<>> /\ child = "failed")

\* A request is made by mq_send on ptoc and served by mq_send on ctop.
Phase ==
  IF parent \in {"start", "unlink", "open_ptoc", "open_ctop", "fork", "send"}
  THEN "idle"
  ELSE IF parent # "recv" THEN "stopped"
  ELSE IF ctop = <<>> THEN "requested" ELSE "served"

RT == INSTANCE RoundTrip WITH phase <- Phase

\* Every latency sample of ipc_mq_latency.c is the time of one round trip.
ImplementsRoundTrip == RT!Spec
==============================================================================
