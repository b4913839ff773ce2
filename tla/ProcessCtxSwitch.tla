--------------------------- MODULE ProcessCtxSwitch ---------------------------
(***************************************************************************)
(* scheduling/process/process_ctx_switch.c: parent and child pass one byte *)
(* back and forth over two pipes, p2c and c2p.                             *)
(*                                                                         *)
(* A pipe is the number of bytes in it and the descriptors still open on   *)
(* it.  read blocks on an empty pipe as long as some process, the reader   *)
(* included, holds a write end, and returns 0 (end of file) after that.    *)
(* write to a pipe without a read end kills the writer with SIGPIPE, which *)
(* the program leaves at its default action.  A process that ends, in      *)
(* whatever way, closes its descriptors.                                   *)
(***************************************************************************)
EXTENDS Naturals

CONSTANTS
  MaxIterations,   \* bound on the argument; atoi may also yield 0
  Capacity,        \* bytes a pipe holds
  MaxFaults        \* bound on failing system calls and kills

ASSUME IterationsAssumption == MaxIterations \in Nat
ASSUME BoundsAssumption == Capacity \in Nat \ {0} /\ MaxFaults \in Nat

VARIABLES
  iterations,      \* the argument; a negative one behaves as 0
  parent, child,   \* program counters
  open,            \* open descriptors: <<process, pipe, end>>
  bytes,           \* bytes in each pipe
  rounds, echoes,  \* loop counters of parent and child
  faults           \* failures so far

vars == <<iterations, parent, child, open, bytes, rounds, echoes, faults>>

Pipes == {"p2c", "c2p"}
Ends == {"read", "write"}
Descriptors(proc) == {proc} \X Pipes \X Ends

ParentPC == {"pipe", "fork", "close", "start", "write", "read", "wait",
             "done", "failed", "killed"}
ChildPC == {"none", "close", "read", "write", "exited", "failed", "killed"}
ParentEnd == {"done", "failed", "killed"}
ChildEnd == {"none", "exited", "failed", "killed"}

Init ==
  /\ iterations \in 0..MaxIterations
  /\ parent = "pipe"
  /\ child = "none"
  /\ open = {}
  /\ bytes = [p \in Pipes |-> 0]
  /\ rounds = 0
  /\ echoes = 0
  /\ faults = 0

------------------------------------------------------------------------------
(* What read and write do.                                                 *)

Fault == faults < MaxFaults /\ faults' = faults + 1

HasEnd(pipe, end) == \E d \in open : d[2] = pipe /\ d[3] = end

CanRead(pipe) == bytes[pipe] > 0
AtEof(pipe) == bytes[pipe] = 0 /\ ~HasEnd(pipe, "write")
CanWrite(pipe) == HasEnd(pipe, "read") /\ bytes[pipe] < Capacity

CloseAll(proc) == open' = open \ Descriptors(proc)

------------------------------------------------------------------------------
(* The parent.                                                             *)

MakePipes ==
  /\ parent = "pipe"
  /\ open' = Descriptors("parent")
  /\ parent' = "fork"
  /\ UNCHANGED <<iterations, child, bytes, rounds, echoes, faults>>

\* The child inherits all four descriptors.
Fork ==
  /\ parent = "fork"
  /\ open' = open \union Descriptors("child")
  /\ parent' = "close"
  /\ child' = "close"
  /\ UNCHANGED <<iterations, bytes, rounds, echoes, faults>>

ParentClose ==
  /\ parent = "close"
  /\ open' = open \ {<<"parent", "p2c", "read">>, <<"parent", "c2p", "write">>}
  /\ parent' = "start"
  /\ UNCHANGED <<iterations, child, bytes, rounds, echoes, faults>>

\* The first clock_gettime.
StartClock ==
  /\ parent = "start"
  /\ parent' = "write"
  /\ UNCHANGED <<iterations, child, open, bytes, rounds, echoes, faults>>

ParentWrite ==
  /\ parent = "write"
  /\ rounds < iterations
  /\ CanWrite("p2c")
  /\ bytes' = [bytes EXCEPT !["p2c"] = @ + 1]
  /\ parent' = "read"
  /\ UNCHANGED <<iterations, child, open, rounds, echoes, faults>>

ParentSigpipe ==
  /\ parent = "write"
  /\ rounds < iterations
  /\ ~HasEnd("p2c", "read")
  /\ parent' = "killed"
  /\ CloseAll("parent")
  /\ UNCHANGED <<iterations, child, bytes, rounds, echoes, faults>>

ParentRead ==
  /\ parent = "read"
  /\ CanRead("c2p")
  /\ bytes' = [bytes EXCEPT !["c2p"] = @ - 1]
  /\ rounds' = rounds + 1
  /\ parent' = "write"
  /\ UNCHANGED <<iterations, child, open, echoes, faults>>

\* read returns 0 instead of 1: return 1.
ParentEof ==
  /\ parent = "read"
  /\ AtEof("c2p")
  /\ parent' = "failed"
  /\ CloseAll("parent")
  /\ UNCHANGED <<iterations, child, bytes, rounds, echoes, faults>>

\* The second clock_gettime and the report.
LoopDone ==
  /\ parent = "write"
  /\ rounds = iterations
  /\ parent' = "wait"
  /\ UNCHANGED <<iterations, child, open, bytes, rounds, echoes, faults>>

Wait ==
  /\ parent = "wait"
  /\ child \in ChildEnd
  /\ parent' = "done"
  /\ CloseAll("parent")
  /\ UNCHANGED <<iterations, child, bytes, rounds, echoes, faults>>

\* pipe, fork, either clock_gettime, write or read fails: return 1, not waiting
\* for the child.
ParentFails ==
  /\ parent \in {"pipe", "fork", "start", "write", "read"}
  /\ Fault
  /\ parent' = "failed"
  /\ CloseAll("parent")
  /\ UNCHANGED <<iterations, child, bytes, rounds, echoes>>

------------------------------------------------------------------------------
(* The child.                                                              *)

\* Variant: the child keeps its copy of the parent's write end.
ChildCloseKeepsWriteEnd ==
  /\ child = "close"
  /\ open' = open \ {<<"child", "c2p", "read">>}
  /\ child' = "read"
  /\ UNCHANGED <<iterations, parent, bytes, rounds, echoes, faults>>

ChildClose ==
  /\ child = "close"
  /\ open' = open \ {<<"child", "p2c", "write">>, <<"child", "c2p", "read">>}
  /\ child' = "read"
  /\ UNCHANGED <<iterations, parent, bytes, rounds, echoes, faults>>

ChildRead ==
  /\ child = "read"
  /\ echoes < iterations
  /\ CanRead("p2c")
  /\ bytes' = [bytes EXCEPT !["p2c"] = @ - 1]
  /\ child' = "write"
  /\ UNCHANGED <<iterations, parent, open, rounds, echoes, faults>>

\* read returns 0 instead of 1: exit(1).
ChildEof ==
  /\ child = "read"
  /\ echoes < iterations
  /\ AtEof("p2c")
  /\ child' = "failed"
  /\ CloseAll("child")
  /\ UNCHANGED <<iterations, parent, bytes, rounds, echoes, faults>>

\* Variant: the child writes two bytes, say the size of an int.
ChildWriteTwo ==
  /\ child = "write"
  /\ CanWrite("c2p")
  /\ bytes' = [bytes EXCEPT !["c2p"] = @ + 2]
  /\ echoes' = echoes + 1
  /\ child' = "read"
  /\ UNCHANGED <<iterations, parent, open, rounds, faults>>

ChildWrite ==
  /\ child = "write"
  /\ CanWrite("c2p")
  /\ bytes' = [bytes EXCEPT !["c2p"] = @ + 1]
  /\ echoes' = echoes + 1
  /\ child' = "read"
  /\ UNCHANGED <<iterations, parent, open, rounds, faults>>

ChildSigpipe ==
  /\ child = "write"
  /\ ~HasEnd("c2p", "read")
  /\ child' = "killed"
  /\ CloseAll("child")
  /\ UNCHANGED <<iterations, parent, bytes, rounds, echoes, faults>>

\* Variant: the child stops one byte early.
ChildExitEarly ==
  /\ child = "read"
  /\ echoes + 1 >= iterations
  /\ child' = "exited"
  /\ CloseAll("child")
  /\ UNCHANGED <<iterations, parent, bytes, rounds, echoes, faults>>

ChildExit ==
  /\ child = "read"
  /\ echoes = iterations
  /\ child' = "exited"
  /\ CloseAll("child")
  /\ UNCHANGED <<iterations, parent, bytes, rounds, echoes, faults>>

\* read or write fails: exit(1).
ChildFails ==
  /\ \/ child = "read" /\ echoes < iterations
     \/ child = "write"
  /\ Fault
  /\ child' = "failed"
  /\ CloseAll("child")
  /\ UNCHANGED <<iterations, parent, bytes, rounds, echoes>>

------------------------------------------------------------------------------
\* Somebody kills one of the two processes.
Crash ==
  /\ Fault
  /\ \/ /\ parent \notin ParentEnd
        /\ parent' = "killed"
        /\ CloseAll("parent")
        /\ UNCHANGED child
     \/ /\ child \notin ChildEnd
        /\ child' = "killed"
        /\ CloseAll("child")
        /\ UNCHANGED parent
  /\ UNCHANGED <<iterations, bytes, rounds, echoes>>

ParentNext ==
  \/ MakePipes \/ Fork \/ ParentClose \/ StartClock
  \/ ParentWrite \/ ParentSigpipe \/ ParentRead \/ ParentEof
  \/ LoopDone \/ Wait

ChildNext ==
  \/ ChildClose \/ ChildRead \/ ChildEof \/ ChildWrite \/ ChildSigpipe
  \/ ChildExit

Next == ParentNext \/ ChildNext \/ ParentFails \/ ChildFails \/ Crash

Spec == Init /\ [][Next]_vars

\* Both are ordinary processes: one that is not blocked takes its next step.
FairSpec == Spec /\ WF_vars(ParentNext) /\ WF_vars(ChildNext)

------------------------------------------------------------------------------
(* Properties.                                                             *)

\* Every variable of process_ctx_switch.c keeps its type and its range.
TypeOK ==
  /\ iterations \in 0..MaxIterations
  /\ parent \in ParentPC
  /\ child \in ChildPC
  /\ open \subseteq Descriptors("parent") \union Descriptors("child")
  /\ bytes \in [Pipes -> 0..Capacity]
  /\ rounds \in 0..iterations
  /\ echoes \in 0..iterations
  /\ faults \in 0..MaxFaults

\* The one byte is in p2c, in the child's hands or in c2p while the parent
\* waits for it (or died waiting), and nowhere when the parent writes.  So no
\* write ever blocks on a full pipe.
OneByte ==
  LET inFlight == bytes["p2c"] + bytes["c2p"]
                    + (IF child = "write" THEN 1 ELSE 0)
  IN  /\ inFlight <= 1
      /\ parent = "write" => inFlight = 0

\* The loop counters of the two processes stay in step: a report that counts
\* all rounds is one in which the child echoed all of them.
EchoesInStep == echoes = rounds + bytes["c2p"]

\* The invariant of the two pipes: types, one byte, and counters in step.
Inv == TypeOK /\ OneByte /\ EchoesInStep

\* Whatever fails or dies, no process is left behind: the closed pipe ends let
\* each process see the end of the other (end of file, or SIGPIPE).  The
\* parent's error returns rely on it, since they do not wait for the child.
\* If nothing fails, the parent reports all its rounds, zero included, and the
\* child has met neither end of file nor SIGPIPE.
EverybodyEnds ==
  <>(/\ parent \in ParentEnd /\ child \in ChildEnd
     /\ faults = 0 =>
          parent = "done" /\ child = "exited" /\ rounds = iterations)

\* A request is the byte written to p2c; it is served by the one in c2p.
Phase ==
  IF parent \in {"pipe", "fork", "close", "start", "write"} THEN "idle"
  ELSE IF parent # "read" THEN "stopped"
  ELSE IF bytes["c2p"] = 0 THEN "requested" ELSE "served"

RT == INSTANCE RoundTrip WITH phase <- Phase, Iterations <- MaxIterations

\* Every counted round of process_ctx_switch.c is one round trip.
ImplementsRoundTrip == RT!Spec
==============================================================================
