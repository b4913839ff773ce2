-------------------------- MODULE IpcMqLatencyProofs --------------------------
(***************************************************************************)
(* Proofs about IpcMqLatency for every number of iterations, every queue   *)
(* capacity and every number of failing calls.                             *)
(*                                                                         *)
(* The inductive invariant says where the one message is (Token): nowhere, *)
(* in ptoc, in the child's buffer or in ctop, and that wherever it is it   *)
(* carries the number of the round the parent is in.                       *)
(***************************************************************************)
EXTENDS IpcMqLatency, TLAPS

BeforeFork == {"start", "unlink", "open_ptoc", "open_ctop", "fork"}

\* Before fork nothing has been counted, and what a previous run left behind
\* is gone by the time the child could see it.
Prepared ==
  /\ child = "none" <=> parent \in BeforeFork \union {"failed"}
  /\ child = "none" => rounds = 0 /\ echoes = 0 /\ answer = 0
  /\ parent = "open_ptoc" => linked = {}
  /\ parent = "open_ctop" => ptoc = <<>> /\ "mq_ctop" \notin linked
  /\ parent = "fork" => ptoc = <<>> /\ ctop = <<>>

NoToken == ptoc = <<>> /\ ctop = <<>> /\ child # "send"

TokenInPtoc == ptoc = <<rounds + 1>> /\ ctop = <<>> /\ child # "send"

TokenInChild ==
  ptoc = <<>> /\ ctop = <<>> /\ child = "send" /\ buf = rounds + 1

TokenInCtop == ptoc = <<>> /\ ctop = <<rounds + 1>> /\ child # "send"

\* Where the message is, once the child runs.
Token ==
  Forked =>
    /\ parent = "send" => NoToken
    /\ parent = "recv" => rounds < Iterations
    /\ \/ NoToken
       \/ rounds < Iterations /\ (TokenInPtoc \/ TokenInChild \/ TokenInCtop)

IInv ==
  /\ TypeOK
  /\ Prepared
  /\ Token
  /\ AnswersMatch
  /\ EchoesInStep

------------------------------------------------------------------------------
(* Queues that hold nothing or one message.                                *)

\* An empty message queue.
LEMMA EmptyQueue ==
  ASSUME NEW S
  PROVE  <<>> \in Seq(S) /\ Len(<<>>) = 0
OBVIOUS

\* A message queue with a single message, and what mq_receive makes of it.
LEMMA OneInQueue ==
  ASSUME NEW S, NEW m \in S
  PROVE  /\ <<m>> \in Seq(S)
         /\ Len(<<m>>) = 1
         /\ <<m>> # <<>>
         /\ Head(<<m>>) = m
         /\ Tail(<<m>>) = <<>>
         /\ Append(<<>>, m) = <<m>>
OBVIOUS

\* Every initial state, whatever an earlier run left, satisfies the invariant.
LEMMA InitIInv == Init => IInv
<1> SUFFICES ASSUME Init PROVE IInv
  OBVIOUS
<1> USE IterationsAssumption, MaxMsgAssumption, FaultsAssumption
    DEF Init, Stale
<1>1. TypeOK
  <2>1. 0 \in 0..Iterations
    OBVIOUS
  <2>2. /\ <<>> \in Seq(0..Iterations) /\ Len(<<>>) = 0
        /\ <<0>> \in Seq(0..Iterations) /\ Len(<<0>>) = 1
    BY <2>1, EmptyQueue, OneInQueue
  <2>3. (ptoc = <<>> \/ ptoc = <<0>>) /\ (ctop = <<>> \/ ctop = <<0>>)
    BY DEF Leftover
  <2>4. /\ ptoc \in Seq(0..Iterations) /\ Len(ptoc) <= MaxMsg
        /\ ctop \in Seq(0..Iterations) /\ Len(ctop) <= MaxMsg
    <3>1. 0 <= MaxMsg /\ 1 <= MaxMsg
      OBVIOUS
    <3>2. ptoc \in Seq(0..Iterations) /\ (Len(ptoc) = 0 \/ Len(ptoc) = 1)
      BY <2>2, <2>3
    <3>3. ctop \in Seq(0..Iterations) /\ (Len(ctop) = 0 \/ Len(ctop) = 1)
      BY <2>2, <2>3
    <3>4. QED
      BY <3>1, <3>2, <3>3
  <2>5. QED
    BY <2>4 DEF TypeOK, ParentPC, ChildPC
<1>2. Prepared /\ Token /\ AnswersMatch /\ EchoesInStep
  BY DEF Prepared, BeforeFork, Token, Forked, AnswersMatch, EchoesInStep
<1>3. QED
  BY <1>1, <1>2 DEF IInv

\* Every step of either process, and every failing call, preserves it.
LEMMA NextIInv == IInv /\ [Next]_vars => IInv'
<1> SUFFICES ASSUME IInv, [Next]_vars PROVE IInv'
  OBVIOUS
<1> USE IterationsAssumption, MaxMsgAssumption, FaultsAssumption
    DEF IInv, TypeOK, ParentPC, ChildPC, Names, Prepared, BeforeFork, Token,
        NoToken, TokenInPtoc, TokenInChild, TokenInCtop, Forked, AnswersMatch,
        EchoesInStep, queues, counters
<1>1. CASE ParsePolicy
  BY <1>1 DEF ParsePolicy
<1>2. CASE Unlink
  BY <1>2 DEF Unlink
<1>3. CASE OpenPtoc
  <2>1. ptoc' = <<>> /\ ptoc' \in Seq(0..Iterations) /\ Len(ptoc') = 0
    BY <1>3, EmptyQueue DEF OpenPtoc
  <2>2. QED
    BY <1>3, <2>1 DEF OpenPtoc
<1>4. CASE OpenCtop
  BY <1>4 DEF OpenCtop
<1>5. CASE Fork
  BY <1>5 DEF Fork
<1>6. CASE ParentSend
  BY <1>6 DEF ParentSend
<1>7. CASE ParentRecv
  <2>1. rounds + 1 \in 0..Iterations /\ TokenInCtop
    BY <1>7 DEF ParentRecv
  <2>2. /\ Head(ctop) = rounds + 1
        /\ Tail(ctop) = <<>>
        /\ Len(ctop) = 1
    BY <2>1, OneInQueue
  <2>3. QED
    BY <1>7, <2>1, <2>2, EmptyQueue DEF ParentRecv
<1>8. CASE LoopDone
  BY <1>8 DEF LoopDone
<1>9. CASE CloseAndUnlink
  BY <1>9 DEF CloseAndUnlink
<1>10. CASE KillChild
  BY <1>10 DEF KillChild, Ended
<1>11. CASE WaitChild
  BY <1>11 DEF WaitChild, Ended
<1>12. CASE ChildRecv
  <2>1. rounds + 1 \in 0..Iterations /\ TokenInPtoc
    BY <1>12 DEF ChildRecv
  <2>2. Head(ptoc) = rounds + 1 /\ Tail(ptoc) = <<>>
    BY <2>1, OneInQueue
  <2>3. QED
    BY <1>12, <2>1, <2>2, EmptyQueue DEF ChildRecv
<1>13. CASE ChildSend
  BY <1>13 DEF ChildSend
<1>14. CASE ChildExit
  BY <1>14 DEF ChildExit
<1>15. CASE SetupFails
  BY <1>15 DEF SetupFails, Fault
<1>16. CASE BreakLoop
  BY <1>16 DEF BreakLoop, Fault
<1>17. CASE ChildFails
  BY <1>17 DEF ChildFails, Fault
<1>18. CASE UNCHANGED vars
  BY <1>18 DEF vars
<1>19. QED
  BY <1>1, <1>2, <1>3, <1>4, <1>5, <1>6, <1>7, <1>8, <1>9, <1>10, <1>11, <1>12,
     <1>13, <1>14, <1>15, <1>16, <1>17, <1>18
  DEF Next, ParentNext, ChildNext, Failure

\* The inductive invariant holds in every reachable state.
LEMMA AlwaysIInv == Spec => []IInv
  BY InitIInv, NextIInv, PTL DEF Spec

\* Every variable of ipc_mq_latency.c keeps its type and its range.
THEOREM TypeCorrect == Spec => []TypeOK
<1>1. IInv => TypeOK
  BY DEF IInv
<1>2. QED
  BY <1>1, AlwaysIInv, PTL

\* At most one message is ever in flight, so no mq_send blocks.
THEOREM NeverTwoMessages == Spec => []OneMessage
<1>1. IInv => OneMessage
  <2> SUFFICES ASSUME IInv, Forked PROVE OneMessage
    BY DEF OneMessage
  <2>1. Len(<<>>) = 0
    BY EmptyQueue
  <2>2. rounds \in Nat /\ Len(<<rounds + 1>>) = 1
    BY OneInQueue, IterationsAssumption DEF IInv, TypeOK
  <2>3. CASE NoToken
    BY <2>1, <2>3 DEF NoToken, OneMessage
  <2>4. CASE parent # "send" /\ TokenInPtoc
    BY <2>1, <2>2, <2>4 DEF TokenInPtoc, OneMessage
  <2>5. CASE parent # "send" /\ TokenInChild
    BY <2>1, <2>5 DEF TokenInChild, OneMessage
  <2>6. CASE parent # "send" /\ TokenInCtop
    BY <2>1, <2>2, <2>6 DEF TokenInCtop, OneMessage
  <2>7. QED
    BY <2>3, <2>4, <2>5, <2>6 DEF IInv, Token
<1>2. QED
  BY <1>1, AlwaysIInv, PTL

\* The parent never reads a leftover message or the echo of another round.
THEOREM AnswersAreEchoes == Spec => []AnswersMatch
<1>1. IInv => AnswersMatch
  BY DEF IInv
<1>2. QED
  BY <1>1, AlwaysIInv, PTL

\* The loop counters of parent and child never drift apart.
THEOREM CountersInStep == Spec => []EchoesInStep
<1>1. IInv => EchoesInStep
  BY DEF IInv
<1>2. QED
  BY <1>1, AlwaysIInv, PTL

\* The invariant the run checks: types, one message at most, loops in step.
THEOREM Invariant == Spec => []Inv
  BY TypeCorrect, NeverTwoMessages, AnswersAreEchoes, CountersInStep, PTL
     DEF Inv

------------------------------------------------------------------------------
(* Refinement: the exchange over the two queues implements RoundTrip.      *)

\* Every initial state maps to the initial state of RoundTrip.
LEMMA InitRefines == Init => RT!Init
  BY DEF Init, RT!Init, Phase

\* Each step maps to a request, a service, a completion, a stop or a stutter.
LEMMA NextRefines == IInv /\ [Next]_vars => [RT!Next]_(RT!vars)
<1> SUFFICES ASSUME IInv, [Next]_vars PROVE [RT!Next]_(RT!vars)
  OBVIOUS
<1> USE IterationsAssumption
    DEF IInv, TypeOK, ParentPC, ChildPC, Prepared, BeforeFork, Token, NoToken,
        TokenInPtoc, TokenInChild, TokenInCtop, Forked, Phase, RT!vars,
        queues, counters
<1>1. CASE ParentSend
  <2>1. RT!Request
    BY <1>1 DEF ParentSend, RT!Request
  <2>2. QED
    BY <2>1 DEF RT!Next
<1>2. CASE ChildSend
  <2>1. CASE parent = "recv"
    <3>1. TokenInChild /\ rounds + 1 \in 0..Iterations
      BY <1>2, <2>1 DEF ChildSend
    <3>2. ctop' = <<rounds + 1>> /\ ctop' # <<>>
      BY <1>2, <3>1, OneInQueue DEF ChildSend
    <3>3. RT!Serve
      BY <1>2, <2>1, <3>1, <3>2 DEF ChildSend, RT!Serve
    <3>4. QED
      BY <3>3 DEF RT!Next
  <2>2. CASE parent # "recv"
    BY <1>2, <2>2 DEF ChildSend
  <2>3. QED
    BY <2>1, <2>2
<1>3. CASE ParentRecv
  <2>1. RT!Complete
    BY <1>3 DEF ParentRecv, RT!Complete
  <2>2. QED
    BY <2>1 DEF RT!Next
<1>4. CASE LoopDone \/ BreakLoop \/ SetupFails
  <2>1. RT!Stop
    BY <1>4 DEF LoopDone, BreakLoop, SetupFails, RT!Stop
  <2>2. QED
    BY <2>1 DEF RT!Next
<1>5. CASE ParsePolicy
  <2>1. RT!Stop \/ UNCHANGED RT!vars
    BY <1>5 DEF ParsePolicy, RT!Stop
  <2>2. QED
    BY <2>1 DEF RT!Next
<1>6. CASE Unlink \/ OpenPtoc \/ OpenCtop \/ Fork
  BY <1>6 DEF Unlink, OpenPtoc, OpenCtop, Fork
<1>7. CASE CloseAndUnlink \/ KillChild \/ WaitChild
  BY <1>7 DEF CloseAndUnlink, KillChild, WaitChild
<1>8. CASE ChildRecv \/ ChildExit \/ ChildFails
  BY <1>8 DEF ChildRecv, ChildExit, ChildFails
<1>9. CASE UNCHANGED vars
  BY <1>9 DEF vars
<1>10. QED
  BY <1>1, <1>2, <1>3, <1>4, <1>5, <1>6, <1>7, <1>8, <1>9
  DEF Next, ParentNext, ChildNext, Failure

\* ipc_mq_latency.c implements RoundTrip: each sample is a round trip.
THEOREM Refinement == Spec => ImplementsRoundTrip
  BY InitRefines, NextRefines, AlwaysIInv, PTL
  DEF Spec, ImplementsRoundTrip, RT!Spec
==============================================================================
