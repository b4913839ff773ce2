------------------------ MODULE ProcessCtxSwitchProofs ------------------------
(***************************************************************************)
(* Proofs about ProcessCtxSwitch for every argument of the program, every  *)
(* pipe capacity and any number of failing calls and kills.                *)
(*                                                                         *)
(* The inductive invariant says where the one byte is (Token), whoever may *)
(* have died: nowhere, in p2c, in the child's hands or in c2p.             *)
(***************************************************************************)
EXTENDS ProcessCtxSwitch, TLAPS

Nowhere == bytes["p2c"] = 0 /\ bytes["c2p"] = 0 /\ child # "write"
InP2c == bytes["p2c"] = 1 /\ bytes["c2p"] = 0 /\ child # "write"
AtChild == bytes["p2c"] = 0 /\ bytes["c2p"] = 0 /\ child = "write"
InC2p == bytes["p2c"] = 0 /\ bytes["c2p"] = 1 /\ child # "write"

\* The parent has a byte on its way only while it waits for it, or after it
\* died or failed in that wait.
Token ==
  /\ Nowhere \/ InP2c \/ AtChild \/ InC2p
  /\ parent \in {"pipe", "fork", "close", "start", "write"} => Nowhere

\* A round is only begun, and only echoed, while there are any left.
Counters ==
  /\ parent = "read" => rounds < iterations
  /\ child = "write" => echoes < iterations

IInv == TypeOK /\ Token /\ EchoesInStep /\ Counters

LEMMA Sizes == MaxIterations \in Nat /\ Capacity \in Nat /\ Capacity >= 1
               /\ MaxFaults \in Nat
BY IterationsAssumption, BoundsAssumption

\* The numbers of the two pipes, apart from the function that holds them.
LEMMA PipeNumbers ==
  TypeOK => /\ bytes["p2c"] \in Nat /\ bytes["c2p"] \in Nat
            /\ iterations \in Nat /\ rounds \in Nat /\ echoes \in Nat
            /\ rounds <= iterations /\ echoes <= iterations
            /\ iterations <= MaxIterations
BY Sizes DEF TypeOK, Pipes

LEMMA InitInv == Init => IInv
<1> SUFFICES ASSUME Init PROVE IInv
  OBVIOUS
<1>1. TypeOK
  BY Sizes DEF Init, TypeOK, ParentPC, ChildPC, Pipes
<1>2. Token /\ EchoesInStep /\ Counters
  BY DEF Init, Token, Nowhere, EchoesInStep, Counters, Pipes
<1> QED BY <1>1, <1>2 DEF IInv

------------------------------------------------------------------------------
(* The steps that move the byte.                                           *)

LEMMA MoveInv ==
  IInv /\ (ParentWrite \/ ParentRead \/ ChildRead \/ ChildWrite) => IInv'
<1> SUFFICES ASSUME IInv,
                    ParentWrite \/ ParentRead \/ ChildRead \/ ChildWrite
             PROVE  IInv'
  OBVIOUS
<1>1. bytes \in [Pipes -> 0..Capacity]
  BY DEF IInv, TypeOK
<1>2. /\ bytes["p2c"] \in Nat /\ bytes["c2p"] \in Nat
      /\ iterations \in Nat /\ rounds \in Nat /\ echoes \in Nat
      /\ rounds <= iterations /\ echoes <= iterations
  BY PipeNumbers DEF IInv
<1> USE Sizes, <1>1, <1>2 DEF Pipes
<1>3. CASE ParentWrite
  <2>1. Nowhere /\ bytes'["p2c"] = 1 /\ bytes'["c2p"] = 0
    BY <1>3 DEF IInv, Token, Nowhere, ParentWrite
  <2>2. TypeOK'
    BY <1>3, <2>1 DEF IInv, TypeOK, ParentWrite, ParentPC, Nowhere
  <2>3. Token'
    BY <1>3, <2>1 DEF Token, Nowhere, InP2c, ParentWrite
  <2>4. EchoesInStep' /\ Counters'
    BY <1>3, <2>1 DEF IInv, EchoesInStep, Counters, Nowhere, ParentWrite
  <2> QED BY <2>2, <2>3, <2>4 DEF IInv
<1>4. CASE ParentRead
  <2>1. InC2p /\ bytes'["p2c"] = 0 /\ bytes'["c2p"] = 0
    BY <1>4 DEF IInv, Token, Nowhere, InP2c, AtChild, InC2p, ParentRead, CanRead
  <2>2. TypeOK'
    BY <1>4, <2>1 DEF IInv, TypeOK, ParentRead, ParentPC, InC2p, Counters
  <2>3. Token'
    BY <1>4, <2>1 DEF Token, Nowhere, InC2p, ParentRead
  <2>4. EchoesInStep' /\ Counters'
    BY <1>4, <2>1 DEF IInv, EchoesInStep, Counters, InC2p, ParentRead
  <2> QED BY <2>2, <2>3, <2>4 DEF IInv
<1>5. CASE ChildRead
  <2>1. InP2c /\ bytes'["p2c"] = 0 /\ bytes'["c2p"] = 0
    BY <1>5 DEF IInv, Token, Nowhere, InP2c, AtChild, InC2p, ChildRead, CanRead
  <2>2. TypeOK'
    BY <1>5, <2>1 DEF IInv, TypeOK, ChildRead, ChildPC, InP2c
  <2>3. Token'
    BY <1>5, <2>1 DEF IInv, Token, Nowhere, InP2c, AtChild, ChildRead
  <2>4. EchoesInStep' /\ Counters'
    BY <1>5, <2>1 DEF IInv, EchoesInStep, Counters, InP2c, ChildRead
  <2> QED BY <2>2, <2>3, <2>4 DEF IInv
<1>6. CASE ChildWrite
  <2>1. AtChild /\ bytes'["p2c"] = 0 /\ bytes'["c2p"] = 1
    BY <1>6 DEF IInv, Token, Nowhere, InP2c, AtChild, InC2p, ChildWrite
  <2>2. TypeOK'
    BY <1>6, <2>1 DEF IInv, TypeOK, ChildWrite, ChildPC, AtChild, Counters
  <2>3. Token'
    BY <1>6, <2>1 DEF IInv, Token, Nowhere, AtChild, InC2p, ChildWrite
  <2>4. EchoesInStep' /\ Counters'
    BY <1>6, <2>1 DEF IInv, EchoesInStep, Counters, AtChild, ChildWrite
  <2> QED BY <2>2, <2>3, <2>4 DEF IInv
<1> QED BY <1>3, <1>4, <1>5, <1>6

------------------------------------------------------------------------------
(* Setup, the ends of the loops, failures and kills leave the byte where   *)
(* it is, or drop it.                                                      *)

LEMMA SetupInv ==
  IInv /\ (MakePipes \/ Fork \/ ParentClose \/ StartClock \/ ChildClose)
    => IInv'
<1> SUFFICES ASSUME IInv,
                    MakePipes \/ Fork \/ ParentClose \/ StartClock \/ ChildClose
             PROVE  IInv'
  OBVIOUS
<1> USE DEF IInv, TypeOK, ParentPC, ChildPC, Token, Nowhere, InP2c, AtChild,
            InC2p, EchoesInStep, Counters
<1>1. CASE MakePipes
  BY <1>1 DEF MakePipes
<1>2. CASE Fork
  BY <1>2 DEF Fork
<1>3. CASE ParentClose
  BY <1>3 DEF ParentClose
<1>4. CASE StartClock
  BY <1>4 DEF StartClock
<1>5. CASE ChildClose
  BY <1>5 DEF ChildClose
<1> QED BY <1>1, <1>2, <1>3, <1>4, <1>5

\* The steps with which one of the two processes ends.
ParentStops == ParentSigpipe \/ ParentEof \/ LoopDone \/ Wait \/ ParentFails
ChildStops == ChildEof \/ ChildSigpipe \/ ChildExit \/ ChildFails

LEMMA StopInv == IInv /\ (ParentStops \/ ChildStops \/ Crash) => IInv'
<1> SUFFICES ASSUME IInv, ParentStops \/ ChildStops \/ Crash PROVE IInv'
  OBVIOUS
<1>1. /\ UNCHANGED <<iterations, bytes, rounds, echoes>>
      /\ open' \subseteq open
      /\ parent' = parent \/ parent' \in {"wait", "done", "failed", "killed"}
      /\ child' = child \/ child' \in {"exited", "failed", "killed"}
  BY DEF ParentStops, ParentSigpipe, ParentEof, LoopDone, Wait, ParentFails,
         ChildStops, ChildEof, ChildSigpipe, ChildExit, ChildFails, Crash,
         CloseAll
<1>2. faults' \in 0..MaxFaults
  <2>1. faults \in 0..MaxFaults
    BY DEF IInv, TypeOK
  <2>2. faults' = faults \/ Fault
    BY DEF ParentStops, ParentSigpipe, ParentEof, LoopDone, Wait, ParentFails,
           ChildStops, ChildEof, ChildSigpipe, ChildExit, ChildFails, Crash
  <2> QED BY <2>1, <2>2, Sizes DEF Fault
<1>3. TypeOK'
  BY <1>1, <1>2 DEF IInv, TypeOK, ParentPC, ChildPC
<1>4. Token' /\ EchoesInStep' /\ Counters'
  BY <1>1 DEF IInv, Token, Nowhere, InP2c, AtChild, InC2p, EchoesInStep,
              Counters
<1> QED BY <1>3, <1>4 DEF IInv

LEMMA StepInv == IInv /\ [Next]_vars => IInv'
<1>1. IInv /\ UNCHANGED vars => IInv'
  BY DEF vars, IInv, TypeOK, Token, Nowhere, InP2c, AtChild, InC2p,
         EchoesInStep, Counters
<1> QED
  BY <1>1, MoveInv, SetupInv, StopInv
  DEF Next, ParentNext, ChildNext, ParentStops, ChildStops

LEMMA Always == Spec => []IInv
BY InitInv, StepInv, PTL DEF Spec

LEMMA TokenIsOneByte == IInv => OneByte
<1> SUFFICES ASSUME IInv PROVE OneByte
  OBVIOUS
<1>1. bytes["p2c"] \in Nat /\ bytes["c2p"] \in Nat
  BY PipeNumbers DEF IInv
<1> QED BY <1>1 DEF IInv, Token, Nowhere, InP2c, AtChild, InC2p, OneByte

\* Types are kept, there is one byte, which no write has to wait for, and the
\* loop counters of the two processes stay in step, for every argument, every
\* pipe capacity and any number of failures and kills.
THEOREM Invariant == Spec => []Inv
<1>1. IInv => Inv
  BY TokenIsOneByte DEF IInv, Inv
<1> QED BY Always, <1>1, PTL

------------------------------------------------------------------------------
(* The refinement of RoundTrip.                                            *)

LEMMA InitRefines == Init => RT!Init
BY DEF Init, RT!Init, Phase

LEMMA StepRefines == IInv /\ [Next]_vars => [RT!Next]_(RT!vars)
<1> SUFFICES ASSUME IInv, [Next]_vars
             PROVE  RT!Next \/ UNCHANGED <<Phase, rounds>>
  BY DEF RT!vars
<1>0. bytes \in [Pipes -> 0..Capacity]
  BY DEF IInv, TypeOK
<1>1. CASE ParentWrite
  <2>1. Phase = "idle" /\ Phase' = "requested"
    BY <1>0, <1>1 DEF IInv, Token, Nowhere, ParentWrite, Phase, Pipes
  <2>2. rounds < MaxIterations
    BY <1>1, PipeNumbers, Sizes DEF IInv, ParentWrite
  <2> QED BY <1>1, <2>1, <2>2 DEF RT!Next, RT!Request, ParentWrite
<1>2. CASE ChildWrite
  <2>1. AtChild /\ bytes'["c2p"] = 1
    BY <1>0, <1>2
    DEF IInv, Token, Nowhere, InP2c, AtChild, InC2p, ChildWrite, Pipes
  <2>2. CASE parent = "read"
    <3>1. Phase = "requested" /\ Phase' = "served"
      BY <1>2, <2>1, <2>2 DEF AtChild, ChildWrite, Phase
    <3> QED BY <1>2, <3>1 DEF RT!Next, RT!Serve, ChildWrite
  <2>3. CASE parent # "read"
    BY <1>2, <2>3 DEF ChildWrite, Phase
  <2> QED BY <2>2, <2>3
<1>3. CASE ParentRead
  <2>1. Phase = "served" /\ Phase' = "idle"
    BY <1>0, <1>3 DEF ParentRead, CanRead, Phase, Pipes
  <2> QED BY <1>3, <2>1 DEF RT!Next, RT!Complete, ParentRead
<1>4. CASE ChildRead
  BY <1>0, <1>4 DEF ChildRead, Phase, Pipes
<1>5. CASE MakePipes \/ Fork \/ ParentClose \/ StartClock \/ ChildClose
  BY <1>5 DEF MakePipes, Fork, ParentClose, StartClock, ChildClose, Phase
<1>6. CASE ParentStops
  <2>1. /\ parent' \in {"wait", "done", "failed", "killed"}
        /\ UNCHANGED rounds
    BY <1>6 DEF ParentStops, ParentSigpipe, ParentEof, LoopDone, Wait,
                ParentFails
  <2> QED BY <2>1 DEF Phase, RT!Next, RT!Stop
<1>7. CASE ChildStops
  BY <1>7
  DEF ChildStops, ChildEof, ChildSigpipe, ChildExit, ChildFails, Phase
<1>8. CASE Crash
  <2>1. CASE parent' = "killed"
    BY <1>8, <2>1 DEF Crash, Phase, RT!Next, RT!Stop
  <2>2. CASE UNCHANGED parent
    BY <1>8, <2>2 DEF Crash, Phase
  <2> QED BY <1>8, <2>1, <2>2 DEF Crash
<1>9. CASE UNCHANGED vars
  BY <1>9 DEF vars, Phase
<1> QED
  BY <1>1, <1>2, <1>3, <1>4, <1>5, <1>6, <1>7, <1>8, <1>9
  DEF Next, ParentNext, ChildNext, ParentStops, ChildStops

\* process_ctx_switch.c implements RoundTrip: every round it counts is one
\* byte that went to the child and came back, whatever fails or dies.
THEOREM Refinement == Spec => ImplementsRoundTrip
<1>1. ImplementsRoundTrip <=> RT!Init /\ [][RT!Next]_(RT!vars)
  BY DEF ImplementsRoundTrip, RT!Spec
<1> QED BY InitRefines, StepRefines, Always, <1>1, PTL DEF Spec
==============================================================================
