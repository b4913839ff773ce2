------------------------ MODULE ThreadCtxSwitchProofs ------------------------
(***************************************************************************)
(* Proofs about ThreadCtxSwitch for every number of iterations and every   *)
(* number of spurious wakeups.                                             *)
(*                                                                         *)
(* None of the properties is inductive by itself.  IInv adds who holds the *)
(* mutex at which program counter (so that only the holder touches turn)   *)
(* and what turn is where a thread relies on it without testing it again.  *)
(***************************************************************************)
EXTENDS ThreadCtxSwitch, TLAPS

MainHolds == {"initiate", "signal", "test", "unlock"}
PongHolds == {"test", "respond", "signal", "unlock"}

\* The mutex is held exactly by the thread whose program counter says so.
Holder ==
  /\ main \in MainHolds <=> lock = "main"
  /\ pong \in PongHolds <=> lock = "pong"

\* The pong thread does not exist before pthread_create has succeeded.
NotStarted == main \in {"create", "failed"} => pong = "none"

\* The value of turn at the program points that depend on it.
TurnAt ==
  /\ main \in {"create", "loop", "initiate", "unlock", "done", "failed"}
       => turn = 0
  /\ main = "signal" => turn = 1
  /\ pong = "respond" => turn = 1
  /\ pong \in {"signal", "unlock"} => turn = 0

\* A thread inside its loop body has not used up its iterations.
InLoop ==
  /\ main \in {"initiate", "signal", "test", "wait", "relock", "unlock"}
       => pings < Iterations
  /\ pong \in {"test", "wait", "relock", "respond", "signal", "unlock"}
       => pongs < Iterations

IInv ==
  /\ TypeOK
  /\ Holder
  /\ NotStarted
  /\ TurnAt
  /\ InLoop
  /\ OneResponsePerRequest
  /\ NoLostWakeup

------------------------------------------------------------------------------

\* The initial state of thread_ctx_switch.c satisfies the inductive invariant.
LEMMA InitIInv == Init => IInv
  BY IterationsAssumption, SpuriousAssumption
  DEF Init, IInv, TypeOK, MainPC, PongPC, Holder, MainHolds, PongHolds,
      NotStarted, TurnAt, InLoop, OneResponsePerRequest,
      Requests, Responses, NoLostWakeup

\* Every step of either thread, and every spurious wakeup, preserves it.
LEMMA NextIInv == IInv /\ [Next]_vars => IInv'
<1> SUFFICES ASSUME IInv, [Next]_vars PROVE IInv'
  OBVIOUS
<1> USE IterationsAssumption, SpuriousAssumption
    DEF IInv, TypeOK, MainPC, PongPC, Holder, MainHolds, PongHolds,
        NotStarted, TurnAt, InLoop, OneResponsePerRequest,
      Requests, Responses, NoLostWakeup
<1>1. CASE CreatePong
  BY <1>1 DEF CreatePong
<1>2. CASE CreateFails
  BY <1>2 DEF CreateFails
<1>3. CASE MainLock
  BY <1>3 DEF MainLock, Acquire
<1>4. CASE MainInitiate
  BY <1>4 DEF MainInitiate
<1>5. CASE MainSignal
  BY <1>5 DEF MainSignal, Woken
<1>6. CASE MainTest
  BY <1>6 DEF MainTest
<1>7. CASE MainRelock
  BY <1>7 DEF MainRelock, Acquire
<1>8. CASE MainUnlock
  BY <1>8 DEF MainUnlock
<1>9. CASE MainJoin
  BY <1>9 DEF MainJoin
<1>10. CASE PongLock
  BY <1>10 DEF PongLock, Acquire
<1>11. CASE PongTest
  BY <1>11 DEF PongTest
<1>12. CASE PongRelock
  BY <1>12 DEF PongRelock, Acquire
<1>13. CASE PongRespond
  BY <1>13 DEF PongRespond
<1>14. CASE PongSignal
  BY <1>14 DEF PongSignal, Woken
<1>15. CASE PongUnlock
  BY <1>15 DEF PongUnlock
<1>16. CASE PongExit
  BY <1>16 DEF PongExit
<1>17. CASE SpuriousWakeup
  BY <1>17 DEF SpuriousWakeup
<1>18. CASE UNCHANGED vars
  BY <1>18 DEF vars
<1>19. QED
  BY <1>1, <1>2, <1>3, <1>4, <1>5, <1>6, <1>7, <1>8, <1>9, <1>10, <1>11, <1>12,
     <1>13, <1>14, <1>15, <1>16, <1>17, <1>18
  DEF Next, MainNext, PongNext

\* The inductive invariant holds in every reachable state.
LEMMA AlwaysIInv == Spec => []IInv
  BY InitIInv, NextIInv, PTL DEF Spec

\* Every variable of thread_ctx_switch.c keeps its type and its range.
THEOREM TypeCorrect == Spec => []TypeOK
<1>1. IInv => TypeOK
  BY DEF IInv
<1>2. QED
  BY <1>1, AlwaysIInv, PTL

\* The two independent loop counters never drift apart by more than the one
\* outstanding request.
THEOREM ResponsesInStep == Spec => []OneResponsePerRequest
<1>1. IInv => OneResponsePerRequest
  BY DEF IInv
<1>2. QED
  BY <1>1, AlwaysIInv, PTL

\* The invariant the run checks: types, and responses in step with requests.
THEOREM Invariant == Spec => []Inv
<1>1. IInv => Inv
  BY DEF IInv, Inv
<1>2. QED
  BY <1>1, AlwaysIInv, PTL

\* A thread never sleeps through the signal that was meant for it.
THEOREM WakeupsNotLost == Spec => []NoLostWakeup
<1>1. IInv => NoLostWakeup
  BY DEF IInv
<1>2. QED
  BY <1>1, AlwaysIInv, PTL

------------------------------------------------------------------------------
(* Refinement: the ping-pong of the two threads implements RoundTrip.      *)

\* The initial state maps to the initial state of RoundTrip.
LEMMA InitRefines == Init => RT!Init
  BY DEF Init, RT!Init, Phase

\* Each step maps to a request, a service, a completion, a stop or a stutter.
LEMMA NextRefines == IInv /\ [Next]_vars => [RT!Next]_(RT!vars)
<1> SUFFICES ASSUME IInv, [Next]_vars PROVE [RT!Next]_(RT!vars)
  OBVIOUS
<1> USE IterationsAssumption
    DEF IInv, TypeOK, MainPC, PongPC, Holder, MainHolds, PongHolds,
        NotStarted, TurnAt, InLoop, Phase, RT!vars
<1>1. CASE MainInitiate
  <2>1. RT!Request
    BY <1>1 DEF MainInitiate, RT!Request
  <2>2. QED
    BY <2>1 DEF RT!Next
<1>2. CASE PongRespond
  <2>1. RT!Serve
    BY <1>2 DEF PongRespond, RT!Serve
  <2>2. QED
    BY <2>1 DEF RT!Next
<1>3. CASE MainUnlock
  <2>1. RT!Complete
    BY <1>3 DEF MainUnlock, RT!Complete
  <2>2. QED
    BY <2>1 DEF RT!Next
<1>4. CASE CreateFails \/ MainJoin
  <2>1. RT!Stop
    BY <1>4 DEF CreateFails, MainJoin, RT!Stop
  <2>2. QED
    BY <2>1 DEF RT!Next
<1>5. CASE CreatePong \/ MainLock \/ MainSignal \/ MainTest \/ MainRelock
  BY <1>5 DEF CreatePong, MainLock, MainSignal, MainTest, MainRelock, Acquire
<1>6. CASE \/ PongLock \/ PongTest \/ PongRelock \/ PongSignal
           \/ PongUnlock \/ PongExit
  BY <1>6 DEF PongLock, PongTest, PongRelock, PongSignal, PongUnlock, PongExit,
              Acquire, Woken
<1>7. CASE SpuriousWakeup
  BY <1>7 DEF SpuriousWakeup
<1>8. CASE UNCHANGED vars
  BY <1>8 DEF vars
<1>9. QED
  BY <1>1, <1>2, <1>3, <1>4, <1>5, <1>6, <1>7, <1>8 DEF Next, MainNext, PongNext

\* thread_ctx_switch.c implements RoundTrip: what it times is round trips.
THEOREM Refinement == Spec => ImplementsRoundTrip
  BY InitRefines, NextRefines, AlwaysIInv, PTL
  DEF Spec, ImplementsRoundTrip, RT!Spec
==============================================================================
