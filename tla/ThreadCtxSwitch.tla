--------------------------- MODULE ThreadCtxSwitch ---------------------------
(***************************************************************************)
(* scheduling/threads/thread_ctx_switch.c: the main thread and a pong      *)
(* thread hand a turn flag back and forth under one mutex and two          *)
(* condition variables, cond_ping (main waits) and cond_pong (pong waits). *)
(*                                                                         *)
(* Each pthread call, and each access to the shared turn flag, is a step   *)
(* of its own.  pthread_cond_wait is two steps: it releases the mutex and  *)
(* blocks atomically ("wait"), and once woken competes for the mutex       *)
(* ("relock").  A signal wakes the one thread that can block on that       *)
(* condition variable and is lost when it is not blocked.  A blocked       *)
(* thread may also wake for no reason, MaxSpurious times in a run.         *)
(***************************************************************************)
EXTENDS Naturals

CONSTANTS
  Iterations,   \* rounds; the code replaces an argument <= 0 by its default
  MaxSpurious   \* bound on spurious wakeups in a run

ASSUME IterationsAssumption == Iterations \in Nat \ {0}
ASSUME SpuriousAssumption == MaxSpurious \in Nat

VARIABLES
  main, pong,     \* program counters of the two threads
  lock,           \* holder of the mutex, or "free"
  turn,           \* 0: ping's turn, 1: pong's turn
  pings, pongs,   \* the loop counter i of each thread
  spurious        \* spurious wakeups so far

vars == <<main, pong, lock, turn, pings, pongs, spurious>>

MainPC == {"create", "loop", "initiate", "signal", "test", "wait", "relock",
           "unlock", "done", "failed"}
PongPC == {"none", "loop", "test", "wait", "relock", "respond", "signal",
           "unlock", "exited"}

Init ==
  /\ main = "create"
  /\ pong = "none"
  /\ lock = "free"
  /\ turn = 0
  /\ pings = 0
  /\ pongs = 0
  /\ spurious = 0

------------------------------------------------------------------------------
(* Helpers for the pthread calls.                                          *)

Acquire(t) == lock = "free" /\ lock' = t

\* The thread with program counter pc leaves pthread_cond_wait's blocked state.
Woken(pc) == IF pc = "wait" THEN "relock" ELSE pc

------------------------------------------------------------------------------
(* The main thread.                                                        *)

CreatePong ==
  /\ main = "create"
  /\ main' = "loop"
  /\ pong' = "loop"
  /\ UNCHANGED <<lock, turn, pings, pongs, spurious>>

\* pthread_create fails: exit(EXIT_FAILURE).
CreateFails ==
  /\ main = "create"
  /\ main' = "failed"
  /\ UNCHANGED <<pong, lock, turn, pings, pongs, spurious>>

MainLock ==
  /\ main = "loop"
  /\ pings < Iterations
  /\ Acquire("main")
  /\ main' = "initiate"
  /\ UNCHANGED <<pong, turn, pings, pongs, spurious>>

MainInitiate ==
  /\ main = "initiate"
  /\ turn' = 1
  /\ main' = "signal"
  /\ UNCHANGED <<pong, lock, pings, pongs, spurious>>

MainSignal ==
  /\ main = "signal"
  /\ pong' = Woken(pong)
  /\ main' = "test"
  /\ UNCHANGED <<lock, turn, pings, pongs, spurious>>

\* while (turn != 0) pthread_cond_wait(&cond_ping, &lock)
MainTest ==
  /\ main = "test"
  /\ \/ /\ turn # 0
        /\ lock' = "free"
        /\ main' = "wait"
     \/ /\ turn = 0
        /\ main' = "unlock"
        /\ UNCHANGED lock
  /\ UNCHANGED <<pong, turn, pings, pongs, spurious>>

\* Variant: an if in place of the while around pthread_cond_wait.
MainRelockNoRetest ==
  /\ main = "relock"
  /\ Acquire("main")
  /\ main' = "unlock"
  /\ UNCHANGED <<pong, turn, pings, pongs, spurious>>

MainRelock ==
  /\ main = "relock"
  /\ Acquire("main")
  /\ main' = "test"
  /\ UNCHANGED <<pong, turn, pings, pongs, spurious>>

MainUnlock ==
  /\ main = "unlock"
  /\ lock' = "free"
  /\ pings' = pings + 1
  /\ main' = "loop"
  /\ UNCHANGED <<pong, turn, pongs, spurious>>

\* The loop is over: pthread_join, then the report.
MainJoin ==
  /\ main = "loop"
  /\ pings = Iterations
  /\ pong = "exited"
  /\ main' = "done"
  /\ UNCHANGED <<pong, lock, turn, pings, pongs, spurious>>

------------------------------------------------------------------------------
(* The pong thread.                                                        *)

PongLock ==
  /\ pong = "loop"
  /\ pongs < Iterations
  /\ Acquire("pong")
  /\ pong' = "test"
  /\ UNCHANGED <<main, turn, pings, pongs, spurious>>

\* Variant: pong blocks before it has looked at turn, so a signal sent
\* before it started is lost.
PongTestWaitsFirst ==
  /\ pong = "test"
  /\ \/ /\ lock' = "free"
        /\ pong' = "wait"
     \/ /\ turn = 1
        /\ pong' = "respond"
        /\ UNCHANGED lock
  /\ UNCHANGED <<main, turn, pings, pongs, spurious>>

\* while (turn != 1) pthread_cond_wait(&cond_pong, &lock)
PongTest ==
  /\ pong = "test"
  /\ \/ /\ turn # 1
        /\ lock' = "free"
        /\ pong' = "wait"
     \/ /\ turn = 1
        /\ pong' = "respond"
        /\ UNCHANGED lock
  /\ UNCHANGED <<main, turn, pings, pongs, spurious>>

PongRelock ==
  /\ pong = "relock"
  /\ Acquire("pong")
  /\ pong' = "test"
  /\ UNCHANGED <<main, turn, pings, pongs, spurious>>

\* Variant: the flag is left for ping to reset.
PongRespondKeepsTurn ==
  /\ pong = "respond"
  /\ pong' = "signal"
  /\ UNCHANGED <<main, lock, turn, pings, pongs, spurious>>

PongRespond ==
  /\ pong = "respond"
  /\ turn' = 0
  /\ pong' = "signal"
  /\ UNCHANGED <<main, lock, pings, pongs, spurious>>

\* Variant: pthread_cond_signal(&cond_ping) is missing.
PongSignalMissing ==
  /\ pong = "signal"
  /\ pong' = "unlock"
  /\ UNCHANGED <<main, lock, turn, pings, pongs, spurious>>

PongSignal ==
  /\ pong = "signal"
  /\ main' = Woken(main)
  /\ pong' = "unlock"
  /\ UNCHANGED <<lock, turn, pings, pongs, spurious>>

PongUnlock ==
  /\ pong = "unlock"
  /\ lock' = "free"
  /\ pongs' = pongs + 1
  /\ pong' = "loop"
  /\ UNCHANGED <<main, turn, pings, spurious>>

PongExit ==
  /\ pong = "loop"
  /\ pongs = Iterations
  /\ pong' = "exited"
  /\ UNCHANGED <<main, lock, turn, pings, pongs, spurious>>

------------------------------------------------------------------------------
SpuriousWakeup ==
  /\ spurious < MaxSpurious
  /\ spurious' = spurious + 1
  /\ \/ main = "wait" /\ main' = "relock" /\ UNCHANGED pong
     \/ pong = "wait" /\ pong' = "relock" /\ UNCHANGED main
  /\ UNCHANGED <<lock, turn, pings, pongs>>

MainNext ==
  \/ CreatePong \/ CreateFails
  \/ MainLock \/ MainInitiate \/ MainSignal \/ MainTest \/ MainRelock
  \/ MainUnlock \/ MainJoin

PongNext ==
  \/ PongLock \/ PongTest \/ PongRelock \/ PongRespond \/ PongSignal
  \/ PongUnlock \/ PongExit

Next == MainNext \/ PongNext \/ SpuriousWakeup

Spec == Init /\ [][Next]_vars

\* Both threads are ordinary SCHED_OTHER threads: neither is starved.
FairSpec == Spec /\ WF_vars(MainNext) /\ WF_vars(PongNext)

------------------------------------------------------------------------------
(* Properties.                                                             *)

\* Every variable of thread_ctx_switch.c stays in its range.
TypeOK ==
  /\ main \in MainPC
  /\ pong \in PongPC
  /\ lock \in {"free", "main", "pong"}
  /\ turn \in {0, 1}
  /\ pings \in 0..Iterations
  /\ pongs \in 0..Iterations
  /\ spurious \in 0..MaxSpurious

\* Requests made so far, the one main is still in included.
Requests ==
  pings + IF main \in {"signal", "test", "wait", "relock", "unlock"}
          THEN 1 ELSE 0

\* Responses made so far, the one pong has not finished included.
Responses == pongs + IF pong \in {"signal", "unlock"} THEN 1 ELSE 0

\* The two threads stay in step: every request has been answered exactly once,
\* except the one that turn = 1 says is outstanding.  Each thread counts its
\* own rounds; nothing in the code compares the two counts, and pthread_join
\* returns only if they agree.
OneResponsePerRequest == Requests = Responses + turn

\* The invariant of the two threads: types, and threads in step.
Inv == TypeOK /\ OneResponsePerRequest

\* No wakeup is lost: a thread blocked in pthread_cond_wait while the turn is
\* already its own is about to be signalled by the thread that holds the
\* mutex.  The code's 1 ms nanosleep "to let pong block" is not needed for it.
NoLostWakeup ==
  /\ main = "wait" /\ turn = 0 => pong = "signal"
  /\ pong = "wait" /\ turn = 1 => main = "signal"

\* The benchmark ends: pthread_join returns after both threads did all their
\* rounds, unless the pong thread could not be created.
Terminates ==
  <>(\/ main = "failed"
     \/ main = "done" /\ pings = Iterations /\ pongs = Iterations)

\* A request is made when turn becomes 1 and served when pong resets it.
Phase ==
  IF main \in {"done", "failed"} THEN "stopped"
  ELSE IF main \in {"create", "loop", "initiate"} THEN "idle"
  ELSE IF turn = 1 THEN "requested" ELSE "served"

RT == INSTANCE RoundTrip WITH phase <- Phase, rounds <- pings

\* Every round of the timed loop is a real round trip: main goes on only after
\* pong has answered that very request.
ImplementsRoundTrip == RT!Spec
==============================================================================
