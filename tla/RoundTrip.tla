------------------------------ MODULE RoundTrip ------------------------------
(***************************************************************************)
(* What a ping-pong benchmark promises to measure.                         *)
(*                                                                         *)
(* A client performs Iterations rounds.  In each round it makes a request, *)
(* its peer serves that request exactly once, and only then does the       *)
(* client complete the round and take a latency sample.  The client may    *)
(* give up at any moment (an error breaks its loop) and it stops when all  *)
(* rounds are complete.                                                    *)
(*                                                                         *)
(* thread_ctx_switch.c (mutex and condition variables), ipc_mq_latency.c   *)
(* (two message queues) and process_ctx_switch.c (two pipes) are three     *)
(* implementations of it; the modules that model them map their state to   *)
(* phase and rounds.                                                       *)
(***************************************************************************)
EXTENDS Naturals

CONSTANT Iterations

VARIABLES
  phase,   \* where the current round is
  rounds   \* completed rounds, that is, latency samples taken

vars == <<phase, rounds>>

Init == phase = "idle" /\ rounds = 0

Request ==
  /\ phase = "idle"
  /\ rounds < Iterations
  /\ phase' = "requested"
  /\ UNCHANGED rounds

Serve ==
  /\ phase = "requested"
  /\ phase' = "served"
  /\ UNCHANGED rounds

Complete ==
  /\ phase = "served"
  /\ phase' = "idle"
  /\ rounds' = rounds + 1

\* The client leaves its loop: all rounds done, or an error path.
Stop ==
  /\ phase' = "stopped"
  /\ UNCHANGED rounds

Next == Request \/ Serve \/ Complete \/ Stop

Spec == Init /\ [][Next]_vars
==============================================================================
