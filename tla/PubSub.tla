-------------------------------- MODULE PubSub --------------------------------
(***************************************************************************)
(* mosquitto/burst_pubsub_test.c, cpu_load_pubsub_test.c and               *)
(* qos_sweep_test.c: a program starts a broker and, in each of its runs,   *)
(* publishes COUNT messages to itself and waits until COUNT have arrived.  *)
(*                                                                         *)
(* The three programs differ in the number of runs (RunsOf), and           *)
(* cpu_load_pubsub_test.c forks busy-loop workers before its last run.     *)
(* The QoS level changes the handshake between client and broker, not the  *)
(* order in which messages arrive, and is left out.                        *)
(*                                                                         *)
(* Actors: the main thread; libmosquitto's network thread, which runs      *)
(* on_message; the broker.  on_message counts without recv_mutex and takes *)
(* the mutex only to signal, so main's read of recv_count is a data race:  *)
(* until the network thread has taken the mutex, main may still read the   *)
(* value from before the last increment.                                   *)
(*                                                                         *)
(* A time stamp is abstracted to the message it belongs to.                *)
(***************************************************************************)
EXTENDS Integers, Sequences, TLC

CONSTANTS
  Count,         \* COUNT
  LoadProcs,     \* LOAD_PROCS of cpu_load_pubsub_test.c
  MaxFaults,     \* bound on lost and foreign messages, failures and crashes
  MaxSpurious    \* bound on spurious wakeups

ASSUME SizeAssumption == Count \in Nat \ {0} /\ LoadProcs \in Nat \ {0}
ASSUME BoundsAssumption == MaxFaults \in Nat /\ MaxSpurious \in Nat

Slots == 1..Count
Workers == 1..LoadProcs
Programs == {"burst", "cpu_load", "qos_sweep"}
RunsOf == [burst |-> 1, cpu_load |-> 2, qos_sweep |-> 3]

Message == (1..3) \X Slots         \* the run and the number of a message
Foreign == <<0, 0>>                \* a message of some other client
Never == <<0, 1>>                  \* a time stamp that was never written
Stamp == Message \union {Foreign, Never}

VARIABLES
  program,      \* which of the programs this is, never changed
  main,         \* program counter of the main thread
  net,          \* program counter of the network thread
  run,          \* the current run
  recv_mutex,   \* its holder, or "free"
  recv_count,   \* messages counted by on_message
  recv_times,   \* the message each slot was stamped for on arrival
  send_times,   \* the message each slot was stamped for on departure
  sent,         \* the index i of the publishing loop
  connected,    \* the client is connected and subscribed
  broker,       \* state of the broker process
  to_broker,    \* messages on their way to the broker
  to_client,    \* messages on their way to the client
  load_pids,    \* what start_load stored for each worker: 0, its pid or -1
  signalled,    \* the processes stop_load sent SIGTERM to
  refused,      \* some mosquitto_connect found no broker
  faults,       \* faults so far
  spurious      \* spurious wakeups so far

arrays == <<recv_count, recv_times, send_times, sent>>
network == <<connected, broker, to_broker, to_client>>
load == <<load_pids, signalled>>
env == <<refused, faults, spurious>>

vars == <<program, main, net, run, recv_mutex, arrays, network, load, env>>

NumRuns == RunsOf[program]
WithLoad == program = "cpu_load"

MainPC == {"broker", "init", "connect", "loop", "publish", "lock", "test",
           "block", "wait", "relock", "unlock", "stop", "stats", "load",
           "unload", "stop_broker", "done", "failed"}
NetPC == {"none", "poll", "lock", "signal", "unlock"}
BrokerState == {"none", "starting", "ready", "dead"}

Init ==
  /\ program \in Programs
  /\ main = "broker"
  /\ net = "none"
  /\ run = 1
  /\ recv_mutex = "free"
  /\ recv_count = 0
  /\ recv_times = [i \in Slots |-> Never]
  /\ send_times = [i \in Slots |-> Never]
  /\ sent = 0
  /\ connected = FALSE
  /\ broker = "none"
  /\ to_broker = <<>>
  /\ to_client = <<>>
  /\ load_pids = [w \in Workers |-> 0]
  /\ signalled = {}
  /\ refused = FALSE
  /\ faults = 0
  /\ spurious = 0

Fault ==
  /\ faults < MaxFaults
  /\ faults' = faults + 1
  /\ UNCHANGED <<refused, spurious>>

------------------------------------------------------------------------------
(* The main thread: one run.                                               *)

\* fork and execlp of the broker; sleep(1) gives it time and no guarantee.
start_broker ==
  /\ main = "broker"
  /\ broker' = "starting"
  /\ main' = "init"
  /\ UNCHANGED <<net, run, recv_mutex, arrays, connected, to_broker,
                 to_client, load, env>>

\* Variant: recv_count keeps the value of the run before.
BeginRunNoReset ==
  /\ main = "init"
  /\ sent' = 0
  /\ main' = "connect"
  /\ UNCHANGED <<net, run, recv_mutex, recv_count, recv_times, send_times,
                 network, load, env>>

\* recv_count = 0 and mosquitto_new; the arrays keep their old contents.
BeginRun ==
  /\ main = "init"
  /\ recv_count' = 0
  /\ sent' = 0
  /\ main' = "connect"
  /\ UNCHANGED <<net, run, recv_mutex, recv_times, send_times, network, load,
                 env>>

\* mosquitto_new fails: exit(1), the broker and the workers live on.
NewFails ==
  /\ main = "init"
  /\ Fault
  /\ main' = "failed"
  /\ UNCHANGED <<net, run, recv_mutex, arrays, network, load>>

\* mosquitto_connect and mosquitto_subscribe; their results are ignored.
Connect ==
  /\ main = "connect"
  /\ connected' = (broker = "ready")
  /\ refused' = (refused \/ broker # "ready")
  /\ main' = "loop"
  /\ UNCHANGED <<net, run, recv_mutex, arrays, broker, to_broker, to_client,
                 load, faults, spurious>>

LoopStart ==
  /\ main = "loop"
  /\ net' = "poll"
  /\ main' = "publish"
  /\ UNCHANGED <<run, recv_mutex, arrays, network, load, env>>

\* One pass of the publishing loop.  mosquitto_publish fails without a
\* connection; its result is ignored.
Publish ==
  /\ main = "publish"
  /\ sent < Count
  /\ sent' = sent + 1
  /\ send_times' = [send_times EXCEPT ![sent'] = <<run, sent'>>]
  /\ to_broker' = IF connected THEN Append(to_broker, <<run, sent'>>)
                  ELSE to_broker
  /\ UNCHANGED <<main, net, run, recv_mutex, recv_count, recv_times,
                 connected, broker, to_client, load, env>>

MainLock ==
  /\ \/ main = "publish" /\ sent = Count
     \/ main = "relock"
  /\ recv_mutex = "free"
  /\ recv_mutex' = "main"
  /\ main' = "test"
  /\ UNCHANGED <<net, run, arrays, network, load, env>>

\* What main may read in recv_count while the network thread writes it.
SeenCount == {recv_count} \union (IF net = "lock" THEN {recv_count - 1} ELSE {})

\* while (recv_count < COUNT)
MainTest ==
  /\ main = "test"
  /\ \E seen \in SeenCount :
       main' = IF seen < Count THEN "block" ELSE "unlock"
  /\ UNCHANGED <<net, run, recv_mutex, arrays, network, load, env>>

\* pthread_cond_wait releases the mutex and blocks in one step.
MainBlock ==
  /\ main = "block"
  /\ recv_mutex' = "free"
  /\ main' = "wait"
  /\ UNCHANGED <<net, run, arrays, network, load, env>>

MainUnlock ==
  /\ main = "unlock"
  /\ recv_mutex' = "free"
  /\ main' = "stop"
  /\ UNCHANGED <<net, run, arrays, network, load, env>>

\* Variant: the network thread is cancelled without waiting for its callback.
LoopStopAtOnce ==
  /\ main = "stop"
  /\ net' = "none"
  /\ connected' = FALSE
  /\ to_client' = <<>>
  /\ main' = "stats"
  /\ UNCHANGED <<run, recv_mutex, arrays, broker, to_broker, load, env>>

\* mosquitto_loop_stop cancels the network thread (deferred: not inside
\* on_message) and joins it; mosquitto_destroy drops the connection.
LoopStop ==
  /\ main = "stop"
  /\ net = "poll"
  /\ net' = "none"
  /\ connected' = FALSE
  /\ to_client' = <<>>
  /\ main' = "stats"
  /\ UNCHANGED <<run, recv_mutex, arrays, broker, to_broker, load, env>>

\* The statistics over both arrays, then the next run or the end.
Stats ==
  /\ main = "stats"
  /\ IF run < NumRuns
     THEN /\ run' = run + 1
          /\ main' = IF run' = NumRuns /\ WithLoad THEN "load" ELSE "init"
     ELSE /\ main' = IF WithLoad THEN "unload" ELSE "stop_broker"
          /\ UNCHANGED run
  /\ UNCHANGED <<net, recv_mutex, arrays, network, load, env>>

stop_broker ==
  /\ main = "stop_broker"
  /\ broker' = "dead"
  /\ main' = "done"
  /\ UNCHANGED <<net, run, recv_mutex, arrays, connected, to_broker,
                 to_client, load, env>>

------------------------------------------------------------------------------
(* The CPU load of cpu_load_pubsub_test.c.                                 *)

\* One fork of start_load; -1 is stored like a pid when it fails.
start_load(w) ==
  /\ main = "load"
  /\ load_pids[w] = 0
  /\ \A v \in Workers : v < w => load_pids[v] # 0
  /\ \/ load_pids' = [load_pids EXCEPT ![w] = w] /\ UNCHANGED env
     \/ load_pids' = [load_pids EXCEPT ![w] = -1] /\ Fault
  /\ main' = IF w = LoadProcs THEN "init" ELSE "load"
  /\ UNCHANGED <<net, run, recv_mutex, arrays, network, signalled>>

Broker == LoadProcs + 1
Others == LoadProcs + 2
Everybody == Workers \union {Broker, Others}

\* kill and waitpid of every stored pid; kill(-1, SIGTERM) signals every
\* process the user may signal.
stop_load ==
  /\ main = "unload"
  /\ signalled' = UNION {IF load_pids[w] = -1 THEN Everybody ELSE {w} :
                          w \in Workers}
  /\ broker' = IF Broker \in signalled' THEN "dead" ELSE broker
  /\ main' = "stop_broker"
  /\ UNCHANGED <<net, run, recv_mutex, arrays, connected, to_broker,
                 to_client, load_pids, env>>

------------------------------------------------------------------------------
(* The network thread: on_message.                                         *)

\* The callback up to pthread_mutex_lock.
OnMessage ==
  /\ net = "poll"
  /\ to_client # <<>>
  /\ to_client' = Tail(to_client)
  /\ IF recv_count < Count
     THEN /\ recv_count' = recv_count + 1
          /\ recv_times' = [recv_times EXCEPT ![recv_count'] = Head(to_client)]
          /\ net' = IF recv_count' = Count THEN "lock" ELSE "poll"
     ELSE UNCHANGED <<recv_count, recv_times, net>>
  /\ UNCHANGED <<main, run, recv_mutex, send_times, sent, connected, broker,
                 to_broker, load, env>>

\* Variant: the callback signals without taking the mutex.
NetLockNot ==
  /\ net = "lock"
  /\ net' = "signal"
  /\ UNCHANGED <<main, run, recv_mutex, arrays, network, load, env>>

NetLock ==
  /\ net = "lock"
  /\ recv_mutex = "free"
  /\ recv_mutex' = "net"
  /\ net' = "signal"
  /\ UNCHANGED <<main, run, arrays, network, load, env>>

NetSignal ==
  /\ net = "signal"
  /\ main' = IF main = "wait" THEN "relock" ELSE main
  /\ net' = "unlock"
  /\ UNCHANGED <<run, recv_mutex, arrays, network, load, env>>

\* Variant: pthread_mutex_unlock is missing.
NetUnlockNot ==
  /\ net = "unlock"
  /\ net' = "poll"
  /\ UNCHANGED <<main, run, recv_mutex, arrays, network, load, env>>

NetUnlock ==
  /\ net = "unlock"
  /\ recv_mutex' = "free"
  /\ net' = "poll"
  /\ UNCHANGED <<main, run, arrays, network, load, env>>

------------------------------------------------------------------------------
(* The broker and the rest of the world.                                   *)

BrokerReady ==
  /\ broker = "starting"
  /\ broker' = "ready"
  /\ UNCHANGED <<main, net, run, recv_mutex, arrays, connected, to_broker,
                 to_client, load, env>>

\* The broker takes a message and passes it to the subscriber, if any.
Forward ==
  /\ broker = "ready"
  /\ to_broker # <<>>
  /\ to_broker' = Tail(to_broker)
  /\ to_client' = IF connected THEN Append(to_client, Head(to_broker))
                  ELSE to_client
  /\ UNCHANGED <<main, net, run, recv_mutex, arrays, connected, broker, load,
                 env>>

\* The broker drops a message (a queue limit, QoS 0).
Lose ==
  /\ Fault
  /\ broker = "ready"
  /\ to_broker # <<>>
  /\ to_broker' = Tail(to_broker)
  /\ UNCHANGED <<main, net, run, recv_mutex, arrays, connected, broker,
                 to_client, load>>

\* Another client of the broker publishes on the same topic.
Stranger ==
  /\ Fault
  /\ broker = "ready"
  /\ connected
  /\ to_client' = Append(to_client, Foreign)
  /\ UNCHANGED <<main, net, run, recv_mutex, arrays, connected, broker,
                 to_broker, load>>

\* execlp fails, or the broker dies; its connections go with it.
BrokerDies ==
  /\ Fault
  /\ broker \in {"starting", "ready"}
  /\ broker' = "dead"
  /\ connected' = FALSE
  /\ to_broker' = <<>>
  /\ UNCHANGED <<main, net, run, recv_mutex, arrays, to_client, load>>

SpuriousWakeup ==
  /\ main = "wait"
  /\ spurious < MaxSpurious
  /\ spurious' = spurious + 1
  /\ main' = "relock"
  /\ UNCHANGED <<net, run, recv_mutex, arrays, network, load, refused, faults>>

------------------------------------------------------------------------------
MainNext ==
  \/ start_broker \/ BeginRun \/ Connect \/ LoopStart \/ Publish
  \/ MainLock \/ MainTest \/ MainBlock \/ MainUnlock \/ LoopStop \/ Stats
  \/ stop_broker
  \/ \E w \in Workers : start_load(w)
  \/ stop_load

NetNext == OnMessage \/ NetLock \/ NetSignal \/ NetUnlock
BrokerNext == BrokerReady \/ Forward
Disturbance == NewFails \/ Lose \/ Stranger \/ BrokerDies \/ SpuriousWakeup

Next ==
  /\ MainNext \/ NetNext \/ BrokerNext \/ Disturbance
  /\ UNCHANGED program

Spec == Init /\ [][Next]_vars

\* Threads and broker are not starved, not even by the busy-loop workers.
FairSpec ==
  /\ Spec
  /\ WF_vars(MainNext /\ UNCHANGED program)
  /\ WF_vars(NetNext /\ UNCHANGED program)
  /\ WF_vars(BrokerNext /\ UNCHANGED program)

------------------------------------------------------------------------------
(* Properties.                                                             *)

\* Every variable keeps its type; recv_count and the index of recv_times stay
\* within the arrays however many messages arrive.
TypeOK ==
  /\ program \in Programs
  /\ main \in MainPC /\ net \in NetPC /\ broker \in BrokerState
  /\ run \in 1..NumRuns
  /\ recv_mutex \in {"free", "main", "net"}
  /\ recv_count \in 0..Count /\ sent \in 0..Count
  /\ recv_times \in [Slots -> Stamp] /\ send_times \in [Slots -> Stamp]
  /\ connected \in BOOLEAN /\ refused \in BOOLEAN
  /\ to_broker \in Seq(Stamp) /\ to_client \in Seq(Stamp)
  /\ load_pids \in [Workers -> Workers \union {0, -1}]
  /\ signalled \subseteq Everybody
  /\ faults \in 0..MaxFaults /\ spurious \in 0..MaxSpurious

\* No wakeup is lost although on_message counts without the mutex and main may
\* read an old count: when main blocks with all messages counted, the network
\* thread still has the signal ahead of it.
NoLostWakeup ==
  main \in {"block", "wait"} /\ recv_count = Count => net \in {"lock", "signal"}

\* No run leaves the mutex behind: the next one starts with a free mutex and
\* without a network thread of the run before.
CleanHandover ==
  main \in {"stats", "init", "load", "connect", "loop"}
    => recv_mutex = "free" /\ net = "none"

\* The invariant of the program: types, arrays within bounds, and a clean
\* handover from run to run.
Inv == TypeOK /\ CleanHandover

\* Nothing has gone wrong outside the program.
Undisturbed == faults = 0 /\ ~refused

\* The program pairs arrivals with departures by position only.  When it
\* computes its statistics each pair belongs to one message of this run:
\* nothing is left over from an earlier run in the arrays or on the network.
SamplesPaired ==
  main = "stats" /\ Undisturbed =>
    \A i \in Slots : recv_times[i] = <<run, i>> /\ send_times[i] = <<run, i>>

\* Every run ends and the program is done, unless a message was lost, a
\* foreign one came in, something failed, or the broker was not ready when the
\* program connected: the wait for COUNT messages has no timeout.
Completes == <>(main = "done" \/ ~Undisturbed)

\* "Stopping CPU workers..." (cpu_load_pubsub_test.c): stop_load signals the
\* workers and nobody else.
StopLoadSignalsOnlyWorkers == signalled \subseteq Workers
==============================================================================
