---------------------------- MODULE PubSubProofs ----------------------------
(***************************************************************************)
(* For any number of messages, workers and disturbances: the three MQTT    *)
(* programs stay within their arrays, hand a free mutex from run to run,   *)
(* lose no wakeup, and pair each arrival with its own departure.           *)
(***************************************************************************)
EXTENDS PubSub, TLAPS

\* main is between mosquitto_loop_start and mosquitto_loop_stop.
Looping == {"publish", "test", "block", "wait", "relock", "unlock", "stop"}

\* Who holds the mutex, and when there is a network thread; the callback goes
\* for the mutex when it has counted the last message.
Control ==
  /\ main # "lock"
  /\ recv_mutex = "main" <=> main \in {"test", "block", "unlock"}
  /\ recv_mutex = "net" <=> net \in {"signal", "unlock"}
  /\ net # "none" <=> main \in Looping
  /\ net = "lock" => recv_count = Count

\* main has published all it has to before it waits, and has all of it when it
\* stops to wait.
Progress ==
  /\ main \in {"connect", "loop"} => recv_count = 0 /\ sent = 0
  /\ main \in Looping \ {"publish"} => sent = Count
  /\ main \in {"unlock", "stop"} => recv_count = Count

\* The messages of this run, in the order they were sent: those counted, those
\* on their way to the client, those on their way to the broker.
InOrder ==
  /\ recv_count + Len(to_client) + Len(to_broker) = sent
  /\ \A k \in 1..sent : send_times[k] = <<run, k>>
  /\ \A k \in 1..recv_count : recv_times[k] = <<run, k>>
  /\ \A k \in 1..Len(to_client) : to_client[k] = <<run, recv_count + k>>
  /\ \A k \in 1..Len(to_broker) :
       to_broker[k] = <<run, recv_count + Len(to_client) + k>>

\* As long as nothing has gone wrong, no message is on the network before and
\* after the loop, and those on it are in order.
OnTheWay ==
  Undisturbed =>
    /\ main \in Looping \union {"loop"} => connected
    /\ main \in Looping => InOrder
    /\ main \notin Looping => to_client = <<>> /\ to_broker = <<>>

IInv ==
  TypeOK /\ Control /\ Progress /\ NoLostWakeup /\ OnTheWay /\ SamplesPaired

LEMMA ConstantTypes ==
  /\ Count \in Nat /\ Count >= 1 /\ LoadProcs \in Nat /\ LoadProcs >= 1
  /\ MaxFaults \in Nat /\ MaxSpurious \in Nat
BY SizeAssumption, BoundsAssumption

LEMMA Runs == program \in Programs => NumRuns \in 1..3
BY DEF Programs, NumRuns, RunsOf

LEMMA InitInv == Init => IInv
<1> SUFFICES ASSUME Init PROVE IInv
  OBVIOUS
<1> USE ConstantTypes
<1>1. program \in Programs /\ run \in 1..NumRuns
  BY Runs DEF Init
<1>2. recv_times \in [Slots -> Stamp] /\ send_times \in [Slots -> Stamp]
  BY DEF Init, Stamp
<1>3. load_pids \in [Workers -> Workers \union {0, -1}]
  BY DEF Init
<1>4. /\ recv_count \in 0..Count /\ sent \in 0..Count
      /\ faults \in 0..MaxFaults /\ spurious \in 0..MaxSpurious
  BY DEF Init
<1>5. /\ main \in MainPC /\ net \in NetPC /\ broker \in BrokerState
      /\ recv_mutex \in {"free", "main", "net"}
  BY DEF Init, MainPC, NetPC, BrokerState
<1>6. /\ connected \in BOOLEAN /\ refused \in BOOLEAN
      /\ signalled \subseteq Everybody
  BY Zenon DEF Init
<1>7. to_broker \in Seq(Stamp) /\ to_client \in Seq(Stamp)
  BY DEF Init
<1>8. TypeOK
  BY <1>1, <1>2, <1>3, <1>4, <1>5, <1>6, <1>7 DEF TypeOK
<1>9. Control /\ NoLostWakeup
  BY DEF Init, Control, Looping, NoLostWakeup
<1>10. Progress /\ OnTheWay /\ SamplesPaired
  BY DEF Init, Progress, OnTheWay, SamplesPaired, Looping
<1> QED BY <1>8, <1>9, <1>10 DEF IInv

------------------------------------------------------------------------------
(* The steps that move or count messages.                                  *)

LEMMA PublishInOrder ==
  IInv /\ Publish /\ UNCHANGED program /\ Undisturbed => InOrder'
<1> SUFFICES ASSUME IInv, Publish, UNCHANGED program, Undisturbed
             PROVE  InOrder'
  OBVIOUS
<1> USE ConstantTypes DEF Publish, env, network, load
<1>1. connected /\ InOrder
  BY DEF IInv, OnTheWay, Looping
<1>2. /\ recv_count \in 0..Count /\ sent \in 0..Count /\ sent' \in Slots
      /\ to_broker \in Seq(Stamp) /\ to_client \in Seq(Stamp)
      /\ send_times \in [Slots -> Stamp]
  BY DEF IInv, TypeOK, Slots
<1>3. /\ Len(to_client) \in Nat /\ Len(to_broker) \in Nat
      /\ recv_count \in Nat /\ sent \in Nat
  BY <1>2
<1>4. recv_count + Len(to_client) + Len(to_broker) = sent
  BY <1>1 DEF InOrder
<1>5. /\ recv_count' = recv_count /\ to_client' = to_client
      /\ to_broker' = Append(to_broker, <<run, sent'>>) /\ sent' = sent + 1
      /\ Len(to_broker') = Len(to_broker) + 1
  BY <1>1, <1>2
<1>6. (recv_count + Len(to_client) + Len(to_broker) = sent)'
  BY ONLY <1>3, <1>4, <1>5
<1>7. \A k \in 1..sent' : send_times'[k] = <<run, k>>
  BY <1>1, <1>2 DEF InOrder, Slots
<1>8. ASSUME NEW k \in 1..Len(to_broker')
      PROVE  to_broker'[k] = <<run, recv_count + Len(to_client) + k>>
  <2>1. CASE k \in 1..Len(to_broker)
    BY <2>1, <1>1, <1>2, <1>5 DEF InOrder
  <2>2. CASE k = Len(to_broker) + 1
    <3>1. recv_count + Len(to_client) + k = sent'
      BY ONLY <2>2, <1>3, <1>4, <1>5
    <3>2. to_broker'[k] = <<run, sent'>>
      BY <2>2, <1>2, <1>5
    <3> QED BY <3>1, <3>2
  <2> QED BY <2>1, <2>2, <1>3, <1>5
<1> QED BY <1>1, <1>5, <1>6, <1>7, <1>8 DEF InOrder

LEMMA ForwardInOrder ==
  IInv /\ Forward /\ connected /\ InOrder => InOrder'
<1> SUFFICES ASSUME IInv, Forward, connected, InOrder
             PROVE  InOrder'
  OBVIOUS
<1> USE DEF Forward, arrays, env, load
<1>1. /\ recv_count \in 0..Count
      /\ to_broker \in Seq(Stamp) /\ to_client \in Seq(Stamp)
  BY DEF IInv, TypeOK
<1>2. /\ Len(to_client) \in Nat /\ Len(to_broker) \in Nat
      /\ recv_count \in Nat /\ Len(to_broker) > 0
  BY <1>1, ConstantTypes
<1>3. /\ recv_count' = recv_count /\ run' = run /\ sent' = sent
      /\ to_client' = Append(to_client, Head(to_broker))
      /\ to_broker' = Tail(to_broker)
      /\ Len(to_client') = Len(to_client) + 1
      /\ Len(to_broker') = Len(to_broker) - 1
  BY <1>1, <1>2
<1>4. recv_count' + Len(to_client') + Len(to_broker') = sent'
  <2>1. recv_count + Len(to_client) + Len(to_broker) = sent
    BY DEF InOrder
  <2>2. /\ recv_count' = recv_count /\ sent' = sent
        /\ Len(to_client') = Len(to_client) + 1
        /\ Len(to_broker') = Len(to_broker) - 1
    BY <1>3
  <2> QED BY ONLY <2>1, <2>2, <1>2
<1>5. ASSUME NEW k \in 1..Len(to_client')
      PROVE  to_client'[k] = <<run, recv_count + k>>
  <2>1. CASE k \in 1..Len(to_client)
    BY <2>1, <1>1, <1>3 DEF InOrder
  <2>2. CASE k = Len(to_client) + 1
    <3>1. to_client'[k] = to_broker[1]
      BY <2>2, <1>1, <1>2, <1>3
    <3>2. to_broker[1] = <<run, recv_count + Len(to_client) + 1>>
      BY <1>2 DEF InOrder
    <3>3. recv_count + Len(to_client) + 1 = recv_count + k
      BY ONLY <2>2, <1>2
    <3> QED BY <3>1, <3>2, <3>3
  <2> QED BY <2>1, <2>2, <1>2, <1>3
<1>6. ASSUME NEW k \in 1..Len(to_broker')
      PROVE  to_broker'[k] = <<run, recv_count + Len(to_client') + k>>
  <2>1. k + 1 \in 1..Len(to_broker)
    BY ONLY <1>2, <1>3, k \in 1..Len(to_broker')
  <2>2. to_broker'[k] = to_broker[k + 1]
    BY <2>1, <1>1, <1>2, <1>3
  <2>3. to_broker[k + 1] = <<run, recv_count + Len(to_client) + (k + 1)>>
    BY <2>1 DEF InOrder
  <2>4. recv_count + Len(to_client) + (k + 1) = recv_count + Len(to_client') + k
    BY ONLY <1>2, <1>3, k \in 1..Len(to_broker')
  <2> QED BY <2>2, <2>3, <2>4
<1> QED BY <1>3, <1>4, <1>5, <1>6 DEF InOrder

LEMMA OnMessageInOrder ==
  IInv /\ OnMessage /\ InOrder => InOrder'
<1> SUFFICES ASSUME IInv, OnMessage, InOrder
             PROVE  InOrder'
  OBVIOUS
<1> USE DEF OnMessage, env, load
<1>1. /\ recv_count \in 0..Count /\ sent \in 0..Count
      /\ to_broker \in Seq(Stamp) /\ to_client \in Seq(Stamp)
      /\ recv_times \in [Slots -> Stamp]
  BY DEF IInv, TypeOK
<1>2. /\ Len(to_client) \in Nat /\ Len(to_broker) \in Nat
      /\ recv_count \in Nat /\ sent \in Nat /\ sent <= Count /\ Count \in Nat
      /\ Len(to_client) > 0
  BY <1>1, ConstantTypes
<1>3. recv_count + Len(to_client) + Len(to_broker) = sent
  BY DEF InOrder
<1>4. recv_count < Count
  BY ONLY <1>2, <1>3
<1>5. /\ recv_count' = recv_count + 1 /\ run' = run /\ sent' = sent
      /\ to_client' = Tail(to_client) /\ to_broker' = to_broker
      /\ send_times' = send_times
      /\ recv_times' = [recv_times EXCEPT ![recv_count'] = Head(to_client)]
      /\ Len(to_client') = Len(to_client) - 1
  BY <1>1, <1>2, <1>4
<1>6. /\ recv_count' + Len(to_client') = recv_count + Len(to_client)
      /\ recv_count' + Len(to_client') + Len(to_broker') = sent'
  <2>1. /\ recv_count' = recv_count + 1 /\ sent' = sent
        /\ Len(to_client') = Len(to_client) - 1
        /\ Len(to_broker') = Len(to_broker)
    BY <1>5
  <2> QED BY ONLY <2>1, <1>2, <1>3
<1>7. ASSUME NEW k \in 1..recv_count'
      PROVE  recv_times'[k] = <<run, k>>
  <2>1. CASE k \in 1..recv_count
    <3>1. recv_times'[k] = recv_times[k]
      BY <2>1, <1>1, <1>2, <1>4, <1>5 DEF Slots
    <3> QED BY <3>1, <2>1 DEF InOrder
  <2>2. CASE k = recv_count + 1
    <3>1. recv_times'[k] = to_client[1]
      BY <2>2, <1>1, <1>2, <1>4, <1>5 DEF Slots
    <3>2. to_client[1] = <<run, recv_count + 1>>
      BY <1>2 DEF InOrder
    <3> QED BY <2>2, <3>1, <3>2
  <2> QED BY <2>1, <2>2, <1>2, <1>5
<1>8. ASSUME NEW k \in 1..Len(to_client')
      PROVE  to_client'[k] = <<run, recv_count' + k>>
  <2>1. k + 1 \in 1..Len(to_client)
    BY ONLY <1>2, <1>5, k \in 1..Len(to_client')
  <2>2. to_client'[k] = to_client[k + 1]
    BY <2>1, <1>1, <1>2, <1>5
  <2>3. to_client[k + 1] = <<run, recv_count + (k + 1)>>
    BY <2>1 DEF InOrder
  <2>4. recv_count + (k + 1) = recv_count' + k
    BY ONLY <1>2, <1>5, k \in 1..Len(to_client')
  <2> QED BY <2>2, <2>3, <2>4
<1>9. \A k \in 1..Len(to_broker) :
         to_broker[k] = <<run, (recv_count + Len(to_client)) + k>>
  BY DEF InOrder
<1> QED BY <1>5, <1>6, <1>7, <1>8, <1>9 DEF InOrder

LEMMA PublishStep == IInv /\ Publish /\ UNCHANGED program => IInv'
<1> SUFFICES ASSUME IInv, Publish, UNCHANGED program PROVE IInv'
  OBVIOUS
<1> USE ConstantTypes DEF Publish, network, load, env
<1>1. TypeOK'
  <2>1. /\ sent \in 0..Count /\ to_broker \in Seq(Stamp)
        /\ send_times \in [Slots -> Stamp]
        /\ program \in Programs /\ run \in 1..NumRuns
    BY DEF IInv, TypeOK
  <2>2. sent' \in 0..Count /\ sent' \in Slots
    BY <2>1 DEF Slots
  <2>3. <<run, sent'>> \in Stamp
    BY <2>1, <2>2, Runs DEF Stamp, Message
  <2>4. send_times' \in [Slots -> Stamp] /\ to_broker' \in Seq(Stamp)
    BY <2>1, <2>2, <2>3
  <2> QED BY <2>2, <2>4 DEF IInv, TypeOK, NumRuns
<1>2. Control' /\ Progress' /\ NoLostWakeup'
  BY DEF IInv, Control, Progress, NoLostWakeup, Looping
<1>3. OnTheWay'
  BY PublishInOrder DEF IInv, OnTheWay, Undisturbed, Looping
<1>4. SamplesPaired'
  BY DEF SamplesPaired
<1> QED BY <1>1, <1>2, <1>3, <1>4 DEF IInv

LEMMA ForwardStep == IInv /\ Forward /\ UNCHANGED program => IInv'
<1> SUFFICES ASSUME IInv, Forward, UNCHANGED program PROVE IInv'
  OBVIOUS
<1> USE DEF Forward, arrays, load, env
<1>1. TypeOK'
  BY DEF IInv, TypeOK, NumRuns
<1>2. Control' /\ Progress' /\ NoLostWakeup'
  BY DEF IInv, Control, Progress, NoLostWakeup
<1>3. OnTheWay'
  BY ForwardInOrder DEF IInv, OnTheWay, Undisturbed
<1>4. SamplesPaired'
  BY DEF IInv, SamplesPaired, Undisturbed
<1> QED BY <1>1, <1>2, <1>3, <1>4 DEF IInv

LEMMA OnMessageStep == IInv /\ OnMessage /\ UNCHANGED program => IInv'
<1> SUFFICES ASSUME IInv, OnMessage, UNCHANGED program PROVE IInv'
  OBVIOUS
<1> USE ConstantTypes DEF OnMessage, env, load
<1>0. main \in Looping
  BY DEF IInv, Control
<1>1. TypeOK'
  <2>1. /\ recv_count \in 0..Count /\ to_client \in Seq(Stamp)
        /\ recv_times \in [Slots -> Stamp] /\ net \in NetPC
    BY DEF IInv, TypeOK
  <2>2. to_client' \in Seq(Stamp) /\ Head(to_client) \in Stamp
    BY <2>1
  <2>3. CASE recv_count < Count
    <3>1. recv_count' \in 0..Count /\ net' \in NetPC
      BY <2>1, <2>3 DEF NetPC
    <3>2. recv_times' \in [Slots -> Stamp]
      BY <2>1, <2>2, <2>3 DEF Slots
    <3> QED BY <2>2, <3>1, <3>2 DEF IInv, TypeOK, NumRuns
  <2>4. CASE ~(recv_count < Count)
    BY <2>2, <2>4 DEF IInv, TypeOK, NumRuns
  <2> QED BY <2>3, <2>4
<1>2. Control' /\ Progress' /\ NoLostWakeup'
  BY DEF IInv, TypeOK, Control, Progress, NoLostWakeup, Looping
<1>3. OnTheWay'
  BY <1>0, OnMessageInOrder DEF IInv, OnTheWay, Undisturbed
<1>4. SamplesPaired'
  BY <1>0 DEF SamplesPaired, Looping
<1> QED BY <1>1, <1>2, <1>3, <1>4 DEF IInv

------------------------------------------------------------------------------
(* The steps that wait, and the end of a run.                              *)

\* main may read an old count, but only while the callback has yet to take
\* the mutex that main holds.
LEMMA MainTestStep == IInv /\ MainTest /\ UNCHANGED program => IInv'
<1> SUFFICES ASSUME IInv, MainTest, UNCHANGED program PROVE IInv'
  OBVIOUS
<1> USE ConstantTypes DEF MainTest, arrays, network, load, env
<1>1. PICK seen \in SeenCount :
        main' = IF seen < Count THEN "block" ELSE "unlock"
  OBVIOUS
<1>2. recv_count \in 0..Count /\ recv_count' = recv_count /\ sent' = sent
  BY DEF IInv, TypeOK
<1>3. main' = "block" /\ recv_count = Count => net = "lock"
  BY <1>1, <1>2 DEF SeenCount
<1>4. main' = "unlock" => recv_count = Count
  BY <1>1, <1>2 DEF SeenCount
<1>5. TypeOK'
  BY <1>1 DEF IInv, TypeOK, MainPC, NumRuns
<1>6. Control'
  BY <1>1 DEF IInv, Control, Looping
<1>7. Progress'
  BY <1>1, <1>2, <1>4 DEF IInv, Progress, Looping
<1>8. NoLostWakeup'
  BY <1>1, <1>2, <1>3 DEF IInv, NoLostWakeup
<1>9. OnTheWay' /\ SamplesPaired'
  BY <1>1 DEF IInv, OnTheWay, SamplesPaired, Undisturbed, Looping, InOrder
<1> QED BY <1>5, <1>6, <1>7, <1>8, <1>9 DEF IInv

\* When main has counted all its messages none is left on the network.
LEMMA LoopStopStep == IInv /\ LoopStop /\ UNCHANGED program => IInv'
<1> SUFFICES ASSUME IInv, LoopStop, UNCHANGED program PROVE IInv'
  OBVIOUS
<1> USE ConstantTypes DEF LoopStop, arrays, load, env
<1>1. TypeOK'
  <2>1. to_client' \in Seq(Stamp)
    OBVIOUS
  <2>2. connected' \in BOOLEAN
    BY Zenon
  <2> QED BY <2>1, <2>2 DEF IInv, TypeOK, MainPC, NetPC, NumRuns
<1>2. Control' /\ Progress' /\ NoLostWakeup'
  BY DEF IInv, Control, Progress, NoLostWakeup, Looping
<1>3. ASSUME Undisturbed
      PROVE  to_broker = <<>> /\ recv_count = Count /\ sent = Count /\ InOrder
  <2>1. InOrder /\ recv_count = Count /\ sent = Count
    BY <1>3 DEF IInv, OnTheWay, Progress, Looping
  <2>2. to_broker \in Seq(Stamp) /\ to_client \in Seq(Stamp)
    BY DEF IInv, TypeOK
  <2>3. Len(to_client) \in Nat /\ Len(to_broker) \in Nat
    BY <2>2
  <2>4. Count + Len(to_client) + Len(to_broker) = Count
    BY <2>1 DEF InOrder
  <2>5. Len(to_broker) = 0
    BY ONLY <2>3, <2>4, ConstantTypes
  <2> QED BY <2>1, <2>2, <2>5
<1>4. OnTheWay'
  BY <1>3 DEF OnTheWay, Undisturbed, Looping
<1>5. SamplesPaired'
  BY <1>3 DEF SamplesPaired, Undisturbed, InOrder, Slots
<1> QED BY <1>1, <1>2, <1>4, <1>5 DEF IInv

LEMMA LoadStep ==
  ASSUME IInv, NEW w \in Workers, start_load(w), UNCHANGED program
  PROVE  IInv'
<1> USE ConstantTypes DEF start_load, arrays, network, env, Fault
<1>1. load_pids' \in [Workers -> Workers \union {0, -1}]
  BY DEF IInv, TypeOK
<1>2. faults' \in 0..MaxFaults /\ (Undisturbed' => Undisturbed)
  BY DEF IInv, TypeOK, Undisturbed
<1>3. TypeOK'
  BY <1>1, <1>2 DEF IInv, TypeOK, MainPC, NumRuns
<1>4. Control' /\ Progress' /\ NoLostWakeup'
  BY DEF IInv, Control, Progress, NoLostWakeup, Looping
<1>5. OnTheWay' /\ SamplesPaired'
  BY <1>2 DEF IInv, OnTheWay, SamplesPaired, Looping
<1> QED BY <1>3, <1>4, <1>5 DEF IInv

LEMMA BrokerDiesStep == IInv /\ BrokerDies /\ UNCHANGED program => IInv'
<1> SUFFICES ASSUME IInv, BrokerDies, UNCHANGED program PROVE IInv'
  OBVIOUS
<1> USE ConstantTypes DEF BrokerDies, Fault, arrays, load
<1>1. /\ to_broker' \in Seq(Stamp)
      /\ faults' \in 0..MaxFaults /\ faults' # 0
  BY DEF IInv, TypeOK
<1>2. TypeOK'
  <2>1. connected' \in BOOLEAN
    BY Zenon
  <2> QED BY <1>1, <2>1 DEF IInv, TypeOK, BrokerState, NumRuns
<1>3. Control' /\ Progress' /\ NoLostWakeup'
  BY DEF IInv, Control, Progress, NoLostWakeup
<1>4. OnTheWay' /\ SamplesPaired'
  BY <1>1 DEF OnTheWay, SamplesPaired, Undisturbed
<1> QED BY <1>2, <1>3, <1>4 DEF IInv

------------------------------------------------------------------------------
(* The other steps change little.                                          *)

LEMMA BeginSteps ==
  IInv /\ UNCHANGED program /\
  (start_broker \/ BeginRun \/ Connect \/ LoopStart \/ Stats)
    => IInv'
<1> USE ConstantTypes, Runs
    DEF arrays, network, load, env, Fault, TypeOK, MainPC, NetPC, BrokerState,
        NumRuns, Stamp, Slots, Foreign, IInv, Control, Looping,
        Progress, NoLostWakeup, OnTheWay, Undisturbed, InOrder, SamplesPaired
<1> SUFFICES ASSUME IInv, UNCHANGED program,
                    start_broker \/ BeginRun \/ Connect \/ LoopStart \/ Stats
             PROVE  IInv'
  OBVIOUS
<1>1. CASE start_broker
  BY <1>1 DEF start_broker
<1>2. CASE BeginRun
  BY <1>2 DEF BeginRun
<1>3. CASE Connect
  BY <1>3 DEF Connect
<1>4. CASE LoopStart
  BY <1>4 DEF LoopStart
<1>5. CASE Stats
  <2>1. TypeOK'
    <3>1. run' \in 1..NumRuns /\ main' \in MainPC
      BY <1>5 DEF Stats
    <3> QED BY <1>5, <3>1 DEF Stats
  <2>2. Control' /\ Progress' /\ NoLostWakeup'
    BY <1>5 DEF Stats
  <2>3. OnTheWay' /\ SamplesPaired'
    BY <1>5 DEF Stats
  <2> QED BY <2>1, <2>2, <2>3
<1> QED BY <1>1, <1>2, <1>3, <1>4, <1>5

LEMMA EndSteps ==
  IInv /\ UNCHANGED program /\
  (stop_broker \/ stop_load \/ NewFails)
    => IInv'
<1> USE ConstantTypes, Runs
    DEF arrays, network, load, env, Fault, TypeOK, MainPC, NetPC, BrokerState,
        NumRuns, Stamp, Slots, Foreign, IInv, Control, Looping,
        Progress, NoLostWakeup, OnTheWay, Undisturbed, InOrder, SamplesPaired
<1> SUFFICES ASSUME IInv, UNCHANGED program,
                    stop_broker \/ stop_load \/ NewFails
             PROVE  IInv'
  OBVIOUS
<1>1. CASE stop_broker
  BY <1>1 DEF stop_broker
<1>2. CASE stop_load
  <2>1. signalled' \subseteq Everybody
    BY <1>2 DEF stop_load, Everybody
  <2>2. broker' \in BrokerState
    BY <1>2 DEF stop_load
  <2> QED BY <1>2, <2>1, <2>2 DEF stop_load
<1>3. CASE NewFails
  BY <1>3 DEF NewFails
<1> QED BY <1>1, <1>2, <1>3

LEMMA MutexSteps ==
  IInv /\ UNCHANGED program /\
  (MainLock \/ MainBlock \/ MainUnlock \/ NetLock)
    => IInv'
<1> USE ConstantTypes, Runs
    DEF arrays, network, load, env, Fault, TypeOK, MainPC, NetPC, BrokerState,
        NumRuns, Stamp, Slots, Foreign, IInv, Control, Looping,
        Progress, NoLostWakeup, OnTheWay, Undisturbed, InOrder, SamplesPaired
<1> SUFFICES ASSUME IInv, UNCHANGED program,
                    MainLock \/ MainBlock \/ MainUnlock \/ NetLock
             PROVE  IInv'
  OBVIOUS
<1>1. CASE MainLock
  <2>1. TypeOK'
    BY <1>1 DEF MainLock
  <2>2. Control' /\ Progress' /\ NoLostWakeup'
    BY <1>1 DEF MainLock
  <2>3. OnTheWay' /\ SamplesPaired'
    BY <1>1 DEF MainLock
  <2> QED BY <2>1, <2>2, <2>3
<1>2. CASE MainBlock
  BY <1>2 DEF MainBlock
<1>3. CASE MainUnlock
  BY <1>3 DEF MainUnlock
<1>4. CASE NetLock
  BY <1>4 DEF NetLock
<1> QED BY <1>1, <1>2, <1>3, <1>4

LEMMA SignalSteps ==
  IInv /\ UNCHANGED program /\
  (NetSignal \/ NetUnlock \/ SpuriousWakeup)
    => IInv'
<1> USE ConstantTypes, Runs
    DEF arrays, network, load, env, Fault, TypeOK, MainPC, NetPC, BrokerState,
        NumRuns, Stamp, Slots, Foreign, IInv, Control, Looping,
        Progress, NoLostWakeup, OnTheWay, Undisturbed, InOrder, SamplesPaired
<1> SUFFICES ASSUME IInv, UNCHANGED program,
                    NetSignal \/ NetUnlock \/ SpuriousWakeup
             PROVE  IInv'
  OBVIOUS
<1>1. CASE NetSignal
  <2>1. TypeOK'
    BY <1>1 DEF NetSignal
  <2>2. Control' /\ Progress' /\ NoLostWakeup'
    BY <1>1 DEF NetSignal
  <2>3. OnTheWay' /\ SamplesPaired'
    BY <1>1 DEF NetSignal
  <2> QED BY <2>1, <2>2, <2>3
<1>2. CASE NetUnlock
  <2>1. TypeOK'
    BY <1>2 DEF NetUnlock
  <2>2. Control' /\ Progress' /\ NoLostWakeup'
    BY <1>2 DEF NetUnlock
  <2>3. OnTheWay' /\ SamplesPaired'
    BY <1>2 DEF NetUnlock
  <2> QED BY <2>1, <2>2, <2>3
<1>3. CASE SpuriousWakeup
  BY <1>3 DEF SpuriousWakeup
<1> QED BY <1>1, <1>2, <1>3

LEMMA BrokerSteps ==
  IInv /\ UNCHANGED program /\
  (BrokerReady \/ Lose \/ Stranger)
    => IInv'
<1> USE ConstantTypes, Runs
    DEF arrays, network, load, env, Fault, TypeOK, MainPC, NetPC, BrokerState,
        NumRuns, Stamp, Slots, Foreign, IInv, Control, Looping,
        Progress, NoLostWakeup, OnTheWay, Undisturbed, InOrder, SamplesPaired
<1> SUFFICES ASSUME IInv, UNCHANGED program,
                    BrokerReady \/ Lose \/ Stranger
             PROVE  IInv'
  OBVIOUS
<1>1. CASE BrokerReady
  <2>1. TypeOK'
    BY <1>1 DEF BrokerReady
  <2>2. Control' /\ Progress' /\ NoLostWakeup'
    BY <1>1 DEF BrokerReady
  <2>3. OnTheWay' /\ SamplesPaired'
    BY <1>1 DEF BrokerReady
  <2> QED BY <2>1, <2>2, <2>3
<1>2. CASE Lose
  BY <1>2 DEF Lose
<1>3. CASE Stranger
  BY <1>3 DEF Stranger
<1> QED BY <1>1, <1>2, <1>3

LEMMA StepInv == IInv /\ [Next]_vars => IInv'
<1>1. IInv /\ UNCHANGED vars => IInv'
  <2> SUFFICES ASSUME IInv, UNCHANGED vars PROVE IInv'
    OBVIOUS
  <2> USE DEF vars, arrays, network, load, env
  <2>1. TypeOK'
    BY DEF IInv, TypeOK, NumRuns
  <2>2. Control' /\ Progress' /\ NoLostWakeup'
    BY DEF IInv, Control, Progress, NoLostWakeup
  <2>3. OnTheWay' /\ SamplesPaired'
    BY DEF IInv, OnTheWay, SamplesPaired, Undisturbed, InOrder
  <2> QED BY <2>1, <2>2, <2>3 DEF IInv
<1>2. IInv /\ MainNext /\ UNCHANGED program => IInv'
  BY BeginSteps, PublishStep, MutexSteps, MainTestStep, LoopStopStep, EndSteps,
     LoadStep DEF MainNext
<1>3. IInv /\ NetNext /\ UNCHANGED program => IInv'
  BY OnMessageStep, MutexSteps, SignalSteps DEF NetNext
<1>4. IInv /\ BrokerNext /\ UNCHANGED program => IInv'
  BY BrokerSteps, ForwardStep DEF BrokerNext
<1>5. IInv /\ Disturbance /\ UNCHANGED program => IInv'
  BY EndSteps, BrokerSteps, BrokerDiesStep, SignalSteps DEF Disturbance
<1> QED BY <1>1, <1>2, <1>3, <1>4, <1>5 DEF Next

LEMMA Always == Spec => []IInv
BY InitInv, StepInv, PTL DEF Spec

LEMMA Handover == IInv => Inv
<1>1. IInv => CleanHandover
  BY DEF IInv, TypeOK, Control, Looping, CleanHandover, MainPC, NetPC
<1> QED BY <1>1 DEF IInv, Inv

\* Types are kept, no message is written past the arrays, and a run hands a
\* free mutex and no network thread to the next, for any number of messages,
\* workers and disturbances.
THEOREM InvCorrect == Spec => []Inv
BY Always, Handover, PTL

\* No wakeup is lost, although on_message counts without the mutex.
THEOREM WakeupsNotLost == Spec => []NoLostWakeup
<1>1. IInv => NoLostWakeup
  BY DEF IInv
<1> QED BY <1>1, Always, PTL

\* If nothing goes wrong outside the program, each latency is that of one
\* message of this run, for any number of messages.
THEOREM PairsCorrect == Spec => []SamplesPaired
<1>1. IInv => SamplesPaired
  BY DEF IInv
<1> QED BY <1>1, Always, PTL
==============================================================================
