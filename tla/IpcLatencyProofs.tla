--------------------------- MODULE IpcLatencyProofs ---------------------------
(***************************************************************************)
(* For any number of runs, rounds and failures, and wherever a run is      *)
(* interrupted: one queue that two processes share in both directions      *)
(* holds one message of one run at most.                                   *)
(***************************************************************************)
EXTENDS IpcLatency, FiniteSetTheorems, TLAPS

Ready == {"load", "fork", "send", "recv", "kill", "join"}
Unopened == {"start", "unlink", "open"}

\* The messages of run r.
Own(r) == [run : {r}, by : {"parent", "child"}]

\* A run works on the queue object that it created: the name was unlinked
\* before, and nobody else creates an object.  Its child never has another.
QueueInv ==
  /\ parent = "open" => name = NoQueue
  /\ parent \in Ready => mq[run] = run
  /\ parent \in Unopened => mq[run] = NoQueue
  /\ \A r \in Runs : /\ mq[r] \in {NoQueue, r}
                     /\ r > run => mq[r] = NoQueue
                     /\ mq[r] = NoQueue => child[r] = "none" /\ queue[r] = <<>>

\* What a queue and a child hold are messages of their run.
OwnInv ==
  /\ queue \in [Runs -> Seq(Message)] /\ buffer \in [Runs -> Seq(Message)]
  /\ \A r \in Runs : /\ queue[r] \in Seq(Own(r)) /\ buffer[r] \in Seq(Own(r))
                     /\ child[r] = "send" => buffer[r] # <<>>
  /\ received \in Seq(Own(run))

\* The loop counters.
LoopInv ==
  /\ parent \in Unopened \union {"load", "fork"} => rounds = 0
  /\ parent = "recv" => rounds < Iterations
  /\ \A r \in Runs : child[r] = "send" => echoes[r] < Iterations

\* Where the token of the current run is.
Token ==
  /\ parent \in {"load", "fork"} => child[run] = "none" /\ queue[run] = <<>>
  /\ parent = "send" => child[run] # "send" /\ queue[run] = <<>>
  /\ parent = "recv" =>
       \/ Len(queue[run]) = 1 /\ child[run] # "send"
       \/ queue[run] = <<>> /\ child[run] \in {"send", "failed"}

IInv == TypeOK /\ QueueInv /\ OwnInv /\ LoopInv /\ Token

LEMMA Constants ==
  /\ Iterations \in Nat /\ Iterations > 0 /\ MaxMsg \in Nat /\ MaxMsg > 0
  /\ MaxRuns \in Nat /\ MaxRuns > 0 /\ MaxFaults \in Nat
  /\ Runs \subseteq Nat \ {NoQueue} /\ 1 \in Runs
BY IterationsAssumption, BoundsAssumption DEF Runs, NoQueue

\* Of the senders to the queue of a run only its own child can be on its way.
LEMMA TokenIsOne == IInv => OneToken
<1> SUFFICES ASSUME IInv, parent \in {"send", "recv"} PROVE OneToken
  BY DEF OneToken
<1>1. run \in Runs /\ mq[run] = run /\ run # NoQueue
  BY Constants DEF IInv, TypeOK, QueueInv, Ready
<1> DEFINE Senders == {r \in Runs : mq[r] = run /\ child[r] = "send"}
<1>2. \A r \in Runs : mq[r] = run => r = run
  BY <1>1 DEF IInv, QueueInv
<1>3. InFlight(mq[run]) = Len(queue[run]) + Cardinality(Senders)
  BY <1>1 DEF InFlight
<1>4. child[run] # "send" => Cardinality(Senders) = 0
  <2> SUFFICES ASSUME child[run] # "send" PROVE Cardinality(Senders) = 0
    OBVIOUS
  <2>1. Senders = {}
    BY <1>2
  <2> QED BY <2>1, FS_EmptySet
<1>5. child[run] = "send" => Cardinality(Senders) = 1
  <2> SUFFICES ASSUME child[run] = "send" PROVE Cardinality(Senders) = 1
    OBVIOUS
  <2>1. Senders = {run}
    BY <1>1, <1>2
  <2> QED BY <2>1, FS_Singleton
<1>6. queue[run] = <<>> => Len(queue[run]) = 0
  OBVIOUS
<1> HIDE DEF Senders
<1>7. CASE parent = "send"
  <2>1. InFlight(mq[run]) = 0
    BY <1>3, <1>4, <1>6, <1>7 DEF IInv, Token
  <2> QED BY <2>1, <1>7 DEF OneToken
<1>8. CASE parent = "recv"
  <2>1. CASE Len(queue[run]) = 1 /\ child[run] # "send"
    <3>1. InFlight(mq[run]) = 1
      BY <1>3, <1>4, <2>1
    <3> QED BY <3>1, <1>8 DEF OneToken
  <2>2. CASE queue[run] = <<>> /\ child[run] = "send"
    <3>1. InFlight(mq[run]) = 1
      BY <1>3, <1>5, <1>6, <2>2
    <3> QED BY <3>1, <1>8 DEF OneToken
  <2>3. CASE queue[run] = <<>> /\ child[run] = "failed"
    <3>1. InFlight(mq[run]) = 0
      BY <1>3, <1>4, <1>6, <2>3
    <3> QED BY <3>1, <2>3, <1>8 DEF OneToken
  <2> QED BY <2>1, <2>2, <2>3, <1>8 DEF IInv, Token
<1> QED BY <1>7, <1>8

LEMMA ReceivedIsOwn == IInv => OwnRunOnly
<1> SUFFICES ASSUME IInv, NEW k \in 1..Len(received) PROVE received[k].run = run
  BY DEF OwnRunOnly
<1>1. received[k] \in Own(run)
  BY DEF IInv, OwnInv
<1> QED BY <1>1 DEF Own

LEMMA InitInv == Init => IInv
<1> SUFFICES ASSUME Init PROVE IInv
  OBVIOUS
<1> USE Constants DEF Init
<1>1. TypeOK
  BY DEF TypeOK, ParentPC, ChildPC, NoQueue
<1>2. QueueInv
  BY DEF QueueInv, Ready, Unopened
<1>3. OwnInv
  BY DEF OwnInv
<1>4. LoopInv /\ Token
  BY DEF LoopInv, Token, Unopened
<1> QED BY <1>1, <1>2, <1>3, <1>4 DEF IInv

\* The parent goes on, and touches neither the queues nor its child.
LEMMA ParentMoves ==
  IInv /\ (ParsePolicy \/ Unlink \/ StartLoad \/ SetupFails \/ ForkFails \/ LoopDone
           \/ BreakLoop) => IInv'
<1> SUFFICES ASSUME IInv, ParsePolicy \/ Unlink \/ StartLoad \/ SetupFails \/ ForkFails
                          \/ LoopDone \/ BreakLoop
             PROVE  IInv'
  OBVIOUS
<1> USE Constants
<1>1. UNCHANGED <<run, mq, queue, child, buffer, echoes, rounds, received>>
  BY DEF ParsePolicy, Unlink, StartLoad, SetupFails, ForkFails, LoopDone, BreakLoop,
     mqs, childVars, loopVars
<1>2. /\ name' \in {name, NoQueue} /\ parent' \in ParentPC
      /\ parent' = "open" => name' = NoQueue
      /\ parent' \in Ready => parent \in Ready
      /\ parent' \in Unopened => parent \in Unopened
      /\ parent' \in {"load", "fork"} => parent \in {"load", "fork"}
      /\ parent' \notin {"send", "recv"}
  BY DEF ParsePolicy, Unlink, StartLoad, SetupFails, ForkFails, LoopDone, BreakLoop,
     mqs, ParentPC, Ready, Unopened
<1>3. faults' \in 0..MaxFaults
  <2>1. faults \in 0..MaxFaults
    BY DEF IInv, TypeOK
  <2> QED BY <2>1 DEF ParsePolicy, Unlink, StartLoad, SetupFails, ForkFails, LoopDone,
             BreakLoop, Fault
<1>4. TypeOK'
  BY <1>1, <1>2, <1>3 DEF IInv, TypeOK
<1>5. QueueInv' /\ OwnInv'
  BY <1>1, <1>2 DEF IInv, QueueInv, OwnInv
<1>6. LoopInv' /\ Token'
  BY <1>1, <1>2 DEF IInv, LoopInv, Token
<1> QED BY <1>4, <1>5, <1>6 DEF IInv

LEMMA OpenStep == IInv /\ Open => IInv'
<1> SUFFICES ASSUME IInv, Open PROVE IInv'
  OBVIOUS
<1> USE Constants
<1>1. /\ UNCHANGED <<run, queue, child, buffer, echoes, rounds, received, faults>>
      /\ parent = "open" /\ parent' = "load"
  BY DEF Open, childVars, loopVars
<1>2. run \in Runs /\ name = NoQueue /\ mq[run] = NoQueue
  BY <1>1 DEF IInv, TypeOK, QueueInv, Unopened
<1>3. name' = run /\ mq' = [mq EXCEPT ![run] = run]
  BY <1>2 DEF Open
<1>4. TypeOK'
  BY <1>1, <1>2, <1>3 DEF IInv, TypeOK, ParentPC
<1>5. /\ mq \in [Runs -> Runs \union {NoQueue}] /\ mq'[run] = run
      /\ \A r \in Runs : r # run => mq'[r] = mq[r]
  BY <1>2, <1>3 DEF IInv, TypeOK
<1>6. child[run] = "none" /\ queue[run] = <<>>
  BY <1>2 DEF IInv, QueueInv
<1>7. QueueInv'
  BY <1>1, <1>2, <1>5 DEF IInv, QueueInv, Ready, Unopened
<1>8. OwnInv' /\ LoopInv' /\ Token'
  BY <1>1, <1>6 DEF IInv, OwnInv, LoopInv, Token, Unopened
<1> QED BY <1>4, <1>7, <1>8 DEF IInv

LEMMA ForkStep == IInv /\ Fork => IInv'
<1> SUFFICES ASSUME IInv, Fork PROVE IInv'
  OBVIOUS
<1> USE Constants
<1>1. /\ UNCHANGED <<run, name, mq, queue, buffer, echoes, rounds, received, faults>>
      /\ parent = "fork" /\ parent' = "send" /\ child' = [child EXCEPT ![run] = "recv"]
  BY DEF Fork, mqs, loopVars
<1>2. run \in Runs /\ mq[run] = run /\ child \in [Runs -> ChildPC]
  BY <1>1 DEF IInv, TypeOK, QueueInv, Ready
<1>3. child'[run] = "recv" /\ \A r \in Runs : r # run => child'[r] = child[r]
  BY <1>1, <1>2
<1>4. TypeOK'
  BY <1>1, <1>2 DEF IInv, TypeOK, ParentPC, ChildPC
<1>5. QueueInv'
  BY <1>1, <1>2, <1>3 DEF IInv, QueueInv, Ready, Unopened
<1>6. OwnInv' /\ LoopInv' /\ Token'
  BY <1>1, <1>2, <1>3 DEF IInv, OwnInv, LoopInv, Token, Unopened
<1> QED BY <1>4, <1>5, <1>6 DEF IInv

\* What append and remove do to the messages of a run.
LEMMA OwnMessages ==
  ASSUME NEW r \in Runs, NEW s \in Seq(Own(r))
  PROVE  /\ s \in Seq(Message) /\ Len(s) \in Nat
         /\ \A m \in Own(r) : /\ Append(s, m) \in Seq(Own(r))
                             /\ Append(s, m) \in Seq(Message)
                             /\ Len(Append(s, m)) = Len(s) + 1
                             /\ Append(s, m) # <<>>
         /\ s # <<>> => /\ Head(s) \in Own(r) /\ Tail(s) \in Seq(Own(r))
                       /\ Tail(s) \in Seq(Message)
                       /\ Len(Tail(s)) = Len(s) - 1 /\ Len(s) >= 1
<1>1. Own(r) \subseteq Message
  BY DEF Own, Message
<1>2. \A t \in Seq(Own(r)) : t \in Seq(Message)
  BY <1>1
<1>3. /\ Len(s) \in Nat
      /\ \A m \in Own(r) : /\ Append(s, m) \in Seq(Own(r)) /\ Append(s, m) # <<>>
                          /\ Len(Append(s, m)) = Len(s) + 1
  OBVIOUS
<1>4. s # <<>> => /\ Head(s) \in Own(r) /\ Tail(s) \in Seq(Own(r))
                  /\ Len(Tail(s)) = Len(s) - 1 /\ Len(s) >= 1
  OBVIOUS
<1> QED BY <1>2, <1>3, <1>4

LEMMA SendStep == IInv /\ Send => IInv'
<1> SUFFICES ASSUME IInv, Send PROVE IInv'
  OBVIOUS
<1> USE Constants
<1> DEFINE ping == [run |-> run, by |-> "parent"]
<1>1. /\ UNCHANGED <<run, name, mq, child, buffer, echoes, rounds, received, faults>>
      /\ parent = "send" /\ parent' = "recv" /\ rounds < Iterations
      /\ Len(queue[mq[run]]) < MaxMsg
      /\ queue' = [queue EXCEPT ![mq[run]] = Append(@, ping)]
  BY DEF Send, childVars, loopVars
<1>2. /\ run \in Runs /\ mq[run] = run /\ queue \in [Runs -> Seq(Message)]
      /\ queue[run] \in Seq(Own(run)) /\ queue[run] = <<>> /\ child[run] # "send"
  BY <1>1 DEF IInv, TypeOK, QueueInv, OwnInv, Token, Ready
<1>3. ping \in Own(run)
  BY <1>2 DEF Own
<1> HIDE DEF ping
<1>4. queue'[run] = Append(queue[run], ping)
      /\ \A r \in Runs : r # run => queue'[r] = queue[r]
  BY <1>1, <1>2
<1>5. /\ queue'[run] \in Seq(Own(run)) /\ queue'[run] \in Seq(Message)
      /\ Len(queue'[run]) = 1 /\ queue'[run] # <<>>
  <2>1. Len(queue[run]) = 0
    BY <1>2
  <2> QED BY <2>1, <1>2, <1>3, <1>4, OwnMessages
<1>6. queue' \in [Runs -> Seq(Message)]
  BY <1>1, <1>2, <1>4, <1>5
<1>7. TypeOK'
  <2>1. \A r \in Runs : queue[r] \in Seq(Message) /\ Len(queue[r]) <= MaxMsg
    BY DEF IInv, TypeOK
  <2>2. \A r \in Runs : queue'[r] \in Seq(Message) /\ Len(queue'[r]) <= MaxMsg
    BY <2>1, <1>4, <1>5
  <2> QED BY <1>1, <2>2 DEF IInv, TypeOK, ParentPC
<1>8. QueueInv'
  BY <1>1, <1>2, <1>4 DEF IInv, QueueInv, Ready, Unopened
<1>9. OwnInv'
  BY <1>1, <1>4, <1>5, <1>6 DEF IInv, OwnInv
<1>10. LoopInv' /\ Token'
  BY <1>1, <1>2, <1>5 DEF IInv, LoopInv, Token, Unopened
<1> QED BY <1>7, <1>8, <1>9, <1>10 DEF IInv

LEMMA ReceiveStep == IInv /\ Receive => IInv'
<1> SUFFICES ASSUME IInv, Receive PROVE IInv'
  OBVIOUS
<1> USE Constants
<1>1. /\ UNCHANGED <<run, name, mq, child, buffer, echoes, faults>>
      /\ parent = "recv" /\ parent' = "send" /\ rounds' = rounds + 1
      /\ queue[mq[run]] # <<>>
      /\ received' = Append(received, Head(queue[mq[run]]))
      /\ queue' = [queue EXCEPT ![mq[run]] = Tail(@)]
  BY DEF Receive, childVars
<1>2. /\ run \in Runs /\ mq[run] = run /\ queue \in [Runs -> Seq(Message)]
      /\ queue[run] \in Seq(Own(run)) /\ received \in Seq(Own(run))
      /\ rounds \in Nat /\ rounds < Iterations /\ Len(received) = rounds
  BY <1>1 DEF IInv, TypeOK, QueueInv, OwnInv, LoopInv, Ready
<1>3. Len(queue[run]) = 1 /\ child[run] # "send" /\ queue[run] # <<>>
  BY <1>1, <1>2 DEF IInv, Token
<1>4. queue'[run] = Tail(queue[run]) /\ \A r \in Runs : r # run => queue'[r] = queue[r]
  BY <1>1, <1>2
<1>5. /\ queue'[run] \in Seq(Own(run)) /\ queue'[run] \in Seq(Message)
      /\ Len(queue'[run]) = 0 /\ Head(queue[run]) \in Own(run)
  BY <1>2, <1>3, <1>4, OwnMessages
<1>6. queue'[run] = <<>>
  BY <1>5
<1>7. /\ received' \in Seq(Own(run)) /\ received' \in Seq(Message)
      /\ Len(received') = rounds + 1
  BY <1>1, <1>2, <1>5, OwnMessages
<1>8. queue' \in [Runs -> Seq(Message)]
  BY <1>1, <1>2, <1>4, <1>5
<1>9. TypeOK'
  <2>1. \A r \in Runs : queue[r] \in Seq(Message) /\ Len(queue[r]) <= MaxMsg
    BY DEF IInv, TypeOK
  <2>2. \A r \in Runs : queue'[r] \in Seq(Message) /\ Len(queue'[r]) <= MaxMsg
    <3>1. queue'[run] \in Seq(Message) /\ Len(queue'[run]) <= MaxMsg
      BY <1>5
    <3>2. \A r \in Runs : r # run => queue'[r] = queue[r]
      BY <1>4
    <3> QED BY ONLY <2>1, <3>1, <3>2
  <2>3. rounds' \in 0..Iterations /\ received' \in Seq(Message)
        /\ Len(received') = rounds'
    BY <1>1, <1>2, <1>7
  <2> QED BY <1>1, <2>2, <2>3 DEF IInv, TypeOK, ParentPC
<1>10. QueueInv'
  BY <1>1, <1>2, <1>4, <1>6 DEF IInv, QueueInv, Ready, Unopened
<1>11. OwnInv'
  BY <1>1, <1>4, <1>5, <1>7, <1>8 DEF IInv, OwnInv
<1>12. LoopInv' /\ Token'
  BY <1>1, <1>3, <1>6 DEF IInv, LoopInv, Token, Unopened
<1> QED BY <1>9, <1>10, <1>11, <1>12 DEF IInv

\* The end of the parent, which may kill its child.
LEMMA KillStep == IInv /\ (KillChild \/ Interrupt) => IInv'
<1> SUFFICES ASSUME IInv, KillChild \/ Interrupt PROVE IInv'
  OBVIOUS
<1> USE Constants
<1>1. /\ UNCHANGED <<run, name, mq, queue, buffer, echoes, rounds, received, faults>>
      /\ parent' \in {"join", "over"} /\ (parent' = "join" => parent = "kill")
      /\ \/ child' = child
         \/ child' = [child EXCEPT ![run] = IF @ \in Ended THEN @ ELSE "killed"]
  BY DEF KillChild, Interrupt, mqs, loopVars
<1>2. run \in Runs /\ child \in [Runs -> ChildPC]
  BY DEF IInv, TypeOK
<1>3. /\ child' \in [Runs -> ChildPC]
      /\ \A r \in Runs : \/ child'[r] = child[r]
                         \/ child'[r] = "killed" /\ child[r] # "none"
  BY <1>1, <1>2 DEF ChildPC, Ended
<1>4. TypeOK'
  BY <1>1, <1>3 DEF IInv, TypeOK, ParentPC
<1>5. QueueInv'
  BY <1>1, <1>2, <1>3 DEF IInv, QueueInv, Ready, Unopened
<1>6. OwnInv'
  BY <1>1, <1>3 DEF IInv, OwnInv
<1>7. LoopInv' /\ Token'
  BY <1>1, <1>3 DEF IInv, LoopInv, Token, Unopened
<1> QED BY <1>4, <1>5, <1>6, <1>7 DEF IInv

\* The program is started again, on what the earlier runs have left.
LEMMA RerunStep == IInv /\ Rerun => IInv'
<1> SUFFICES ASSUME IInv, Rerun PROVE IInv'
  OBVIOUS
<1> USE Constants
<1>1. /\ UNCHANGED <<name, mq, queue, child, buffer, echoes, faults>>
      /\ run' = run + 1 /\ run < MaxRuns /\ parent' = "start"
      /\ rounds' = 0 /\ received' = <<>>
  BY DEF Rerun, mqs, childVars
<1>2. run \in Nat /\ run' \in Runs /\ run' > run
  BY <1>1 DEF IInv, TypeOK, Runs
<1>3. TypeOK'
  BY <1>1, <1>2 DEF IInv, TypeOK, ParentPC
<1>4. QueueInv'
  <2>1. mq[run'] = NoQueue
    BY <1>2 DEF IInv, QueueInv
  <2>2. \A r \in Runs : r > run' => r > run
    BY <1>1, <1>2
  <2> QED BY <1>1, <2>1, <2>2 DEF IInv, QueueInv, Ready, Unopened
<1>5. OwnInv' /\ LoopInv' /\ Token'
  BY <1>1 DEF IInv, OwnInv, LoopInv, Token, Unopened
<1> QED BY <1>3, <1>4, <1>5 DEF IInv

LEMMA ChildRecvStep ==
  ASSUME IInv, NEW r \in Runs, ChildRecv(r)
  PROVE  IInv'
<1> USE Constants
<1>1. /\ UNCHANGED <<run, parent, name, mq, echoes, rounds, received, faults>>
      /\ child[r] = "recv" /\ echoes[r] < Iterations /\ queue[mq[r]] # <<>>
      /\ buffer' = [buffer EXCEPT ![r] = <<Head(queue[mq[r]])>>]
      /\ queue' = [queue EXCEPT ![mq[r]] = Tail(@)]
      /\ child' = [child EXCEPT ![r] = "send"]
  BY DEF ChildRecv, loopVars
<1>2. /\ mq[r] = r /\ queue \in [Runs -> Seq(Message)] /\ queue[r] \in Seq(Own(r))
      /\ buffer \in [Runs -> Seq(Message)] /\ child \in [Runs -> ChildPC]
  BY <1>1 DEF IInv, TypeOK, QueueInv, OwnInv
<1>3. queue[r] # <<>>
  BY <1>1, <1>2
<1>4. /\ queue'[r] = Tail(queue[r]) /\ child'[r] = "send"
      /\ buffer'[r] = <<Head(queue[r])>>
      /\ \A u \in Runs : u # r => /\ queue'[u] = queue[u] /\ child'[u] = child[u]
                                  /\ buffer'[u] = buffer[u]
  BY <1>1, <1>2
<1>5. /\ queue'[r] \in Seq(Own(r)) /\ queue'[r] \in Seq(Message)
      /\ Len(queue'[r]) = Len(queue[r]) - 1 /\ Head(queue[r]) \in Own(r)
      /\ Len(queue[r]) \in Nat
  BY <1>2, <1>3, <1>4, OwnMessages
<1>6. /\ buffer'[r] \in Seq(Own(r)) /\ buffer'[r] \in Seq(Message)
      /\ buffer'[r] # <<>> /\ Len(buffer'[r]) = 1
  <2>1. Head(queue[r]) \in Message
    BY <1>5 DEF Own, Message
  <2> QED BY <1>4, <1>5, <2>1
<1>7. queue' \in [Runs -> Seq(Message)] /\ buffer' \in [Runs -> Seq(Message)]
  <2>1. queue' \in [Runs -> Seq(Message)]
    BY <1>1, <1>2, <1>4, <1>5
  <2>2. buffer' \in [Runs -> Seq(Message)]
    BY <1>1, <1>2, <1>4, <1>6
  <2> QED BY <2>1, <2>2
<1>8. TypeOK'
  <2>1. child' \in [Runs -> ChildPC]
    BY <1>1, <1>2 DEF ChildPC
  <2>2. \A u \in Runs : queue'[u] \in Seq(Message) /\ Len(queue'[u]) <= MaxMsg
    <3>1. \A u \in Runs : queue[u] \in Seq(Message) /\ Len(queue[u]) <= MaxMsg
      BY DEF IInv, TypeOK
    <3>2. Len(queue'[r]) <= MaxMsg
      BY <1>5, <3>1
    <3> QED BY <1>4, <1>5, <3>1, <3>2
  <2>3. \A u \in Runs : buffer'[u] \in Seq(Message) /\ Len(buffer'[u]) <= 1
    <3>1. \A u \in Runs : buffer[u] \in Seq(Message) /\ Len(buffer[u]) <= 1
      BY DEF IInv, TypeOK
    <3>2. Len(buffer'[r]) <= 1
      BY <1>6
    <3> QED BY <1>4, <1>6, <3>1, <3>2
  <2> QED BY <1>1, <2>1, <2>2, <2>3 DEF IInv, TypeOK
<1>9. QueueInv'
  BY <1>1, <1>2, <1>4 DEF IInv, QueueInv
<1>10. OwnInv'
  BY <1>1, <1>4, <1>5, <1>6, <1>7 DEF IInv, OwnInv
<1>11. LoopInv'
  BY <1>1, <1>4 DEF IInv, LoopInv
<1>12. Token'
  <2>1. CASE r # run
    BY <2>1, <1>1, <1>4 DEF IInv, Token, TypeOK
  <2>2. CASE r = run
    <3>1. Len(queue[run]) = 1 => queue'[run] = <<>>
      <4>1. Len(queue[r]) = 1 => Len(queue'[r]) = 0
        BY <1>5
      <4>2. Len(queue'[r]) = 0 => queue'[r] = <<>>
        BY <1>5
      <4> QED BY <2>2, <4>1, <4>2
    <3> QED BY <2>2, <3>1, <1>1, <1>3, <1>4 DEF IInv, Token
  <2> QED BY <2>1, <2>2
<1> QED BY <1>8, <1>9, <1>10, <1>11, <1>12 DEF IInv

LEMMA ChildSendStep ==
  ASSUME IInv, NEW r \in Runs, ChildSend(r)
  PROVE  IInv'
<1> USE Constants
<1> DEFINE pong == [buffer[r][1] EXCEPT !.by = "child"]
<1>1. /\ UNCHANGED <<run, parent, name, mq, buffer, rounds, received, faults>>
      /\ child[r] = "send" /\ Len(queue[mq[r]]) < MaxMsg
      /\ queue' = [queue EXCEPT ![mq[r]] = Append(@, pong)]
      /\ echoes' = [echoes EXCEPT ![r] = @ + 1]
      /\ child' = [child EXCEPT ![r] = "recv"]
  BY DEF ChildSend, loopVars
<1>2. /\ mq[r] = r /\ queue \in [Runs -> Seq(Message)] /\ queue[r] \in Seq(Own(r))
      /\ buffer[r] \in Seq(Own(r)) /\ buffer[r] # <<>> /\ child \in [Runs -> ChildPC]
  BY <1>1 DEF IInv, TypeOK, QueueInv, OwnInv
<1>3. pong \in Own(r)
  <2>1. buffer[r][1] \in Own(r)
    BY <1>2
  <2> QED BY <2>1 DEF Own
<1> HIDE DEF pong
<1>4. /\ queue'[r] = Append(queue[r], pong) /\ child'[r] = "recv"
      /\ \A u \in Runs : u # r => queue'[u] = queue[u] /\ child'[u] = child[u]
  BY <1>1, <1>2
<1>5. /\ queue'[r] \in Seq(Own(r)) /\ queue'[r] \in Seq(Message)
      /\ Len(queue'[r]) = Len(queue[r]) + 1 /\ Len(queue[r]) \in Nat
      /\ Len(queue[r]) < MaxMsg
  BY <1>1, <1>2, <1>3, <1>4, OwnMessages
<1>6. queue' \in [Runs -> Seq(Message)]
  BY <1>1, <1>2, <1>4, <1>5
<1>7. echoes' \in [Runs -> 0..Iterations]
      /\ \A u \in Runs : u # r => echoes'[u] = echoes[u]
  <2>1. echoes \in [Runs -> 0..Iterations] /\ echoes[r] < Iterations
    BY <1>1 DEF IInv, TypeOK, LoopInv
  <2> QED BY <1>1, <2>1
<1>8. TypeOK'
  <2>1. child' \in [Runs -> ChildPC]
    BY <1>1, <1>2 DEF ChildPC
  <2>2. \A u \in Runs : queue'[u] \in Seq(Message) /\ Len(queue'[u]) <= MaxMsg
    <3>1. \A u \in Runs : queue[u] \in Seq(Message) /\ Len(queue[u]) <= MaxMsg
      BY DEF IInv, TypeOK
    <3>2. Len(queue'[r]) <= MaxMsg
      BY <1>5, <3>1
    <3> QED BY <1>4, <1>5, <3>1, <3>2
  <2> QED BY <1>1, <1>7, <2>1, <2>2 DEF IInv, TypeOK
<1>9. QueueInv'
  BY <1>1, <1>2, <1>4 DEF IInv, QueueInv
<1>10. OwnInv'
  BY <1>1, <1>4, <1>5, <1>6 DEF IInv, OwnInv
<1>11. LoopInv'
  BY <1>1, <1>4, <1>7 DEF IInv, LoopInv
<1>12. Token'
  <2>1. CASE r # run
    BY <2>1, <1>1, <1>4 DEF IInv, Token, TypeOK
  <2>2. CASE r = run
    <3>1. queue[run] = <<>> => Len(queue'[run]) = 1
      BY <2>2, <1>5
    <3> QED BY <2>2, <3>1, <1>1, <1>4 DEF IInv, Token
  <2> QED BY <2>1, <2>2
<1> QED BY <1>8, <1>9, <1>10, <1>11, <1>12 DEF IInv

\* A child ends, and the message it may hold with it.
LEMMA ChildEndsStep ==
  ASSUME IInv, NEW r \in Runs, ChildFails(r) \/ ChildExit(r)
  PROVE  IInv'
<1> USE Constants
<1>1. /\ UNCHANGED <<run, parent, name, mq, queue, buffer, echoes, rounds, received>>
      /\ child[r] \in {"recv", "send"}
      /\ \/ child' = [child EXCEPT ![r] = "failed"]
         \/ child[r] = "recv" /\ child' = [child EXCEPT ![r] = "exited"]
  BY DEF ChildFails, ChildExit, mqs, loopVars
<1>2. child \in [Runs -> ChildPC]
  BY DEF IInv, TypeOK
<1>3. /\ child'[r] \in {"failed", "exited"}
      /\ child[r] = "send" => child'[r] = "failed"
      /\ child' \in [Runs -> ChildPC]
      /\ \A u \in Runs : u # r => child'[u] = child[u]
  BY <1>1, <1>2 DEF ChildPC
<1>4. faults' \in 0..MaxFaults
  <2>1. faults \in 0..MaxFaults
    BY DEF IInv, TypeOK
  <2> QED BY <2>1 DEF ChildFails, ChildExit, Fault
<1>5. TypeOK'
  BY <1>1, <1>3, <1>4 DEF IInv, TypeOK
<1>6. QueueInv' /\ OwnInv' /\ LoopInv'
  BY <1>1, <1>3 DEF IInv, QueueInv, OwnInv, LoopInv
<1>7. Token'
  <2>1. CASE r # run
    BY <2>1, <1>1, <1>3 DEF IInv, Token, TypeOK
  <2>2. CASE r = run
    BY <2>2, <1>1, <1>3 DEF IInv, Token
  <2> QED BY <2>1, <2>2
<1> QED BY <1>5, <1>6, <1>7 DEF IInv

LEMMA StepInv == IInv /\ [Next]_vars => IInv'
<1> SUFFICES ASSUME IInv, [Next]_vars PROVE IInv'
  OBVIOUS
<1>1. CASE UNCHANGED vars
  <2>1. UNCHANGED <<run, parent, child, name, mq, queue, buffer, echoes, rounds, received,
                    faults>>
    BY <1>1 DEF vars
  <2> QED BY <2>1 DEF IInv, TypeOK, QueueInv, OwnInv, LoopInv, Token
<1> QED BY <1>1, ParentMoves, OpenStep, ForkStep, SendStep, ReceiveStep, KillStep,
        RerunStep, ChildRecvStep, ChildSendStep, ChildEndsStep
        DEF Next, ParentNext, ChildNext

LEMMA Always == Spec => []IInv
BY InitInv, StepInv, PTL DEF Spec

\* Types are kept, and a queue object holds one message at most while its parent
\* is in the loop: for any number of rounds and runs, and wherever one of them is
\* interrupted.
THEOREM Invariant == Spec => []Inv
<1>1. IInv => Inv
  BY TokenIsOne DEF IInv, Inv
<1> QED BY Always, <1>1, PTL

\* No run receives a message of an earlier run, nor one that an orphan of an
\* earlier run has sent.
THEOREM OnlyOwnMessages == Spec => []OwnRunOnly
BY Always, ReceivedIsOwn, PTL
==============================================================================
