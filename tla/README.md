# Verification of the microkernel benchmark suite

The repository holds small C programs that measure a kernel: context switches, IPC, wake-up latency,
fairness, priority inversion, an MQTT exchange, memory, files, network. Each program stands alone.
What they have in common is a shape: some threads or processes, a protocol between them, a measurement,
and a report at the end. A benchmark is right when the protocol does what the report says was measured,
whatever the interleaving, and when the program ends. That is what this directory models, checks and proves.

All sources below are relative to `src/src/`.

## 1. Inventory

| component | sources | state | operations | interaction |
|---|---|---|---|---|
| thread context switch | `scheduling/threads/thread_ctx_switch.c` | `turn`, loop counters, mutex, two condition variables | lock, signal, wait, hand over | two threads, shared memory |
| process context switch | `scheduling/process/process_ctx_switch.c` | two pipes, descriptors of two processes, loop counters | pipe, fork, close, read, write, wait | two processes, pipes, end of file, SIGPIPE |
| IPC, two queues | `ipc/ipc_mq_latency.c` | two named message queues, loop counters | unlink, open, send, receive, kill, wait | two processes; names outlive them |
| IPC, one queue | `ipc/ipc_latency.c` | one named queue, loop counters, load threads | the same, plus cancel and join | two processes that both send and receive on one queue |
| fork and pipe benchmarks | `scheduling/process/process_fairness.c`, `scheduling/process/sleep_wake_process.c`, `ipc/ipc_pipe_latency.c` | a pipe per worker, inherited descriptors, array of results | pipe, fork, close, count or sleep until the time is up, write, wait, read, report | parent, workers, load children |
| thread fairness, thread sleep/wake | `scheduling/threads/thread_fairness.c`, `sleep_wake_thread.c` | volatile flag, a result per thread | create, count, set the flag, join, report | threads, unprotected shared memory |
| wake-up latency | `scheduling/latency/max_latency_scheduling.c`, `measure_jitter.c`, `deterministic_latency.c` | deadline, maximum, (flag, load threads) | sleep until, measure, next deadline | clock; threads in the third program |
| priority inversion | `scheduling/priority/linux_priority_inversion.c`, `qnx_priority_inversion.c` | mutex, semaphores, thread states, priorities | create, post, wait, lock, spin | four threads and the scheduler |
| MQTT benchmarks | `mosquitto/*.c` | counter, arrays of time stamps, mutex, condition variable, broker, workers' pids | publish, callback, wait, stop; start and stop load | main, network thread, broker process, workers |
| memory | `memory/fragment.c`, `malloc.c`, `memleak.c`, `allocator_throughput.c` | the heap, an array of pointers that is not initialised | malloc, free, draw an index | sequential; the heap has an end |
| file system | `file_systems/file_meta.c`, `read.c` | a directory, a test file; both outlive a run | remove, create, rename, delete; write, read | sequential; each run finds what the last one left |
| network and security | `network_and_security/network_and_security.c` | sums and averages, lists of ports, counts of ciphers, the test file, `/etc/shadow` | popen of uname, find, ss, netstat, curl, dd; report | sequential; external commands; leftovers |
| VM launcher | `src/scripts/launch_benchmark_vms_taskset.sh` of the repository | none | start two VMs | shell |
| Mosquitto library and broker | `src/resources/mosquitto/` of the repository | vendored binaries | used by the MQTT benchmarks | seen through the three programs |

What is hard here, and what makes each component right:

* **Interleaving without locks.** `on_message` counts without the mutex its signal uses; flags are volatile
  ints; results are plain memory of another thread. Right: no lost wakeup, no thread late by more than the
  round it is in, no report of a value that may still change.
* **A token that must stay one token.** The ping-pong programs have independent loop counters and blocking
  calls without timeouts. Right: one message or byte in flight, counters in step, every sample a round trip.
* **Leftovers.** Queue names, messages and orphaned children survive a killed run. Right: the next run
  only sees its own messages.
* **Processes that fail half-way.** Descriptors spread over siblings, error exits that do not wait. Right:
  everybody sees an end of file, nobody hangs, dead workers count as zero and not as garbage.
* **Deadlines.** Timespec carries, late and interrupted sleeps. Right: no drift, valid arguments, exact maxima.
* **Results nobody looks at.** The memory, file and network programs ignore most failures and go on with
  arrays that are half written and directories that are not theirs. Right: no free of garbage unless malloc has
  failed, each file created and renamed once, averages that lie among their samples.
* **Order by semaphore or by sleeping.** The priority inversion programs. Right: what is reported is an
  inversion, and main's return does not cut a critical section short.

`PROJECT.json` lists the hazards line by line with the properties that cover them.

## 2. Modules

| module | models | abstract specification |
|---|---|---|
| `ThreadCtxSwitch` | `thread_ctx_switch.c` | `RoundTrip` |
| `IpcMqLatency` | `ipc_mq_latency.c` | `RoundTrip` |
| `ProcessCtxSwitch` | `process_ctx_switch.c` | `RoundTrip` |
| `IpcLatency` | `ipc_latency.c`, several runs of it | |
| `ForkPipes` | the three fork and pipe programs | |
| `StopFlag` | `thread_fairness.c`, `sleep_wake_thread.c` | `JoinedReport` |
| `PeriodicWakeup` with `Timespec` | the three wake-up latency programs | `PeriodicSampler` |
| `PubSub` | the three MQTT programs | |
| `MemoryBench` | the four memory programs | |
| `FileBench` | `file_meta.c` and `read.c`, run again and again on one disk | |
| `NetworkChecks` | `network_and_security.c`, run again and again on one machine | |
| `LinuxPriorityInversion`, `QnxPriorityInversion` | the two priority inversion programs; `PriorityInversion` is their clock | |
| `StandaloneRuns` | composes the four rows above; `Standalone` is what they and `ForkPipes` share | |
| `ThreadCtxSwitchProofs`, `IpcMqLatencyProofs`, `IpcLatencyProofs`, `ProcessCtxSwitchProofs`, `PeriodicWakeupProofs`, `StopFlagProofs`, `PubSubProofs` | theorems about the module they are named for, the fifth about `Timespec` as well | |
| `StandaloneRunsProofs` | theorems about each program of `StandaloneRuns`, about their composition, and about `ForkPipes` | |

Conventions:

* A variable has the source's name where there is one. `main`, `parent`, `child`, `thread`, ... are
  program counters; a step is one system call or one access to shared memory, together with the local
  computation up to the next one. What a thread does between two such points is invisible to the others.
* Where several programs share a protocol, one module models them: the variable `program` is chosen in
  `Init`, and the guards in which the programs differ test it. It never changes, except that `FileBench` chooses
  again for each run.
* The sequential programs and those of priority inversion are checked together, in `StandaloneRuns`: each of them has an
  initial predicate and a next-state relation of its own (`MemInit`, `MemNext`, ...), the composition starts
  one of them and leaves the variables of the others alone.
* Each call that the code tests for failure may fail, `MaxFaults` times in a behaviour; so may a process
  be killed where that matters. Failures are not under fairness: none has to happen.
* A definition marked `Variant` is a plausible bug. Nothing uses it; it is there to show that a property
  can fail: putting the variant in place of the operator below it violates the property that
  `PROJECT.json`, "mutants", names.

### How state and actions correspond to the code

`PROJECT.json`, "map", gives the lines of every definition. In short:

* `ThreadCtxSwitch`: `MainLock`, `MainInitiate`, `MainSignal`, `MainTest`, `MainRelock`, `MainUnlock` are
  the calls of main's loop and `PongLock` ... `PongUnlock` those of `pong_thread`. `pthread_cond_wait` is
  two steps, release-and-block and reacquire; a signal to a thread that is not blocked is lost.
* `IpcMqLatency`: `Unlink`, `OpenPtoc`, `OpenCtop`, `Fork`, then `ParentSend`/`ParentRecv` against
  `ChildRecv`/`ChildSend`; `SetupFails`, `BreakLoop`, `ChildFails` are the error paths; `KillChild` and
  `WaitChild` the cleanup. A message is the round it was sent in, or `Stale`.
* `IpcLatency`: the same exchange over one queue, with queue objects numbered by the run that created
  them, since an orphan keeps the object it opened when the name is unlinked and created anew.
* `ProcessCtxSwitch`, `ForkPipes`: pipes with the set of descriptors still open on them. End of file,
  SIGPIPE and "read blocks while a writer exists" follow from that set.
* `ForkPipes`: fork copies the parent's descriptors (`Inherit`). A worker measures round by round: `CountBatch`
  is a million iterations between two looks at the clock, `Sleep` and `SleepFails` one pass of the loop of
  `sleep_wake_process.c` with `AddJitter`. Each worker has a clock of its own (`elapsed`); clocks are compared with
  nothing but the end of the test. A result of one or three fields travels as decimal text (`Text`, `Parse`), cut at
  the size of the buffer (`Received`). `Scan` is one character of `strtoull` or `sscanf`, `Update` one pass of the loop
  over `counts` that computes the report (`Statistics`).
* `StopFlag`: `total_jitter_ns` and `iterations` are written in two steps. `atStop` is a history variable:
  the counters at the moment the flag is set.
* `PeriodicWakeup`: the meter is main or, in `deterministic_latency.c`, the real-time thread. `Wake` lets the
  clock run past the deadline by up to `MaxLate`; `SleepFails` lets it stop before. `start` is a history
  variable. In `max_latency_scheduling.c` the last round computes one more deadline, which nobody reads.
* `PubSub`: the network thread runs `OnMessage`, `NetLock`, `NetSignal`, `NetUnlock`. `recv_count` is read by
  main under the mutex and written without it, a data race: `SeenCount` is the set of values main may
  read. A time stamp is the message it was taken for.
* `MemoryBench`: the heap hands out blocks `1..capacity`; `ptrs` starts with NULL and garbage in every mixture.
  `MallocFails` is a `break` in two programs and an error exit in the others, `Freed` is `rand()` in `fragment.c`,
  and `FreeInvalid` is the undefined free of something that is not live, at which the program is taken to stop.
* `FileBench`: one action per call of the C library, each of which works or fails; `ignored` counts the failures the
  code does not look at. `FileKill` and `FileRerun` end a run anywhere and start the next on what is left.
* `NetworkChecks`: one action per check or per transfer, from the first command to the line it prints. A line of
  `ss` or `netstat` is its tokens, and of a token only whether the port separator is in it and the
  number behind that; the loop over the lines is a step per line (`OpenListing`, `PortLine`, `EndListing`). `Checked` notes what was printed and what was true.
* `LinuxPriorityInversion`: `IsRunning` and `MainRuns` are the scheduler: of main and the threads that can run, those
  with fewer than `cpus` others `Ahead` of them have a CPU. `Pin` binds the threads to one, and `PinFails` is the failure
  of the binding, which the code ignores: they go on with the CPUs the program was started on. Time passes
  (`LinuxTick`) while all that run spin, or while main sleeps and nobody can run. `JoinGarbage` is the join of a thread that was never created, whose
  handle is uninitialised: it crashes, returns or waits for ever.
* `QnxPriorityInversion`: no order but that of the semaphores and the mutex, because the attributes lack
  `PTHREAD_EXPLICIT_SCHED` and so the priorities in them are not used.

## 3. What is checked

Nine runs pass; three show that a statement in the code does not hold.

| run | what it shows | properties |
|---|---|---|
| `thread_ctx_switch` | ping and pong stay in step under every interleaving and spurious wakeup; every timed round is a round trip; the join returns | `Inv`, `NoLostWakeup`, `ImplementsRoundTrip`, `Terminates` |
| `ipc_mq_latency` | one message in flight, whatever an earlier run left; answers belong to their round; the program ends unless its child fails | `Inv`, `ImplementsRoundTrip`, `EndsUnlessChildFails` |
| `ipc_latency` | with one queue for both directions there is still one token per run, nothing of an earlier run or its orphan is received, and every run reports | `Inv`, `OwnRunOnly`, `EveryRunReports` |
| `process_ctx_switch` | one byte in flight; after any failure or kill both processes end, and a run without one reports all its rounds | `Inv`, `ImplementsRoundTrip`, `EverybodyEnds` |
| `fork_pipes` | reads never block, results survive the way through text and pipe into both reports, an average always has a count, no child is left behind | `ForkInv`, `ReportFaithful`, `EverybodyEnds` |
| `stop_flag` | final results only, averages of a total and a count that belong together, a thread late by one round at most | `Inv`, `LateByOneAtMost`, `ReportIsFinal`, `Terminates` |
| `periodic_wakeup` | valid deadlines without drift, exact maxima, no lateness inherited from the measurement before, load throughout, and an end | `Inv`, `NoDrift`, `BacklogBounded`, `MeasuresLatency`, `Terminates` |
| `pubsub` | no lost wakeup despite the unlocked counter; the next run finds a free mutex; each latency is of one message of this run | `Inv`, `NoLostWakeup`, `SamplesPaired`, `Completes` |
| `standalone_runs` | memory: no free of garbage or of a freed block before a malloc fails, and nothing is live at the end that should not be | `OnlyLiveFreed`, `HeapAccounts` |
| | files: a run works on its own files whatever the last one left, and leaves nothing but what an ignored failure explains | `FromScratch`, `NothingLeft` |
| | network and security: each port once, averages not above the longest sample (nor, if none is skipped, below the shortest), no test file left by a run in which nothing fails, `/etc/shadow` intact where it is protected | `PortsExact`, `DownloadAverageInRange`, `TestFileCleaned`, `Inv` |
| | priority inversion: on Linux a wait for the mutex on one CPU is a wait for the medium thread, on several (the binding has failed) it is no longer than the hold; hold and computation do not add up; on QNX the reported wait includes the rest of the hold, and the process exits with the mutex free | `InversionShown`, `WaitIncludesHold`, `Inv` |
| | and every one of these programs ends, unless it joins a thread that was never created | `EveryProgramEnds` |
| `ipc_latency_samples` | violated: see findings | `SamplesAreRoundTrips` |
| `pubsub_stop_load` | violated: see findings | `StopLoadSignalsOnlyWorkers` |
| `upload_average` | violated: see findings | `UploadAverageInRange` |

`Inv` is the type invariant together with the component's basic safety invariants, for instance `OneMessage`,
`EchoesInStep` and `AnswersMatch` in `IpcMqLatency`, `AverageInRange` in `StopFlag`, `ReadNeverBlocks` and
`NoneLeftBehind` in `ForkPipes`, `LoadWhileMeasuring` in `PeriodicWakeup`. In `StandaloneRuns` it is the invariant of
the program that runs. `EveryProgramEnds` includes `HighReports` and `MainEnds` of the priority inversion programs.

### Bounds, and why they are enough

* Ping-pong programs: 3 or 4 rounds. A round starts from the state the round before left, up to the
  counters, so what can go wrong in round *n* can in round 2 or 3; the last round is special and is there.
  Queues hold 2 messages: more than the one token needs, so the token is not an effect of the capacity.
* `IpcLatency`: 2 runs, so that an orphan of the first meets the second.
* `ForkPipes`: 3 workers, so that one of them has an older and a younger sibling, and 0 or 1 load child; 2 faults, so
  that a failing call can meet a killed child. A batch is 7 iterations, so that counts have one or two digits. With
  rounds of 1 or 2 ticks and a test of 2 ticks a worker does one or two rounds; on-time, late and failing sleeps mix.
* `StopFlag`: 2 workers and 1 load thread, 2 rounds, one fault. `LateByOneAtMost` is also proved without
  bounds. `MaxCount` stops a worker from entering the loop again before the flag is set and nothing else.
* `PeriodicWakeup`: a second has 5 nanoseconds and a period 2, so that deadlines meet the carry at every
  position; sleeps are late by 0 to 3, less and more than a period, so that backlogs build up; 3 rounds,
  2 measurements, 2 load threads. The proofs hold for every value.
* `PubSub`: 3 messages, up to 3 runs, 2 workers, 2 faults, 1 spurious wakeup.
* `MemoryBench`: 4 allocations, so that two indices are drawn and may be the same, and 0 to 5 blocks: no heap at all, an
  end of the heap at each round, and more than enough. The proofs hold for every number.
* `FileBench`: 3 files, 2 faults, 2 runs: a run that fails or is killed, and one that finds the result.
* `NetworkChecks`: 2 transfers of each kind with short and long times, 2 sockets on 2 ports (so one port may occur
  twice), 1 cipher line, 2 runs.
* Priority inversion: durations of a few ticks with `Hold` shorter than `Med` and a late `usleep`, so that
  main's posts fall before, into and after the hold. `NumCpus` is 3, so that without the binding main, the low-priority
  and the medium thread may run at once, or any two of them.
* One `MaxFaults` of 2 bounds the failing calls of all programs in `StandaloneRuns`.

### Fairness, and why the code justifies it

Weak fairness of each thread's or process's steps, of the broker and of time; none of failures.

* Threads of the default policy are never starved by the kernel.
* In `StandaloneRuns` a sequential program goes on, and the commands it waits for end; kills and new runs are not
  under fairness. Each thread of the priority inversion programs has a condition of its own.
* In `LinuxPriorityInversion` real-time threads spin for less than the 95 % of a second Linux grants
  them; a thread only steps when the modelled scheduler runs it.
* In `PeriodicWakeup` the real-time thread sleeps most of the time, which leaves the CPU to the load threads.
* In `PubSub` neither the broker nor the network thread is starved by the busy-loop workers.
  `mosquitto_loop_stop` cancels the network thread; cancellation is deferred, so it ends at a cancellation
  point of the library's loop and not inside `on_message`.
* In `IpcMqLatency` and `IpcLatency` a parent waits in `mq_receive` without a timeout; the liveness
  properties name the one state in which it waits for ever, a failed child.
* In `PubSub` and `ForkPipes` the actions do not mention the arguments of the program, which never change; `Next`
  and the fairness conditions add that.

`CHECK_DEADLOCK FALSE` stands in every configuration because every program ends.

### Findings

1. `ipc/ipc_latency.c:147`, run `ipc_latency_samples`. Parent and child send to and receive from one queue.
   The parent's `mq_receive` can return the parent's own "ping" before the child has seen it, and the sample is
   then the time of a local send and receive. The comment at line 135 says "Measure round-trip latency".
   The run `ipc_latency` shows what is nevertheless true: the theft leaves the token count intact, and
   every run reports. Having reported, the program waits in `pthread_join` for load threads that never end
   (`ipc_latency.c:165`), until it is interrupted.
2. `mosquitto/cpu_load_pubsub_test.c:178`, run `pubsub_stop_load`. `start_load` stores the result of `fork`
   unchecked. After a failed fork `stop_load` calls `kill(-1, SIGTERM)`: every process the user may signal
   gets it (on Linux the caller itself does not), while line 201 announces "Stopping CPU workers...".

3. `network_and_security/network_and_security.c:417`, run `upload_average`. Ten upload times are added up (line 385) and
   the sum is divided by 20.0, so the "Avg Time" of line 421 is half the real one and the bit rate
   twice. The download test divides the same kind of sum by 10.0 (line 359).

Differences between text and code that need no run to see:

* The repository's README says `ipc_latency` is "direct pipe-based"; it uses a message queue.
  It says `ipc_pipe_latency` does "pipe-based round-trips"; it measures how evenly processes get the CPU.
  It says `priority_inversion` "evaluates priority inheritance handling"; the Linux program's
  mutex has no inheritance protocol (`linux_priority_inversion.c:98`).
* `linux_priority_inversion.c:134` "Lower main's priority": the call passes `SCHED_OTHER` with the
  priority of the highest thread, for which Linux returns EINVAL; the result is ignored and main stays
  high (action `Lower`).
* `thread_fairness.c:91` prints "2 seconds run"; line 82 sleeps for 5.

## 4. What is proved

The proof modules hold theorems for every value of the constants, under the assumptions named in the modules: sizes
and numbers of runs are positive, there is a CPU, bounds are numbers, a period is at most a second, a measurement lasts a positive
time, port numbers are those that index `seen_ports`, and what a worker of `ForkPipes` can measure has at most 20 digits,
as every number of 64 bits has (`DigitsAssumption`).

| module | theorem | statement |
|---|---|---|
| `ThreadCtxSwitchProofs` | `Invariant` | `Spec => []Inv` |
| | `WakeupsNotLost` | `Spec => []NoLostWakeup` |
| | `Refinement` | `Spec => ImplementsRoundTrip` |
| `IpcMqLatencyProofs` | `Invariant`, `AnswersAreEchoes` | `[]Inv`, `[]AnswersMatch` |
| | `Refinement` | `ImplementsRoundTrip` |
| `IpcLatencyProofs` | `Invariant`, `OnlyOwnMessages` | `[]Inv`, `[]OwnRunOnly` |
| `ProcessCtxSwitchProofs` | `Invariant` | `[]Inv` |
| | `Refinement` | `ImplementsRoundTrip` |
| `PeriodicWakeupProofs` | `AddExact`, `AddPeriodExact` | both additions of `Timespec` are exact and normalise |
| | `TypesAndLoad`, `DeadlinesDoNotDrift`, `BacklogIsBounded` | `[]Inv`, `[]NoDrift`, `[]BacklogBounded` |
| | `Implements` | `MeasuresLatency` |
| `StopFlagProofs` | `InvCorrect` | `[]Inv`, of `TypeCorrect` (`[]TypeOK`) and `AverageCorrect` (`[]AverageInRange`) |
| | `LateByOne` | `[]LateByOneAtMost` |
| | `Implements` | `ReportIsFinal` |
| `PubSubProofs` | `InvCorrect`, `WakeupsNotLost`, `PairsCorrect` | `[]Inv`, `[]NoLostWakeup`, `[]SamplesPaired` |
| `StandaloneRunsProofs` | `MemTypeCorrect`, `NothingElseFreed`, `HeapIsAccountedFor` | `[]MemTypeOK`, `[]OnlyLiveFreed`, `[]HeapAccounts`, of `MemSpec` |
| | `RunsFromScratch`, `NothingElseLeft` | `[]FromScratch`, `[]NothingLeft`, of `FileSpec` |
| | `ChecksCorrect`, `AveragesInRange`, `NoTestFile`, `PortsCorrect` | `[]NetInv`, `[]DownloadAverageInRange`, `[]TestFileCleaned`, `[]PortsExact`, of `NetSpec` |
| | `InversionCorrect`, `LinuxCorrect` | `[]InversionShown`, `[]LinuxInv`, of `LinuxSpec` |
| | `WaitCorrect`, `ExitCorrect` | `[]WaitIncludesHold`, `[]QnxInv`, of `QnxSpec` |
| | `EachRunCorrect`, `HeapSafe`, `FilesSafe`, `ChecksSafe`, `InversionsSafe` | `Spec => []Inv` and all of the above, of the composition |
| | `ForkCorrect`, `ForkReport`, `ForkResults` | `[]ForkInv`, `[]ReportFaithful`, `[]EachInItsPlace`, of `ForkSpec` |

The inductive invariants (`IInv` in each module) and why the properties need them:

* `ThreadCtxSwitchProofs`: who holds the mutex follows from the program counters (`Holder`), `turn` follows
  from them as well (`TurnAt`), and a thread in its loop body has rounds left (`InLoop`). `NoLostWakeup` alone
  is not inductive: without `Holder` a thread could test `turn` while the other one changes it.
* `IpcMqLatencyProofs`: `Token` says where the message is at each pair of program points, and `Prepared` that
  the queues are empty when the child is forked. Without the second, a leftover would be a second token.
* `ProcessCtxSwitchProofs`: the same for bytes. `Token` names the four places the byte may be in, and says that it is
  nowhere while the parent is not in `read`: whoever dies takes the byte along or leaves it, and nobody makes a second.
* `IpcLatencyProofs`: a queue with several senders has one token because each run works on the queue object it created
  (`QueueInv`: the name was unlinked before, and the orphan of an earlier run keeps the old object). Then `Token` says
  where the message of the current run is, and `OwnInv` whose messages a queue and a child's buffer hold. `OneToken`
  alone says nothing of the queue of the next run.
* `PeriodicWakeupProofs`: `NoDrift` with the types gives the argument of the next addition; `Control` couples
  main and meter and bounds the counters; `LoadInv` says that load threads exist from `StartMeter`
  on and that only the meter's last step clears the flag. `BacklogBounded` needs one more, `Late`: as long as
  no sleep has failed, the clock is never further past the deadline than the backlog of the rounds so far, and
  the sum of the maxima never above that of as many full measurements. The products in it
  are kept as atoms by lemmas, since the SMT solver is not good at non-linear arithmetic.
* `StopFlagProofs`: `StopInv` and `IndexInv` say what main's program counter and loop index tell about flag
  and threads; `CountInv` that a worker in its loop has not counted the round it is in; `TotalInv` that a total
  has at most one delay more than there are counted rounds, and only between the two assignments.
  At the report all workers are joined, so the difference is gone. That is `AverageInRange`.
* `PubSubProofs`: `Control` says who holds the mutex and when there is a network thread; with it main cannot
  test the count while the callback signals, which is `NoLostWakeup`. `SamplesPaired` needs the messages on
  the network: `InOrder` says that those counted, those on their way to the client and those on their way
  to the broker are, in this order, the messages of this run, and `OnTheWay` that this holds in the loop and that the
  network is empty outside it, as long as nothing goes wrong. When main has counted its messages
  the sum leaves none behind for the next run.

In `StandaloneRunsProofs` each program has an invariant of its own:

* Memory (`MemIInv`): for each place of the program, what the array points to. `Distinct`: the entries of a range
  are different live blocks; `Held`: there are no others. In `fragment.c` the number of live blocks is
  that of the allocations less the entries drawn (`DrawInv`, `AgainInv`); as many blocks are free, so a
  second allocation fails at most as often as a draw hit an entry that was drawn before.
* Files (`FileIInv`): `SweptInv` says for each loop of `file_meta.c` which names it has yet to meet; the files with other
  names are no more than the failures in `ignored`. Renaming and deleting move a name from one side to the other or add
  one to the count. `ReadInv` says that the file `read.c` reads holds what this run has written.
* Network and security (`NetIInv`): an average is in range because the sum so far is (`TotalInv`): between as many times
  the smallest sample as there are samples, and as many times the largest (`LengthInv` bounds their number). `PortsInv`
  follows a listing line by line: the ports in the report are those of the lines behind it, each once. A port is in range
  of `seen_ports` because it is a number between the separator of its token and the end.
* Linux priority inversion (`LinuxIInv`): `StartInv` says which thread has been posted, `LinuxMutexInv` who is in the
  critical section, and `WaitInv` that while the high-priority thread waits, whoever holds the mutex or computes began
  before, so that the wait is at most the longer of the two and not their sum (`LinuxInv`). On one CPU, if time has passed
  and the mutex is free again, the medium thread is done, by the scheduler's rule; on several, the low-priority thread has
  one, so that the wait is at most the hold. That needs `LowFirst`: the low-priority thread has asked for the mutex before
  main wakes to post another. `InversionShown` says this of the moment the mutex is taken, of which the step before knows
  nothing without `WaitInv`. Who runs follows from the number of those ahead, a cardinality (`AheadCount`, `WhoRuns`).
* QNX priority inversion (`QnxIInv`): `QnxLowInv` and `QnxHighInv` tie each semaphore to the thread that posts it and to
  main that waits for it; `QnxMutexInv` ties the mutex to the critical sections; `QnxReportInv` says that the high-priority
  thread gets the mutex only when the low-priority one is done. `WaitIncludesHold` alone is not inductive: without
  `QnxLowInv` the high-priority thread could be there before the mutex is taken.
* The composition (`AllInv`): `RunsInv` is the invariant of the program that runs, `OthersIdle` that what the
  properties say of the others is as it was at the start. A step of the composition is a step of that program and leaves
  the rest alone.
* Fork and pipe (`ForkIInv`): `ForkedInv` says which children exist, `EndsInv` that a process that does not run holds no
  end of a pipe and that the parent has given up its write ends when it waits. With as many waits as children
  (`AllEnded`, by cardinality) that is `ReadNeverBlocks`. `DataInv` says that a pipe holds the text of its worker's
  result from the write to the read, and `ResultsInPlace` that what was read is that text parsed.
  `ReportFaithful` needs two more. `AmountInv` bounds what a worker measures by the time it has seen pass (a pass of the
  sleeping loop that takes no time is a failed sleep, of which there are at most `MaxFaults`), so that its numbers have at most 20
  digits and the text fits the buffer (`FieldsFit`). `ReportInv` says that what was read is what was measured, and that
  the report is made of it. Between the two are `ParseDigits` (the digits of a number parse to the number, by induction on
  it), `Arrives` (the text of one or three fields parses to those fields) and `StatisticsValue` (the loop over `counts`
  computes minimum, maximum and sum, by an invariant of its prefixes).

Induction over data: the library's induction theorems take an operator, which the provers cannot instantiate. The
proofs use sets of numbers instead: a set of numbers that is not empty has a least element (`LeastNat`), so one that
has 0 and with each number the next has them all (`AllNat`). From it `RecursionExists` and `FoldExists` show that
a function defined by recursion on a number, and a fold, exist and satisfy their equations; without that a recursive
definition is a `CHOOSE` of which nothing is known.

Refinement is proved in two steps: initial states map to initial states, and under `IInv` each action is a step
of the abstract specification or leaves its variables alone.

Only model-checked: all liveness (`Terminates`, `Completes`, `EverybodyEnds`, `EveryProgramEnds`,
`EveryRunReports`, `EndsUnlessChildFails`), since fairness and `ENABLED` are out of the prover's reach.

## 5. What is not modelled

* The text of reports, command-line wording, and the parsing of policies beyond "accepted or not".
* Scheduling classes and CPU affinity, except in `LinuxPriorityInversion`, where they decide the result, and where the
  binding to a CPU and the promotion of main may fail as well. Elsewhere
  every interleaving is allowed, which includes those the classes would produce.
* The values of clocks where a program only subtracts and prints them.
* The QoS handshake of MQTT: it changes the messages between client and broker, not the order of arrival.
* The shell script `launch_benchmark_vms_taskset.sh`, which keeps no state, and the vendored Mosquitto binaries;
  `PubSub` models of them what the programs use.
* In `network_and_security.c`, the checks that only print what a command or a file says (versions, privileges, the
  line of root in `/etc/shadow`): they keep nothing and compute nothing. The speeds, which are summed like the times.
  The bit rate of an upload takes the test file for 10 MB; a part of one that an earlier run left is uploaded as it is.
* The branch of `sleep_wake_process.c:211` for a text without three fields: a child writes all three or nothing, and the
  text fits the buffer.
* Sizes of stacks and of blocks: the array of pointers in `fragment.c`, 8 MB, is as
  large as the usual limit of the whole stack; blocks have one size.
* QNX's `TimerTimeout` (`deterministic_latency.c:49`) is taken to sleep until the deadline or to fail. Strictly it only
  arms a timeout for the next blocking call, which the code does not make; no QNX source is at hand to settle it.

## 6. Plan

Done, in order of importance: the ping-pong programs and `RoundTrip`; the shared queue; processes and
pipes; the MQTT programs; the flag and `JoinedReport`; wake-up latency and `PeriodicSampler`; priority inversion; memory,
files, network and security; the fork and pipe programs. Every safety property and every refinement of a
passing run is proved.

Next: for `IpcLatency`, an abstract specification of one token between two processes that may take back their own
message, of which `RoundTrip` is the case in which neither does.
