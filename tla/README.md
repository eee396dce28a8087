# A TLA+ model of the Pthread Benchmark

The repository is a benchmark of about ninety stand-alone C programs that use
POSIX threads, collected to try race detectors and lock repair tools on
(`src/README.md`).  `src/Fixed/` holds programs whose locks are in place,
`src/Faulty/` holds programs in which lock or unlock calls are missing: one
(`OneBug`) or several (`ManyBugs`).  Many faulty programs have a fixed twin.
There is no common library: the *system* is the collection of synchronisation
protocols the programs consist of, and this project specifies, model-checks and
in part proves those protocols.

* Each program modelled has its **own state machine**: the program's shared variables
  as `VARIABLES`, and one action per critical section or per shared access.  The larger
  programs have a module each.  Small programs of a kind share one (`SharedData`,
  `TakingTurns`, `Receivers`, ...): each has its own section there, with its own variables,
  `...Init`, `...Next` and `...Spec`.
* `Pthreads` holds the POSIX calls all of them use (mutex, condition, semaphore,
  barrier) as operators; it is the only code the programs share, and it is
  external.
* **Abstract specifications** (`FifoChannel`, `Stack`, `SyncPlate`, `Rendezvous`)
  state what the more intricate protocols promise; the programs are shown to
  implement them.
* **Suites** (`MCQueues`, `MCServers`, `MCBarriers`, `MCLists`, `MCHandshakes`, `MCTotals`,
  `MCRaces`) put programs of a kind into one TLC run.
* **Proof modules** (`BoundedBufferProofs`, `QueuesProofs`, `ServersProofs`, `BarriersProofs`,
  `RacesProofs`, `ListsProofs`, `ChameneosProofs`, `TotalsProofs`) show for every size
  the safety of nearly all protocols, and six refinements.

`PROJECT.json` lists the components, the runs, the source lines of every
definition, the hazards and the theorems.

## 1. Inventory

Every program is a process with a handful of threads created by `main()`; the
threads interact through shared variables, mutexes, conditions, semaphores and
barriers and through nothing else.  Where a program talks to the outside
(sockets, a lock manager, a device, a memory bus), the outside is part of its model and
marked external.

| Program | Shared state | Operations | What is hard | Correct means |
|---|---|---|---|---|
| `05bounded.c` | ring, two indices, a counter, a mutex, two conditions | `producer`, `consumer` | counter, index and slot change in separate steps; sleepers | text delivered in order, once, completely |
| `pth_pool.c` | task queue, counter, two conditions | `submitTask`, `getTask`, worker loop | signals after the unlock: a third thread comes in between | FIFO hand-out, nobody stranded |
| `queue_cyclic.c` | cyclic queue, vector, counters | `actor_send_to`, the actor, `actor_finalize` | result of a full enqueue ignored; vector read backwards | all that was accepted is counted |
| `pc_ocm.c` | two memories with two flags each | `producer`, `consumer` | producer overwrites what nobody processed | whole frames, in order, at most once |
| `skynet_main.c` | sleep count, quit flag, a condition | workers, timer, socket, shutdown handler | selective wake-ups, a handler that locks, freeing the monitor | messages dispatched, shutdown completes |
| `multhread_server.c` | client table, one message | connect thread, broadcast thread | edge-triggered events, messages written over each other, events without bytes | table exact, what is read is broadcast or replaced |
| `copy_deamon.c` | offset, done flag | copy worker, one thread per connection | mutex kept across a conversation, flag read without it, short writes, CLOSE at any time | offsets hold still, DONE means copied |
| `cfgSock.c` | socket, four result buffers | `request` and its callers | failure closes the socket under other callers or leaves an answer behind; buffers read after the unlock | everybody gets its own answer |
| `longhorn-rpc-client.c` | request table, request conditions | callers, response thread | lock calls are missing | calls return, with their data |
| `06_thread_cond_var.c`, `thread_with_conditions.c`, `11-14UseConditionVariable.c`, `6.c` | count, a condition | `inc_count`, `watch_count` | only one increment is announced in some | exact totals, no watcher left asleep |
| `philosophers.c` | a mutex per fork, hunger | `meal` | circular wait | neighbours apart, all fed |
| `hot_plate_barriers.c` | two plates, two barriers | `update_plate`, `main` | reuse of barriers; destroying them and freeing the plates under live workers | the iteration is synchronous |
| `test-membarrier-shared.c` | two variables in shared memory, a handshake | two processes | store buffers; abort with a mutex held | no false alarm, both end |
| `concurio.c` | trial number, number alive, start time | `worker_run`, `timeval_subtract` | counter read without the lock; shared argument changed | leader first in, last out; right times |
| `hashInvertM.c` | word index, sums, the result set | three kinds of workers | result words changed without a lock | each word once; only races lose |
| `02.c` | linked list, a condition | `produce`, `consume` | node freed and reused after the unlock | a stack, one owner per node |
| `zad_dom1.c` | linked list, a semaphore | `push_f`, `pop_f` | post after the unlock | a stack, never empty when allowed in |
| `assignment2question2.c` | sorted job list, summary | `sortedInsert`, job threads, summary | global search position; late threads | one right entry per user |
| `chameneosredux.c` | meeting places A, B, three semaphores | `meeting`, `run_the_meetings` | mutex taken by one creature, given back by another | mutual meetings, everybody goes home |
| `perf_index.c` | count of ready threads, two conditions | `thread_setup`, `main` | broadcast without the lock | simultaneous start, right time |
| `semaphore_mutex_release.c` | status, barrier, device | keepers, `main` | status read at two places | times are those of a release |
| `10practice.c` | flag | three handlers | polling; flag passed before the letter is printed | letters in turn |
| `ping_pong.c` | a condition, ready flag | ping, pong | wait without a predicate | alternation |
| `asttest.c` | called flag, a condition | `main`, the lock manager's callback | second wait without the mutex; a failed `poll` is ignored | the answer is seen |
| `ir_event.c` | run flag, mutex, connection | key loop, monitor, SIGINT | `continue` with the mutex held; mutex destroyed early; connection freed under the monitor | one command at a time, program ends |
| `cpap2psg.c` | a mutex and a condition per channel | tick thread, channel threads | initialisation races the wait; no predicate | one number per tick |
| `010_mutex_array_sum.c`, `pthread-findminimumvalue.c`, `pythagoras.c`, `withmutex.c`, `5.c`, `tp5_2.c`, `shared_data_mutex.c`, `pth_mutex2.c`, `W9mutex1.c` | a sum, an extreme or a counter | the thread functions | load and store apart; some updates without the lock | exact where there is a lock, no more than lost updates where there is none |
| `MergeSort.c_`, `BinarySearch.c`, `con.c`, `FibonacciSequence.c` | an array; a cache of results | recursive threads that create two more | a part used before its thread is joined | sorted, found, the right number |
| `PThread-synchronization.c` (both), `02test.c`, `threadsAndMutexes.c` | tickets, a number, who may talk | sellers, counters, talkers | whole turns under one lock | nothing sold twice, turns unbroken |
| `employee_with_mutex.c`, `023_sync_mutex.c` | a record of several fields | writers, a reader | the record is copied field by field | no record seen half written |
| `parallel_mutex.c` | a hash table, a lock per bucket | `put_phase`, `get_phase` | inserts of several threads | no key lost |
| `dns-discovery.c` | one open word list, the output | look-up threads | the file position is shared while each reads its copy | each thread has all words, output in blocks |
| `mode_extra.c` | lit buttons, the score | game loop, worker thread | expiry races the hit; freed at the end | each button hit or expired, freed unused |
| `udp_server.c` (both) | position, total, `bytes_read` | `receive_data` | the result of `recvfrom` is one global | claims disjoint; right alone |
| `camera_thread.c` | frame, length, a condition | capture thread, clients | length is set without the mutex; frame freed by snapshots | frame steady while sent |
| `02_condition_modify.c` | list, a count | producer, consumer | count changed after the unlock; `if` for `while` | count follows the list |
| `ManyBugs/mutex_linked_list.c` | sorted list | `Member`, `Insert`, `Delete` | the lock is commented out | what is left of the order |
| `06test_pro_con.c` (both) | one number, a condition | `pro_handler`, `con_handler` | unequal numbers of waits and signals | nothing left but what was there at first |
| `ManyBugs/os21.c` | items, a condition | producer, consumers | first look and wait without the mutex | index bounded; one who waited keeps the mutex |
| `ManyBugs/queue_cyclic.c` | as above, no lock | as above | two senders fill one slot | nothing made up; one sender needs no lock |
| `ManyBugs/test-membarrier-shared.c` | as above, no lock | as above | a reset wipes a store of the next round | the first round is safe |
| `124mutex.c` | line typed, exit flag, a condition | `main`, the counting thread | the worker leaves without clearing the line | each line counted once |
| `06mutex.c` | array, next index, a mutex | input loop, `func` | only time keeps the thread behind the input | sorted if it was behind |
| `ManyBugs/con_ser.c` | descriptor, a mutex | `receive_thread` | reconnecting with the mutex held | one packet at most |
| `libudp_splice.c` (both) | a netlink handle, a mutex | `udp_splice_open`, `udp_splice_add` | failures between request and answer | answers are one's own |
| `helper.c` (both) | a mutex | `thr_sleep` | carry into seconds, uninitialised return code | sleeps long enough |
| `pth_condition_variable.c` | a counter, a condition | two threads | counter read outside the mutex | one waits, the other signals |

The programs that are not modelled, and why, are in section 9; PROJECT.json
lists every one under `components`.

## 2. Plan

The order in which the project is built puts first the protocols on which most programs of
the benchmark are variations.

1. `Pthreads`, `BoundedBuffer` against `FifoChannel`, with its proofs. *done*
2. Queues (`ThreadPool`, `ActorQueue`, `Overrun`), the counting programs
   (`CountThreshold`), deadlock by ordering (`Philosophers`, with its proofs). *done*
3. Barriers and memory (`HotPlate` against `SyncPlate`, `Membarrier`), lists
   (`SemList`, `CondStack` against `Stack`, `RacyLists`), measurements (`Concurio`,
   `Timing`, `BloomSet`). *done*
4. Handshakes (`Chameneos` against `Rendezvous`, `Measuring`, `TakingTurns`, ...) and servers
   (`SkynetMonitor`, `ChatServer`, ...). *done*
5. Data under a lock (`Totals`, `SharedData`), input (the end of `Answers`), programs without a
   lock somewhere (`RacyLists`, `UnlockedQueues`, `Receivers`, the second part of
   `Membarrier`), what overwrites or hangs (`Overrun`, `con_ser.c` in `Clients`), helpers
   (`Timing`, `Answers`). *done*
6. Proofs of the larger protocols: `ThreadPool` implements `FifoChannel` and strands nobody;
   `ActorQueue`'s messages are conserved; `SkynetMonitor`'s count is exact and nobody sleeps
   after quit; `CopyDaemon`'s DONE means copied; `HotPlate` implements `SyncPlate`;
   `CondStack` and `SemList` implement `Stack`; `CountThreshold`'s watcher does not sleep at the
   limit; `Chameneos` implements `Rendezvous`. *done*
7. Proofs of the others: what `Overrun` hands over, the rendezvous and the store buffers of
   `Membarrier`, the trials of `Concurio`, the times of `Timing` and `Measuring`, the phases of
   `BloomSet`, the table of `ChatServer`, the answers of `Clients` and `Answers`, the turns of
   `TakingTurns`, the data of `SharedData`, the lists of `RacyLists`, and what is left of
   `Receivers`, `UnlockedQueues` and the unlocked `Membarrier` without locks. *done*

## 3. How a program becomes a module

* **Variables** keep the names of the C code (`occupied`, `nextin`, `msg_table`,
  `g_isRunning`, ...).  `pc[t]` is the place of thread `t`; local variables that outlive a
  step are functions over the threads.  A few variables are history, are written
  but never read by the actions, and are introduced as such in the module.
* **Grain.**  A critical section is one action if nobody can observe it half done;
  it is several where the program releases the mutex, where shared data are touched
  without the mutex, or where a second thread could get in if the mutex were not there.
  In particular `count++` on a shared variable is a load and a store.  A mutant that
  drops the lock therefore breaks the properties.
* **Conditions** are the sets of their sleepers.  `CondWait` gives up the mutex and
  falls asleep in one step; `Signal` wakes any one sleeper, `Broadcast` all, `Spurious`
  one for no reason; a woken thread needs the mutex to go on.
* **Data** are reduced to what the properties distinguish: the text of
  `05bounded.c` is a row of distinct numbers, a frame is the number of its round, a
  buffer is known by the call whose answer it holds.
* **Undefined behaviour.**  Stores in `Membarrier` go through store buffers
  as on x86; the table in `longhorn-rpc-client.c` is changed by a load and a store;
  `SkynetMonitor` stops at the first use of a freed monitor; locking a destroyed
  mutex in `ir_event.c` (`Answers`) does what glibc does (EINVAL, ignored by the code); `bytes_read` of
  `udp_server.c` is a variable of its own that every thread loads and stores; elements of the array in
  `06mutex.c` that were not read yet have any value; the unlocked
  `thr_sleep` tests a result that is never set, and goes on or returns; `mutex_linked_list.c` and
  `02_condition_modify.c` stop where a freed or missing node is used.
* **Bounds** are constants, or definitions with the word "bound" in their comment.
  An action at its bound is disabled; programs that would stop there have a
  stuttering action (`Terminated`, `Stopped`, `Quiet`), so that TLC's deadlock check
  stays on in every run: no run switches it off.

The modules and the code they model:

| Module | Source | Bound in the runs |
|---|---|---|
| `BoundedBuffer` | `Fixed/NoBug1/05bounded.c` | ring of 3, text of 7 |
| `ThreadPool` | `Fixed/NoBug1/pth_pool.c` | 3 workers, queue of 2, four tasks, or one task and three stop tasks |
| `ActorQueue` | `Fixed/NoBug1/queue_cyclic.c` | 2 senders, 2 messages each, queue of 2 |
| `Overrun` | `Fixed/NoBug2/pc_ocm.c` | 3 rounds of A and B |
| | `06test_pro_con.c` in `Fixed` and `Faulty` | 2 at first (3 in the code), 3 rounds (100) |
| `UnlockedQueues` | `Faulty/ManyBugs/queue_cyclic.c` | 2 senders, 2 messages each, queue of 2 |
| | `Faulty/ManyBugs/os21.c` | 2 consumers, buffer top 1, 4 items |
| `SkynetMonitor` | `Fixed/NoBug2/skynet_main.c` | 2 workers, 2 messages, signal delivered to the main thread |
| `ChatServer` | `Fixed/NoBug2/multhread_server.c` | 2 places, 3 descriptors, 3 connections, 3 bytes by 2, at most 5 of both |
| `CopyDaemon` | `Fixed/NoBug1/copy_deamon.c` | 2 connections, 3 bytes by 2 |
| `Clients` | `Fixed/NoBug2/cfgSock.c` | 2 callers and the program, 2 buffers, 3 calls |
| | `Faulty/ManyBugs/longhorn-rpc-client.c` | 2 callers, 2 calls |
| | `Faulty/ManyBugs/con_ser.c` | none needed |
| | `libudp_splice.c` in `Fixed` and `Faulty` | 2 users, 2 calls each |
| `CountThreshold` | `06_thread_cond_var.c`, `thread_with_conditions.c`, `11-14UseConditionVariable.c`, `6.c` in `Fixed/NoBug1` | real sizes; `thread_with_conditions.c` 5 of 10 rounds |
| `Philosophers` | `Fixed/NoBug2/philosophers.c` | 4 philosophers, 2 meals |
| `HotPlate`, `SyncPlate` | `Fixed/NoBug1/hot_plate_barriers.c` | 7 rows, 3 workers, 3 iterations |
| `Membarrier` | `Fixed/NoBug1/test-membarrier-shared.c` | 3 rounds, all four modes |
| | `Faulty/ManyBugs/test-membarrier-shared.c` | 2 rounds |
| `Concurio` | `Fixed/NoBug1/concurio.c` | 3 workers, 2 trials, worker 0 up to 4 |
| `Timing` | `timeval_subtract` of `concurio.c` | seconds of 3 microseconds |
| | `thr_sleep` of `helper.c` in `Fixed` and `Faulty` | seconds of 4 nanoseconds, microseconds of 2, waits up to 1 s and 6 ns, clock to 14 |
| `BloomSet` | `Fixed/NoBug2/hashInvertM.c` | 2 threads, 3 words, 2 filters |
| `CondStack`, `Stack` | `Fixed/NoBug1/02.c` | 2 + 2 threads, 3 nodes |
| `SemList`, `Stack` | `Fixed/NoBug1/zad_dom1.c` | 1 pusher, 2 poppers, 3 elements, 2 values |
| `RacyLists` | `Fixed/NoBug2/assignment2question2.c` | 2 threads, 3 jobs, 2 users |
| | `Fixed/NoBug1/02_condition_modify.c` | 5 nodes |
| | `Faulty/ManyBugs/mutex_linked_list.c` | 2 threads, 2 operations each, values 1 and 2 |
| `Chameneos`, `Rendezvous` | `Faulty/OneBug/chameneosredux.c` | 3 creatures of 3 colours, 3 meetings |
| `Measuring` | `Fixed/NoBug2/perf_index.c` | 3 workers, length 5 |
| | `Fixed/NoBug2/semaphore_mutex_release.c` | as in the code: phases of 10 iterations and of 1 |
| `TakingTurns` | `Fixed/NoBug2/10practice.c` | 2 turns each |
| | `Fixed/NoBug2/ping_pong.c` | 4 turns, at most 3 spurious wake-ups |
| | `Fixed/NoBug2/cpap2psg.c` | 2 channels, buffers of 2 numbers |
| `Answers` | `Fixed/NoBug2/asttest.c` | all options that change control |
| | `pth_condition_variable.c` | none needed |
| | `Fixed/NoBug2/ir_event.c` | none needed |
| | `Fixed/NoBug2/124mutex.c` | 3 lines |
| | `Fixed/NoBug2/06mutex.c` | 3 numbers up to 3 |
| `Totals` | the nine programs with sums, extremes and counters | 2 to 4 threads, 2 or 3 rounds where the code loops, parts of 2, elements to 3 |
| | `MergeSort.c_`, `BinarySearch.c`, `con.c`, `FibonacciSequence.c` | arrays of 4 with elements 0 to 2 |
| `SharedData` | `PThread-synchronization.c`, `02test.c`, `threadsAndMutexes.c` | 4 tickets, 3 numbers, 3 talkers with 2 turns |
| | `employee_with_mutex.c`, `023_sync_mutex.c` | 3 fields compared, of 2 records |
| | `parallel_mutex.c` | 3 threads, 2 buckets, 4 keys from 0 to 2 |
| | `dns-discovery.c` | 2 threads, 3 words, up to 2 addresses each |
| | `mode_extra.c` | 2 buttons, lit for a time of 2 at most, 3 times in all |
| `Receivers` | `udp_server.c` in `Fixed` and `Faulty` | 2 threads, 4 bytes by 2, unsigned numbers to 15, 4 calls |
| | `Fixed/NoBug2/camera_thread.c` | 2 clients, 3 frames of up to 2 bytes |

## 4. The suites

The programs do not interact, so putting them into one run is a matter of economy.
A suite EXTENDS the modules of its programs, in which the names of variables and actions differ
for that.  The variable `program` is chosen in the initial state and
never changes; only the chosen program moves.  Safety properties are those of the
modules.  A liveness property P of program x becomes
`program = "x" => P`.  Since `program` is constant in a behaviour, being fair to
`(x runs /\ A) \/ (y runs /\ B)` is being fair to A in the runs of x and to B in those of
y, which keeps the number of fairness conditions small.

`BoundedBuffer`, `CountThreshold` and `SkynetMonitor` (for the run that fails) are run by
themselves, without an MC module: their constants are numbers and sets of model values that a
configuration can write down.

Every program states its safety as one invariant, a conjunction of its type invariant and of
named parts that are commented one by one; the suites state the liveness
and action properties of their programs as one conjunction.

## 5. Runs

| Run | Shows |
|---|---|
| `bounded_buffer` | `BufferInv`: the text comes out in order and once, and no sleeper misses its wake-up. `IsAChannel`: the ring implements `FifoChannel`. `TextIsDelivered`: `main` returns with the whole text printed. |
| `queues` | `PoolInv`: neither a task nor `main` is left with everybody asleep who could see to it, although both sides signal after the unlock. `IsAChannel`: the pool hands tasks out as a FIFO channel. `ActorInv`: every message posted is in the queue, in the vector, counted or dropped. `OverrunInv`: frames of `pc_ocm.c` are processed whole, the flag its producer waits for is never seen set, and nobody of `06test_pro_con.c` sleeps through what it waits for. `QueuesDeliver`: all tasks executed, the pool ends if told to, the actor ends unless the exit message is dropped, frames are processed in order, `pc_ocm.c` ends unless a frame was overwritten, what `06test_pro_con.c` produces is eaten as long as the consumer has rounds. |
| `servers` | `SkynetInv`, `ChatInv`, `CopyInv`, `ClientsInv`: sleep count exact and no sleep after quit; client table exact, no byte both written and replaced; offsets hold still, DONE means copied but for what failed or came short, a copy is started with what was told; own answer, or as many calls late as receives failed, and one close; own data; one packet at most; a splice answer is one's own. `NeverBack`: the copy daemon never tells a client less than it has told it before. `ServersServe`: whoever asks is served, up to the exceptions named there; `con_ser.c` gets stuck. |
| `count_threshold` | `CountInv`: exact totals, nobody sleeps at the limit, even where only one increment is announced. `CountsToTheEnd`: every thread ends; bonus only at the limit. |
| `barriers` | `TableInv`: neighbours of `philosophers.c` apart, no circle. `IsSynchronous`: three workers with two barriers implement `SyncPlate`. `PlateInv`: nobody is in a freed plate. `MembarrierInv`: no alarm with paired barriers; results compared are of one round. `BarriersEnd`: all philosophers are fed, the hot plate and the barrier test end, even if one process aborts with the mutex held. |
| `lists` | `StackInv` (`CondStack`), `SemListInv`, `RacyListsInv`: one owner per node, no use after free, nobody takes from an empty list, one right summary entry per user; the count of `02_condition_modify.c` follows its list and who is woken finds a node but for two causes; the unlocked list stays sorted, and its updates are there when they came one at a time. `IsAStack`, `SemIsAStack`: both linked lists implement `Stack`. `ListsAreEmptied`. |
| `handshakes` | `ChameneosInv`; `MeasuredInv` (nobody works before the start, times are those of a release); `AnswersInv` (`asttest.c`, `ir_event.c`, `pth_condition_variable.c`); `TurnsInv` (relay, ping-pong, ticks, typed lines and numbers); `IsARendezvous`: the creatures implement `Rendezvous`; `HandshakesEnd`: the programs end but for the named hangs. |
| `totals` | `TotalsInv`: sums, extremes and counters are exact where a lock is taken; where none is, what remains is stated; parts are joined before they are used. `SharedDataInv`: whole turns, whole records, complete buckets, complete word lists, buttons hit or expired. `WorkersInv`: number alive exact, worker 0 of `concurio.c` writes first and leaves last; `timeval_subtract` is right for a caller with a time of its own; `thr_sleep` sleeps long enough, and fails exactly on the whole second. `BloomInv`: each word once, the right method, and only concurrent changes are lost. `TotalsEnd`. |
| `races` | `RacesInv`: what holds of `udp_server.c`, `os21.c`, and the unlocked copies of `queue_cyclic.c` and `test-membarrier-shared.c` although a lock is missing. `FramesAreSteady`: `camera_thread.c` does not change a frame while it is sent. |
| `queues_actor_error` | *violated*: `ErrorIsNeverReported` (section 8). |
| `skynet_monitor_freed` | *violated*: `MonitorOutlivesItsUsers` (section 8). |
| `timeval_shared` | *violated*: `DifferenceIsRight` with a shared start time (section 8). |

For every property of a passing run there is a mutant: a definition of the model
replaced by `Bug...`, which stands before it in its module and makes a slip a programmer could make in
that code (no lock, no signal, the wrong order, `if` for `while`).  Under the mutant
the property fails.

**Why the bounds are enough.**  They are chosen so that the cases in
question occur: the ring wraps around twice; the pool's queue is full while a
task waits and empty while a worker waits, and there are three workers so that a signal after the unlock
can be overtaken; four messages overrun a queue of two; two callers
overtake each other and overrun two buffers; three nodes are freed and
handed out again; three creatures leave one out of each meeting; rounds of barriers and
of `Membarrier` follow each other three times, so that a thread can be one ahead;
the counting programs have the sizes of the code; the two buckets get keys of three
threads; a second of `thr_sleep` is small enough for the clock to pass several; two clients take the
frame that a third capture is about to replace.  No run uses
symmetry sets, since every one of them checks liveness.

## 6. Fairness

* **Weak fairness** per thread where a thread, once it can go on, can only be held up
  finitely often: all programs whose loops are finite.
* **Strong fairness** per thread where others take the mutex again and again for ever
  (`CondStack`, `SemList`, `SkynetMonitor`, `ChatServer`, `CopyDaemon`, `Concurio`,
  `TakingTurns`, `ir_event.c` in `Answers`, `cfgSock.c` in `Clients`; the consumer of
  `02_condition_modify.c`, the producer of `06test_pro_con.c`, both threads of `124mutex.c`, the
  sorter of `06mutex.c`): it says that a mutex that is free again and again is
  at last given to a thread that wants it.  POSIX does not promise it; the
  programs sleep, or wait for I/O, outside their critical sections, which is what the
  assumption stands for.  `CopyDaemon` also assumes that a client which is asked again and
  again does not suspend the copy for ever, and says CLOSE at last when it has heard DONE
  (`GoesOn`); it may say it before.
* **Time** goes on: the clock of `thr_sleep` is weakly fair.
* **Spurious wake-ups** happen at any time but finitely often, where a loop would
  otherwise keep a thread turning for ever; where there is no loop (`perf_index.c`,
  `ping_pong.c`, `longhorn-rpc-client.c`, `02_condition_modify.c`, ...) they are part of the protocol, and
  the properties say what they may cause.
* **No fairness** is given to what the environment may or may not do: messages
  that arrive, signals, peers that hang up, failures of files; and none at all
  in `MCRaces`, which checks safety.

## 7. What is proved

Proofs are checked by TLAPS, for every value of the constants.  Each proof module
extends the modules of its programs and gives, per program, an inductive invariant, one lemma per
part of it that a step may disturb, a theorem that the invariant always holds, and the theorems
about the properties of the runs.  Nothing is assumed but the named assumptions about the
constants, which the runs evaluate for their own values.

| Theorem | Property of the runs | Under |
|---|---|---|
| `BoundedBufferProofs`: `BufferIsSafe`, `ImplementsAChannel` | `BufferInv`, `IsAChannel` | `SizesAssumption` |
| `QueuesProofs`: `PoolIsSafe`, `ImplementsAChannel` | `PoolInv`, `IsAChannel` | `PoolAssumption` |
| `QueuesProofs`: `ActorIsSafe` | `ActorInv` | `ActorAssumption` |
| `QueuesProofs`: `OverrunIsSafe`, `FramesInOrderAlways` | `OverrunInv`, a part of `QueuesDeliver` | `OcmAssumption`, `ProConAssumption` |
| `ServersProofs`: `MonitorIsSafe` | `SkynetInv` | `MonitorAssumption` |
| `ServersProofs`: `CopyIsSafe`, `NobodyIsSentBack` | `CopyInv`, `NeverBack` | `CopyAssumption` |
| `ServersProofs`: `ClientsAreKnown`, `OneMessageForAll` | `ChatInv`, a part of `ServersServe` | `ServerAssumption` |
| `ServersProofs`: `ClientsAreSafe` | `ClientsInv` | `CfgSockAssumption`, `RpcAssumption`, `SpliceAssumption` |
| `BarriersProofs`: `TableIsSafe` | `TableInv` | `N >= 2` |
| `BarriersProofs`: `PlateIsSafe` | `PlateInv` | `PlateAssumption` |
| `BarriersProofs`: `ImplementsSyncPlate` | `IsSynchronous` | and `EveryRowIsSomebodys` |
| `BarriersProofs`: `TestIsSafe` | `MembarrierInv` | `RoundsAssumption` |
| `RacesProofs`: `CountIsSafe`, `TheBonusWaits` | `CountInv`, a part of `CountsToTheEnd` | `ThresholdAssumption` |
| `RacesProofs`: `RacesAreSafe`, of which `OneSenderIsOrdered` | `RacesInv` | `UdpAssumption`, `ItemBufferAssumption`, `UnlockedAssumption`, `RoundsAssumption`, `CameraAssumption` |
| `RacesProofs`: `FramesAreSteadyHere` | `FramesAreSteady` | the same |
| `ListsProofs`: `ListIsSafe`, `ImplementsStack` | `StackInv`, `IsAStack` | `CondStackAssumption` |
| `ListsProofs`: `SemListIsSafe`, `SemImplementsStack` | `SemListInv`, `SemIsAStack` | `ListAssumption` |
| `ListsProofs`: `RacyListsAreSafe` | `RacyListsInv` | `JobAssumption`, `ModifiedListAssumption`, `SortedListAssumption` |
| `ChameneosProofs`: `ChameneosIsSafe`, `ImplementsARendezvous` | `ChameneosInv`, `IsARendezvous` | `ChameneosAssumption` |
| `ChameneosProofs`: `TurnsAreKept` | `TurnsInv` | `RelayAssumption`, `PingPongAssumption`, `TickAssumption` |
| `ChameneosProofs`: `AnswersAreGiven` | `AnswersInv` | `TextInputAssumption`, `InputSortAssumption` |
| `ChameneosProofs`: `TimesAreRight` | `MeasuredInv` | `PerfIndexAssumption`, `ReleaseAssumption` |
| `TotalsProofs`: `WorkersAreSafe` | `WorkersInv` | `ConcurioAssumption`, `TimevalAssumption`, `ThrSleepAssumption`, and `MeasuresAlone` |
| `TotalsProofs`: `BloomIsSafe` | `BloomInv` | `BloomAssumption` |
| `TotalsProofs`: `SharedDataIsSafe` | `SharedDataInv` | `AnnouncementsAssumption`, `RecordsAssumption`, `HashTableAssumption`, `WordListsAssumption`, `ModeExtraAssumption` |

### `BoundedBuffer`

For every length of text and every ring that is not empty.  The inductive invariant `IInv` is
`TypeOK`; `MainInv` (which thread is born and joined when); `LockInv` (a thread is inside
exactly when it owns the mutex, and asleep only where it waits); `RoundInv` (a thread that has
begun a round has a round to do, and what it has loaded of the counter is still the
counter); `RingInv` (the slots from the oldest on hold the next items of the text, and
`nextin` follows them); `SleepIsJustified` and `PrintsTheText`.  `PrintsTheText` alone is not
inductive: it is the contents of the ring that make the next character right, and it is
`LockInv` that keeps the other thread from changing index and counter between load and store.
`ImplementsAChannel`: every step is a send, a delivery or a stutter.

### `ThreadPool`

For any number of workers, every size of the queue, and every schedule of tasks in which
nothing follows the first stop task but stop tasks (`PoolAssumption`; a pool that is told to stop
and then given work strands the work, which the program's `main` does not do).  `IInv` is `TypeOK`,
`LockInv`, `TaskInv`, `QueueInv` (what has been taken, followed by the queue, is what was
submitted), `WakeInv` (while a worker sleeps there is somebody awake on the way for every task, or
`main` is about to signal), `StopInv` (each worker that leaves takes one stop task with it) and
`NoStrandedSubmitter`.  That no task is stranded is not inductive: a worker that stops
does not come back for a task, so that one has to count who leaves and with which task.

### `ActorQueue`

For any number of senders and messages and every size of the queue.  `ActorInv` says of every
message posted that it is in the queue, in the vector, counted or dropped, and that the actor sleeps
only while the queue is empty or a signal is due.  The inductive invariant `ActorIInv` adds
the places of the threads; `StoreInv` (what was stored at `tail` is there until `tail` moves);
`QueuedInv` (no place between `front` and `tail` is Null, so that the actor takes all of
them when it drains the queue until the first Null); `ExitInv` (the exit message comes after the last
message of every sender) and `VectorInv`.  `Ring` and `RingGrows` do the arithmetic modulo
the size, `AdvanceAppends` and `DrainTakesAll` say what the two sides do to the queue seen as
a sequence.

### `Overrun`

For any number of rounds.  `OcmIInv` counts rounds: `Frames` says which round's frame each memory
holds (`FrameIn`), that it is whole unless the producer is copying, and that what was
processed last is older unless the memory is empty; `OcmOwners` says that who has a mutex is in
the middle of a frame, and that the flag the producer waits for is never seen set.  `FramesInOrder` follows: the next frame
processed is younger than all before.  For `06test_pro_con.c` the
consumer falls asleep on 0 only (`ProConPlaces`), and since the producer counts up once a round
while the consumer counts down once a round at least (`ProConRoundsCount`), one that is
asleep at the end has eaten everything.

### `SkynetMonitor`

For any number of workers and messages, and whichever threads the signal may be delivered to.
`IInv` is `TypeOK`, `LockInv` (one holder of the mutex, which may be the handler on a thread that does
not hold it itself; only sleepers wait on the condition), `MessageInv`, `SleepIsExact` and
`NoSleepAfterQuit`.  `OneInsideAlways`: no two threads are in a critical section, the
handler's included.

### `CopyDaemon`

For every length of file and of buffer and any number of connections, whose clients say
anything at any time.  `DoneMeansCopied` is not
inductive: it needs `OwnerInv` (the mutex stays with a connection until the answer is sent, so
that the offset it reports is still true), `EndInv` (the worker is done with the whole file or
with one it could not read) and `HeardInv` (nobody hears of an offset that has not been
reached, and whoever has heard DONE does not ask again), and `WrittenInv` (what the offset has
passed over is written, unless a `pwrite` came short).  `NobodyIsSentBack` follows from `HeardInv`.
`RunsOnWhatWasTold`, what holds of a copy that a client starts by closing its connection, complete
or not, follows from `HeardInv` and `WrittenInv`.

### `ChatServer`

For any number of descriptors, places, connections and bytes, in pieces of any length.  `ChatIInv` has `WriterInv` (the
writer holds the mutex and has a message), `CurrentInv` (what `thread_connect` has in hand between two steps is
not in the table yet, or no more), `TableIsExact`, and `ByteInv`: a byte
is in one place, once in one socket, in `str`, in `msg`, or gone, whatever `strncpy` leaves of a
longer message behind a shorter one (`CopiedOver`).  The action property
`MessageIsSteady` (neither message nor table changes while it is written) follows from `WriterInv`.

### `Clients`

For any number of threads, buffers, calls, requests, users and pairs.

* `cfgSock.c`: who is in a request holds the mutex (`ConfigLockInv`), and the socket holds one
  answer for every receive that has failed since it was opened, besides that of a request under way
  (`AnswerIsMine`, with `MissedInv` to bound their number), so that the answer read is one's own if none
  has failed.  `BufferInv` says that
  buffers go round with the number of the call; that they last for as many calls as there are buffers is
  then arithmetic of remainders (`RemainderIs` and the lemmas after it).
* `longhorn-rpc-client.c`: `NumberInv` (numbers are given once), `ResponseInv` (a request has one
  response, and it is copied before it is signalled) and `WakeInv` (whoever is
  awake was woken by nobody, or has data and no response to come).  So a freed request is
  touched, and a call returns without data, only after a wake-up by nobody.
* `con_ser.c`: it has its own mutex from the first turn on (`TurnInv`).
* `libudp_splice.c`: the mutex is held from the request to the answer (`SpliceLockInv`).

### `Philosophers`

For two philosophers or more (`N >= 2`; one philosopher alone would need the same fork twice).
`TableIInv` is the types, `Ownership` (`f` says exactly who holds which fork) and `Fed` (hunger and place
agree).  `NeighboursApart` follows from `Ownership`.  `NobodyWaitsInACircle` needs an
argument about order: philosopher 0 takes the forks the other way round, so that
everybody who waits with one fork in hand waits for one with a higher number; the
member of a waiting group that waits for the highest fork would need a member that
holds it and waits for a higher one.

### `HotPlate`

For every number of rows, workers and iterations and every relaxation of a row.  A round has two
halves, `Updating` and `Copying`, and `RoundInv` says that one of them always holds: whoever has
not yet noticed that a barrier opened is still in the half before, and the other barrier
cannot open meanwhile.  `UpdateInv` and `CopyInv` say what the plates hold in each half.
`ImplementsSyncPlate` needs more than the assumption about the numbers: `allocateWorkload`
(lines 174-186) divides with truncation, and a row beyond the last share is relaxed by nobody.
`EveryRowIsSomebodys` names this as a condition on `argv[1]`.  `EvenShares` shows that it holds if the number
of threads divides the number of rows; with 5 threads for the 16384 rows of the code rows 16380 to
16382 would keep their first temperature for ever.

### `Membarrier`

For any number of rounds and every mode.  `Rendezvous` says that nobody passes the spin of a round before the other
is in it, so that the two are at most a round apart; `ReadyResults` and
`FirstLeavesResult`, that a result is ready from the moment the first of a round leaves it until
the second has compared; `BufferedStores`, that resets are in a store buffer only while
the second has the mutex and the first waits at the next spin, which is why no reset
wipes a store of the next round.  With barriers on both sides the store of a process
is in memory from its load until the reset (`StoresAreSeen`), so that the second of two loads sees it
(`OneSeesTheOther`), and `NoAlarm` follows.

### `CountThreshold`

For all four programs in one proof, and every number of rounds that reaches the limit.  `IInv` is `TypeOK`,
`LockInv`, `PlaceInv`, `LoadInv` (nobody changes `count` between a load and its store), `BonusInv`
(`count` is the sum of the rounds done, and of the bonus once the watcher has added it) and `LimitInv`
(whoever sleeps sleeps below the limit).  `TheBonusWaits` is the action property
`BonusAtTheLimit` that `CountsToTheEnd` contains: the watcher adds its bonus only at the limit.

### `CondStack` and `SemList`

For any number of threads and nodes.  In both the heart of the invariant is that *there is a
sequence* of nodes without repetition which `next` links from the head to the end.
`ListInv` says of it that all of its nodes are allocated and in nobody's hand (so that none is
freed twice or used after it is freed), and that while a consumer sleeps every node has another consumer, awake,
to take it.  `ChainInv` says where the threads that walk the list are on it, and that
the semaphore counts its elements but for those that somebody has been let in for or that
are about to be posted.  `TheWay` and `TheList` show that the recursive functions of the model, which
follow the links, walk along this sequence; `NoLongerThan` is the pigeonhole that bounds it by the
number of nodes.  The refinements follow: linking and unlinking append to the sequence and
shorten it, all other steps leave it as it is.

### `RacyLists`

* `assignment2question2.c`, for any jobs, users and threads.  `EntryInv` is the argument: an
  entry of the summary has the time of the last job of its user, or there is a thread that
  still has a later job of that user before it and will write it.  `SummaryLockInv` keeps the search position right until
  it is used.  `TimesExist` gives the recursive function of the times its values.
* `02_condition_modify.c`, for any number of nodes: `ModifiedPlaceInv` and `WokenInv` (who takes a
  node after a wait finds one, unless it was woken for nothing, or too late).
* `mutex_linked_list.c`, for any operations of its threads, none of which locks.  The nodes
  in the list are the least set that the pointers do not leave; `NodeJoins` and `NodeLeaves` say
  what one store does to it.  `Ascend` holds between any node and the one it points to,
  whether the node is in the list or was cut off by a race, and that is why the list stays
  sorted.  `AloneInv` says what an operation has in hand while nobody else changes the list.

### `Chameneos`

For any number of creatures, of meetings and every choice of colours.  `IInv` is `TypeOK`, `PlaceInv`, `TwoInv`
(who holds the two places), `MutexInv` (the mutex is taken by the one inside, and after a meeting by the first for
both), `WaitInv` (the first waits with its name in `A`), `PairInv` (partners name
each other), `DoneInv`, `CountInv` (nobody has met more often than there were meetings) and `PrintInv`.
`TwoInv` is the key: the second gives the mutex back although the first had taken it,
and only the semaphore `at_most_two` keeps a third creature out meanwhile.

### `TakingTurns`

For any number of turns, wake-ups by nobody, channels and numbers.  `RelayOrderInv`: the flag names the
next letter but for the time between passing it on and printing, in which the printer has
the mutex.  `GameDueInv` counts the turns of `ping_pong.c`: those that one has taken, or is about
to take since it was woken, come from turns of the other, from the start of pong, or from
wake-ups by nobody.  `TickWaitInv`: a channel without a tick waits for one, or
for ever since its condition was initialised after it fell asleep.

### `Answers`

* `asttest.c`: `AstCountInv` (requests are answered, in the queue, or being answered), `AstPollInv`
  (without threads `main` is behind by at most one answer for each failed `poll`), `AstFirstInv` (with threads the mutex keeps the first answer back until `main` is asleep)
  and `AstAnswerInv`.
* `ir_event.c`: `RemoteLockInv`, `RemoteFreedInv`.  `pth_condition_variable.c`: `ExecOrderInv`.
* `124mutex.c`: `TextLineInv` (the line in `work_area` is the one not counted) and `TextLockInv` (what is there
  while somebody sleeps).
* `06mutex.c`, for any numbers: `SortNumbersInv` says that *there is a bijection* from the
  places of the array, with the number in the thread's hand put back, to the numbers read; a swap composes
  it with a transposition.  `SortOrderInv` says how far they are in order.

### `Measuring`

For any number of workers and work, and all clocks and phases.  `PerfStartInv`: who works was
woken after `main` had counted all workers, unless by nobody; `PerfTimeInv` and `DivisionIs` (division with
remainder, which is unique) give the time with or without a borrow.  `ReleasePairInv`: `main` and the
keeper have gone through the barrier equally often, both an even number of times or
both an odd one, which is what makes the two alternate over the device
(`ReleaseDeviceInv`); `ReleaseStatusInv` says who may read the status meant for the end.

### `Concurio` and `Timing`

For any number of workers and trials and any clocks.  `LeaderInv` (nobody is still to start once
worker 0 has gathered all, and nobody is left when it leaves) needs `AliveInv`: `workers_alive`
is exact and has not changed since it was loaded.  `TimevalFormInv` follows `y` through the six steps of the
borrow and the carry.  It needs `MeasuresAlone`: `y` belongs to one worker.  That is not a restriction for
the proof's sake, it is where the program is right: run `timeval_shared` shows the
wrong difference for two workers with one start time.  For `thr_sleep`, `SleepUntilInv` bounds
the time to sleep until, and shows that the nanoseconds reach a second at most, which is
the one case in which the wait is refused.

### `BloomSet`

For any number of threads and words and every filter.  `TakenInv`: the words before `nextLoc` are taken, each by one
thread.  `TotalInv`: the total is the number of ones in the words that are counted (`OnesOf`, a set, whose
cardinality replaces the sum).  `StaleInv`: what a thread has loaded of a word of `M` is what is there,
unless another has stored that word since; with `CheckedInv` and `PassedInv` this is why
each vertex is added or removed, unless two threads changed its word.

### `SharedData`

* Records: `WholeInv` (whoever copies has copied all but what is to do).
* `mode_extra.c`: `GameInv` (places of the two threads, and who may free the state).
* `dns-discovery.c`: `HolderInv`, `LineInv` and `BlockInv` (a line that is not the last of its block
  is followed by the next one); `WrittenInv` and `OnceInv` (a line is in the output, once, if
  its thread has got that far).
* `parallel_mutex.c`: `ChainInv` says that what was inserted into a bucket is closed under its pointers and that every
  closed set has it, so that it is exactly what `get_phase` walks over.
* Announcements: `SaleInv`, `UnlockedSaleInv` (all tickets above the lowest number anybody has
  loaded are sold), `CountInv`, `MessagesInv` (after each message of an unfinished turn comes the next
  of the same thread).

### `Receivers`, `UnlockedQueues` and the unlocked `Membarrier`

These programs race, so an invariant has to say what the races leave alone.

* `udp_server.c`: `PositionsInv` counts the threads that have claimed a part of the file; under
  the lock `file_pos` is that number of parts, so that no two claims are the same.  `AloneInv`
  (one thread at most uses `bytes_read`) holds until two calls overlap, and until then
  `AccountsInv` follows, from label to label, what a thread has received, counted and moved, and
  `SummedInv` says whose bytes are in the total.
* `camera_thread.c`: `WriterInv` (who writes a frame has the mutex, which the copy needs too) gives
  `FramesAreSteadyHere`; `FrameInv` and `WokenInv` say of which frame `length` and a header are, and
  `FreedInv` counts the frames freed by the snapshots that are done.
* `os21.c`: `BottomInv` bounds the index from below where one consumer was created: it may lose
  updates, and its index stays.  `WaitedInv` is stronger: a consumer that waited first owns the mutex, so nothing is lost.
* `queue_cyclic.c` without its mutex, for any length of the queue: `OldInv` and `OnceInv` (each message
  is in one place only) hold for any senders.  With one sender, `UaStoreInv` (what is stored at
  `tail` is not in the queue yet) and `UaLineInv` (no place of the queue is empty) tell apart what the
  actor reads and what the sender writes, and `UaKeptInv` is the order.
* `test-membarrier-shared.c` without its lock: `HasMet` counts the arrivals from above, so that nobody
  passes a spin before the other has come.  `FirstInv` describes the first round
  with the contents of both store buffers; it says nothing of later ones, where the
  reset may wipe a store.

### What is only model-checked

* Liveness: fairness and ENABLED are out of the prover's reach.
* `TotalsInv`: sums, sorting, searching and Fibonacci numbers are recursive definitions, and what
  they compute for every input takes an induction over data.

## 8. Findings

Three passages of *fixed* programs contradict what the repository says of
them; each has a run whose counterexample is the scenario.

1. `queue_cyclic.c:141`: `actor_send_to` ignores that the queue is full.  The message is gone, and
   the program's own final check (lines 171-175, "ERROR!!!!!!!!") fires.  (In the code a queue of
   this size is overrun with more than 2000 senders and a slow actor.)  `ActorInv`, which is proved
   for every size, says that this is the only way to lose a message.
2. `skynet_main.c:138`: `skynet_start` joins the workers but not the timer and socket
   threads, and then destroys the monitor they lock.
3. `concurio.c:28`: `timeval_subtract` changes `*y`, which under `-a` is one variable for all
   workers; a worker that reads it while another is between the two assignments records a time wrong by a second.

Other behaviour that a reader of the code may find surprising is not in contradiction with
anything the repository says, and is pinned down by passing properties, which name it as the only exception:

* `semaphore_mutex_release.c` hangs if the keeper reads the status meant for the
  test after the barrier at the top of its loop (`KeeperLeavesOnce`, `EndsOrHangs`);
* `asttest.c` misses an answer to `dlm_unlock` that comes before the wait (`EndsUnlessMissed`), and
  goes on without an answer when `poll` fails: it may then give back a lock it has not been given, and
  take the late answer for that to its next request (`GoesOnAnswered`);
* `pc_ocm.c` overwrites frames and then starves its consumer (`EndsUnlessOverwritten`);
* `multhread_server.c` leaves unread what does not fit into one read of 50 bytes, until more arrives
  (`BytesAreRead`); broadcasts the end of an unwritten message behind a shorter one that came later
  (`NoByteTwice` says what is still true of the mixture); and drops a live client when an event
  comes whose bytes an earlier read has taken (the last disjunct of `Read`);
* `copy_deamon.c` starts the destination on what there is of the copy when a client says CLOSE early
  (`RunsOnWhatWasTold`), and says DONE with a hole in the copy if a `pwrite` came short
  (`DoneMeansCopied`);
* `cfgSock.c` gives every call the answer to an earlier one after a receive has failed
  (`AnswerIsMine`);
* `hashInvertM.c` loses concurrent changes of a word (`NothingIsLostAlone`);
* `longhorn-rpc-client.c` misses early signals and loses table entries (`ReturnsUnlessMissed`);
* `ir_event.c` keeps its mutex after an unknown key (`StuckOnlyIfKept`), and frees the connection
  under the monitor when a command fails or there is no device (`MisusedOnlyAfterFailure`);
* `cpap2psg.c` forgets a channel that waits before its condition is initialised (`EveryWaitEnds`);
* `udp_server.c` counts wrong when one call comes between another and its uses
  (`TotalIsRightAlone`);
* `124mutex.c` leaves `main` waiting after "end" (`LinesAreTaken` promises the lines only);
* `06mutex.c` sorts numbers that are not read yet if it is not behind the input (`SortsWhatWasRead`);
* `camera_thread.c`: a header may promise another length than the body has, and a client may
  write a frame that another has freed, if one is a snapshot or wakes up by itself (`LengthFits`,
  `StreamsAreSafe`);
* `02_condition_modify.c` takes a node that is not there after a spurious or late wake-up, and loses
  updates of the count (`SleepIsShort`, `TakesUnlessLost`);
* `con_ser.c` comes back to its own mutex and stays there (`GetsStuck`);
* the unlocked barrier test may raise a false alarm from the second round on (`FirstRoundIsSafe`);
* `thr_sleep` returns at once, with its mutex locked, if the wait ends on a whole second
  (`FailsOnTheSecond`);
* `06test_pro_con.c`: the consumer stays asleep when all has been eaten (`DataIsEaten`);
* `pth_condition_variable.c` hangs if both threads read `done` as 1, or if the second overtakes the
  first (`ExitsUnlessRace`);
* a consumer of `os21.c` that has waited never gives the mutex back (`OneWhoWaitedFirst`);
* `main` of `hot_plate_barriers.c` destroys the first barrier while workers wait in it, which
  is undefined and need not come back (`MainReturnsOrHangs`); the program also leaves rows to
  nobody if the number of threads does not divide the number of rows (`EveryRowIsSomebodys`,
  section 7);
* `ping_pong.c` and `perf_index.c` take a spurious wake-up for a real one (`AtMostOneTurnEach`,
  `NobodyMissesTheStart`).

Two hazards are left without a property: that the signal handler of `skynet_main.c` locks a
mutex which the thread it interrupts may own (the runs deliver the signal to the main thread, as Linux
does as long as that can take it), and that worker 0 of `concurio.c` may run past an array sized for twice the
trials (trial numbers are bounded in the model).

## 9. Not modelled

* **Faulty twins** of programs modelled here: the defect, a lock or unlock call removed, is
  what the `Bug...` operators of the models describe.  Twins whose behaviour is a subject of its
  own are modelled.
* `fd4t10s-damp-zjh-cg.c` is a fragment that does not compile, and whose slaves leave their array.
* `web_analysis.c` is one file of a larger program; what it shares is declared elsewhere.
* `DME.c`: two of the three processes of the protocol are only comments in the repository.
* `timedwait.c`: two threads that share nothing.
* `servofpga.c`, `xlights.c`: device access, no threads.
* `Dijkstra’sAlgorithm.c`, `show_stack.c`: no variable written by one thread is read by another.
* `shutdown_client_connection` of `longhorn-rpc-client.c`: nothing calls it.
* **Archives and tables** (`*.zip`, statistics): no behaviour.

Within the programs modelled, output, command lines, allocation failures that exit at
once and the contents of files are left out; each module's header says what else is.

## 10. Running

```
cd tla
tlc -workers 2 -config BoundedBuffer.cfg BoundedBuffer     # any run: see PROJECT.json
tlc -workers 2 -config Totals.cfg MCTotals
tlapm BoundedBufferProofs.tla
tlapm QueuesProofs.tla                                      # any other: *Proofs.tla
```
