----------------------------- MODULE Measuring ------------------------------
(***************************************************************************)
(* Two programs that measure a time between threads: perf_index.c, whose   *)
(* workers start together, and semaphore_mutex_release.c, which times the  *)
(* release of a device.  Each has its own variables, Init, Next and        *)
(* properties; a run moves one of them.                                    *)
(***************************************************************************)
EXTENDS Pthreads, Functions, Sequences

(***************************************************************************)
(* Fixed/NoBug2/perf_index.c: num_threads workers get ready and sleep;     *)
(* main() waits until all are, starts the timer and wakes them together;   *)
(* each executes its share of the work.                                    *)
(*                                                                         *)
(* Neither sleep is in a loop: a thread takes any wake-up for the one it   *)
(* waits for.  idle is history: who was woken up by nobody.  The test is a *)
(* library the program loads; it does what it is told, and its error       *)
(* strings are empty.                                                      *)
(***************************************************************************)
CONSTANTS Worker, my_index,       \* the threads, and their numbers
          length,                 \* argv[3]
          Million,                \* microseconds of a second, 1000000
          MaxClock                \* the last microsecond (a bound)

num_threads == Cardinality(Worker)

ASSUME PerfIndexAssumption ==
  /\ IsFiniteSet(Worker) /\ Worker \cap {"main", NoThread} = {} /\ num_threads > 0
  /\ my_index \in [Worker -> 0 .. num_threads - 1]
  /\ \A i \in 0 .. num_threads - 1 : \E w \in Worker : my_index[w] = i
  /\ length \in Nat
  /\ Million \in Nat \ {0} /\ MaxClock \in Nat

PerfMain   == "main"
PerfThread == Worker \cup {PerfMain}
Time   == 0 .. MaxClock

VARIABLES ready_thread_count, ready_thread_count_lock,
          start_cvar, threads_ready_cvar,
          timer,        \* of main()
          piPc,
          executed,     \* what each worker has passed to execute
          clock, piIdle   \* history: the two readings of the clock

sync == <<ready_thread_count, ready_thread_count_lock, start_cvar, threads_ready_cvar>>
perfVars == <<sync, timer, piPc, executed, clock, piIdle>>

PerfInit ==
  /\ ready_thread_count = 0 /\ ready_thread_count_lock = NoThread
  /\ start_cvar = {} /\ threads_ready_cvar = {}
  /\ timer = [tv_sec |-> 0, tv_usec |-> 0]
  /\ piPc = [t \in PerfThread |-> IF t = PerfMain THEN "create" ELSE "unborn"]
  /\ executed = [w \in Worker |-> 0]
  /\ clock = [start |-> 0, end |-> 0] /\ piIdle = {}

PerfGoto(t, label) == piPc' = [piPc EXCEPT ![t] = label]

\* gettimeofday.
TimeOfDay(us) == [tv_sec |-> us \div Million, tv_usec |-> us % Million]
-----------------------------------------------------------------------------

work_size(w) ==
  length \div num_threads + (IF length % num_threads > my_index[w] THEN 1 ELSE 0)

EnterSetup(w) ==
  /\ piPc[w] = "setup"
  /\ Lock(ready_thread_count_lock, w)
  /\ PerfGoto(w, "ready")
  /\ UNCHANGED <<ready_thread_count, start_cvar, threads_ready_cvar, timer, executed,
                 clock, piIdle>>

\* BUG: every worker says that all are ready.
BugAllReady == TRUE

AllReady == ready_thread_count' = num_threads

WorkerSleep(w) == CondWait(start_cvar, ready_thread_count_lock, w)

\* The last to get ready says so; everybody sleeps.
Ready(w) ==
  /\ piPc[w] = "ready"
  /\ ready_thread_count' = ready_thread_count + 1
  /\ IF AllReady THEN CondSignal(threads_ready_cvar) ELSE UNCHANGED threads_ready_cvar
  /\ WorkerSleep(w)
  /\ PerfGoto(w, "asleep")
  /\ UNCHANGED <<timer, executed, clock, piIdle>>

\* Awake, the worker locks and unlocks at once.
WorkerWake(w) ==
  /\ piPc[w] = "asleep" /\ w \notin start_cvar
  /\ ready_thread_count_lock = NoThread
  /\ PerfGoto(w, "execute")
  /\ UNCHANGED <<sync, timer, executed, clock, piIdle>>

Execute(w) ==
  /\ piPc[w] = "execute"
  /\ executed' = [executed EXCEPT ![w] = @ + work_size(w)]
  /\ PerfGoto(w, "ended")
  /\ UNCHANGED <<sync, timer, clock, piIdle>>

thread_setup(w) == EnterSetup(w) \/ Ready(w) \/ WorkerWake(w) \/ Execute(w)
-----------------------------------------------------------------------------
PerfCreate ==
  /\ piPc[PerfMain] = "create"
  /\ \E w \in Worker :
       /\ piPc[w] = "unborn" /\ \A v \in Worker : my_index[v] < my_index[w] => piPc[v] # "unborn"
       /\ piPc' = [piPc EXCEPT ![w] = "setup",
                           ![PerfMain] = IF my_index[w] = num_threads - 1 THEN "lock" ELSE "create"]
  /\ UNCHANGED <<sync, timer, executed, clock, piIdle>>

MainLock ==
  /\ piPc[PerfMain] = "lock"
  /\ Lock(ready_thread_count_lock, PerfMain)
  /\ PerfGoto(PerfMain, "await")
  /\ UNCHANGED <<ready_thread_count, start_cvar, threads_ready_cvar, timer, executed,
                 clock, piIdle>>

Await ==
  /\ piPc[PerfMain] = "await"
  /\ IF ready_thread_count # num_threads
       THEN /\ CondWait(threads_ready_cvar, ready_thread_count_lock, PerfMain)
            /\ PerfGoto(PerfMain, "asleep")
       ELSE /\ Unlock(ready_thread_count_lock) /\ UNCHANGED threads_ready_cvar
            /\ PerfGoto(PerfMain, "start")
  /\ UNCHANGED <<ready_thread_count, start_cvar, timer, executed, clock, piIdle>>

\* `if', not `while': main() does not count again.
MainWake ==
  /\ piPc[PerfMain] = "asleep" /\ PerfMain \notin threads_ready_cvar
  /\ ready_thread_count_lock = NoThread
  /\ PerfGoto(PerfMain, "start")
  /\ UNCHANGED <<sync, timer, executed, clock, piIdle>>

StartTimer ==
  /\ piPc[PerfMain] = "start"
  /\ \E us \in Time : timer' = TimeOfDay(us) /\ clock' = [start |-> us, end |-> us]
  /\ PerfGoto(PerfMain, "broadcast")
  /\ UNCHANGED <<sync, executed, piIdle>>

\* Without the lock.
WakeWorkers == CondBroadcast(start_cvar)

Broadcast ==
  /\ piPc[PerfMain] = "broadcast"
  /\ WakeWorkers
  /\ PerfGoto(PerfMain, "join")
  /\ UNCHANGED <<ready_thread_count, ready_thread_count_lock, threads_ready_cvar, timer,
                 executed, clock, piIdle>>

NoBorrow(now) == now.tv_usec >= timer.tv_usec

end_timer(now) ==
  LET borrow == IF NoBorrow(now) THEN 0 ELSE 1
  IN  [tv_sec  |-> now.tv_sec - timer.tv_sec - borrow,
       tv_usec |-> now.tv_usec - timer.tv_usec + borrow * Million]

PerfJoin ==
  /\ piPc[PerfMain] = "join" /\ \A w \in Worker : piPc[w] = "ended"
  /\ \E us \in clock.start .. MaxClock :
       timer' = end_timer(TimeOfDay(us)) /\ clock' = [clock EXCEPT !.end = us]
  /\ PerfGoto(PerfMain, "returned")
  /\ UNCHANGED <<sync, executed, piIdle>>

perfMain == PerfCreate \/ MainLock \/ Await \/ MainWake \/ StartTimer \/ Broadcast \/ PerfJoin

PerfSpuriousWakeup ==
  /\ \/ Spurious(start_cvar) /\ UNCHANGED threads_ready_cvar
     \/ Spurious(threads_ready_cvar) /\ UNCHANGED start_cvar
  /\ piIdle' = piIdle \cup (start_cvar \ start_cvar')
                     \cup (threads_ready_cvar \ threads_ready_cvar')
  /\ UNCHANGED <<ready_thread_count, ready_thread_count_lock, timer, piPc, executed, clock>>

PerfTerminated == piPc[PerfMain] = "returned" /\ UNCHANGED perfVars

PerfNext == perfMain \/ PerfSpuriousWakeup \/ PerfTerminated \/ \E w \in Worker : thread_setup(w)

PerfSpec == PerfInit /\ [][PerfNext]_perfVars

\* Each thread locks the mutex once or twice: nobody is overtaken for ever.
PerfFairSpec == PerfSpec /\ WF_perfVars(perfMain) /\ \A w \in Worker : WF_perfVars(thread_setup(w))
-----------------------------------------------------------------------------
PerfTypeOK ==
  /\ ready_thread_count \in 0 .. num_threads
  /\ ready_thread_count_lock \in PerfThread \cup {NoThread}
  /\ start_cvar \subseteq Worker /\ threads_ready_cvar \subseteq {PerfMain}
  /\ piIdle \subseteq PerfThread
  /\ timer \in [tv_sec : Time, tv_usec : 0 .. Million - 1]
  /\ executed \in [Worker -> 0 .. length] /\ clock \in [start : Time, end : Time]
  /\ piPc \in [PerfThread -> {"create", "lock", "await", "asleep", "start", "broadcast", "join",
                             "returned", "unborn", "setup", "ready", "execute", "ended"}]

\* The time measured includes all the work: nobody begins before the broadcast,
\* unless woken up by nobody.
HasStarted == piPc[PerfMain] \in {"join", "returned"}

NoWorkBeforeTheStart ==
  \A w \in Worker \ piIdle : piPc[w] \in {"execute", "ended"} => HasStarted

\* The broadcast without the lock comes when all are asleep: nobody goes to sleep
\* after it, unless main() was woken up by nobody.
NobodyMissesTheStart ==
  PerfMain \notin piIdle /\ HasStarted =>
    start_cvar = {} /\ \A w \in Worker : piPc[w] \in {"asleep", "execute", "ended"}

\* The shares of the workers are all of the work.
AllWorkIsDone ==
  piPc[PerfMain] = "returned" => FoldFunction(+, 0, executed) = length

\* end_timer: the time measured is that between the two readings of the clock.
TimeIsRight ==
  piPc[PerfMain] = "returned" => timer = TimeOfDay(clock.end - clock.start)

\* main() ends, unless it was woken up by nobody and began too early.
MainEnds == <>(piPc[PerfMain] = "returned" \/ PerfMain \in piIdle)

\* The safety of perf_index.c: no work is done outside the time that is measured, and no
\* worker is asleep when the start has been announced.
PerfInv == PerfTypeOK /\ NoWorkBeforeTheStart /\ NobodyMissesTheStart /\ TimeIsRight
-----------------------------------------------------------------------------

(***************************************************************************)
(* Fixed/NoBug2/semaphore_mutex_release.c: in each of up to four phases,   *)
(* main() and a keeper go twice through a barrier for two per iteration;   *)
(* in between the keeper acquires the semaphore or the mutex, and main()   *)
(* acquires it after its release.                                          *)
(*                                                                         *)
(* status tells the keeper to end.  It is shared without a lock: a keeper  *)
(* that reads it at the top of its loop, not after the barrier, has left   *)
(* and leaves main() at the barrier.  That is a hang of the program.       *)
(* The times, which go to a variable nobody sets, are left out.            *)
(***************************************************************************)
CONSTANTS w_iterations, w_drop_cache

ASSUME ReleaseAssumption == w_iterations \in Nat /\ w_drop_cache \in BOOLEAN

ReleaseMain   == "main"
Keeper == "keeper"
ReleaseThread == {ReleaseMain, Keeper}

\* The phases: what is timed, how often, and whether status is set to 1 before
\* the keeper is created or after.
Phase(device, n, first) == [device |-> device, iterations |-> n, status_first |-> first]

Phases ==
  <<Phase("id", w_iterations, TRUE)>>
    \o (IF w_drop_cache THEN <<Phase("id", w_iterations \div 10, FALSE)>> ELSE <<>>)
    \o <<Phase("mutex", w_iterations, TRUE)>>
    \o (IF w_drop_cache THEN <<Phase("mutex", w_iterations \div 10, TRUE)>> ELSE <<>>)

VARIABLES phase, rtI, status, barr, id, rtMutex, rtPc

releaseVars == <<phase, rtI, status, barr, id, rtMutex, rtPc>>

ReleaseInit ==
  /\ phase = 1 /\ rtI = 0 /\ status = 1 /\ barr = {}
  /\ id = 1                          \* sem_open with 0, and sem_post
  /\ rtMutex = NoThread
  /\ rtPc = [t \in ReleaseThread |-> IF t = ReleaseMain THEN "create" ELSE "unborn"]

ReleaseGoto(t, label) == rtPc' = [rtPc EXCEPT ![t] = label]

Now == Phases[phase]

SemRelease == SemPost(id)

Acquire(t) == IF Now.device = "id" THEN SemWait(id) /\ UNCHANGED rtMutex
                                   ELSE Lock(rtMutex, t) /\ UNCHANGED id
Release    == IF Now.device = "id" THEN SemRelease /\ UNCHANGED rtMutex
                                   ELSE Unlock(rtMutex) /\ UNCHANGED id

\* pthread_barrier_wait, up to the wait and from the wait on.
ArriveAtBarrier(t, from, to) ==
  /\ rtPc[t] = from /\ BarrierArrive(barr, 2, t) /\ ReleaseGoto(t, to)
  /\ UNCHANGED <<phase, rtI, status, id, rtMutex>>

LeaveBarrier(t, from, to) ==
  /\ rtPc[t] = from /\ t \notin barr /\ ReleaseGoto(t, to)
  /\ UNCHANGED <<phase, rtI, status, barr, id, rtMutex>>
-----------------------------------------------------------------------------
Top ==
  /\ rtPc[Keeper] = "top" /\ ReleaseGoto(Keeper, IF status = -1 THEN "left" ELSE "first")
  /\ UNCHANGED <<phase, rtI, status, barr, id, rtMutex>>

KeeperTest ==
  /\ rtPc[Keeper] = "test" /\ ReleaseGoto(Keeper, IF status = -1 THEN "ended" ELSE "acquire")
  /\ UNCHANGED <<phase, rtI, status, barr, id, rtMutex>>

KeeperAcquire ==
  /\ rtPc[Keeper] = "acquire" /\ Acquire(Keeper) /\ ReleaseGoto(Keeper, "second")
  /\ UNCHANGED <<phase, rtI, status, barr>>

KeeperRelease ==
  /\ rtPc[Keeper] = "release" /\ Release /\ ReleaseGoto(Keeper, "top")
  /\ UNCHANGED <<phase, rtI, status, barr>>

\* semaphore_keeper and mutex_keeper.
keeper ==
  \/ Top \/ KeeperTest \/ KeeperAcquire \/ KeeperRelease
  \/ ArriveAtBarrier(Keeper, "first", "in_first") \/ LeaveBarrier(Keeper, "in_first", "test")
  \/ ArriveAtBarrier(Keeper, "second", "in_second") \/ LeaveBarrier(Keeper, "in_second", "release")
-----------------------------------------------------------------------------
ReleaseCreate ==
  /\ rtPc[ReleaseMain] = "create"
  /\ rtPc' = [rtPc EXCEPT ![Keeper] = "top",
                      ![ReleaseMain] = IF Now.status_first THEN "loop" ELSE "set_status"]
  /\ rtI' = 0 /\ status' = (IF Now.status_first THEN 1 ELSE status)
  /\ UNCHANGED <<phase, barr, id, rtMutex>>

SetStatus ==
  /\ rtPc[ReleaseMain] = "set_status" /\ status' = 1 /\ ReleaseGoto(ReleaseMain, "loop")
  /\ UNCHANGED <<phase, rtI, barr, id, rtMutex>>

TimingLoop ==
  /\ rtPc[ReleaseMain] = "loop"
  /\ status' = (IF rtI < Now.iterations THEN status ELSE -1)
  /\ ReleaseGoto(ReleaseMain, IF rtI < Now.iterations THEN "first" ELSE "last")
  /\ UNCHANGED <<phase, rtI, barr, id, rtMutex>>

MainAcquire ==
  /\ rtPc[ReleaseMain] = "acquire" /\ Acquire(ReleaseMain) /\ ReleaseGoto(ReleaseMain, "release")
  /\ UNCHANGED <<phase, rtI, status, barr>>

MainRelease ==
  /\ rtPc[ReleaseMain] = "release" /\ Release /\ rtI' = rtI + 1 /\ ReleaseGoto(ReleaseMain, "loop")
  /\ UNCHANGED <<phase, status, barr>>

ReleaseJoin ==
  /\ rtPc[ReleaseMain] = "join" /\ rtPc[Keeper] \in {"ended", "left"}
  /\ IF phase < Len(Phases) THEN phase' = phase + 1 /\ ReleaseGoto(ReleaseMain, "create")
                            ELSE phase' = phase /\ ReleaseGoto(ReleaseMain, "returned")
  /\ UNCHANGED <<rtI, status, barr, id, rtMutex>>

semaphore_mutex_not_empty ==
  \/ ReleaseCreate \/ SetStatus \/ TimingLoop \/ MainAcquire \/ MainRelease \/ ReleaseJoin
  \/ ArriveAtBarrier(ReleaseMain, "first", "in_first")
  \/ LeaveBarrier(ReleaseMain, "in_first", "second")
  \/ ArriveAtBarrier(ReleaseMain, "second", "in_second")
  \/ LeaveBarrier(ReleaseMain, "in_second", "acquire")
  \/ ArriveAtBarrier(ReleaseMain, "last", "in_last") \/ LeaveBarrier(ReleaseMain, "in_last", "join")

\* main() waits at the barrier for a keeper that has left.
Hung == rtPc[Keeper] = "left" /\ ReleaseMain \in barr

ReleaseStopped == (Hung \/ rtPc[ReleaseMain] = "returned") /\ UNCHANGED releaseVars

ReleaseNext == keeper \/ semaphore_mutex_not_empty \/ ReleaseStopped

ReleaseSpec == ReleaseInit /\ [][ReleaseNext]_releaseVars

ReleaseFairSpec ==
  ReleaseSpec /\ WF_releaseVars(keeper) /\ WF_releaseVars(semaphore_mutex_not_empty)
-----------------------------------------------------------------------------
ReleaseTypeOK ==
  /\ phase \in 1 .. Len(Phases) /\ rtI \in 0 .. w_iterations /\ status \in {1, -1}
  /\ barr \subseteq ReleaseThread /\ id \in 0 .. 1 /\ rtMutex \in ReleaseThread \cup {NoThread}
  /\ rtPc \in [ReleaseThread -> {"create", "set_status", "loop", "first", "in_first", "second", "in_second",
                                "last", "in_last", "acquire", "release", "join", "returned",
                                "unborn", "top", "test", "left", "ended"}]

\* What main() times is a release: when it acquires, the keeper has acquired in
\* the same iteration, and holds it still or has given it back.
MainTimesARelease ==
  rtPc[ReleaseMain] \in {"acquire", "release"} => rtPc[Keeper] \notin {"test", "acquire", "second"}

\* A keeper that ends in order leaves the device as it was, for the next phase.
DeviceIsBack ==
  rtPc[Keeper] = "ended" /\ rtPc[ReleaseMain] \notin {"acquire", "release"} =>
    id = 1 /\ rtMutex = NoThread

\* The only hang: the keeper reads the -1 that was meant for the test after the
\* barrier, at the end of a phase or before status is set to 1 again.
KeeperLeavesOnce ==
  Hung =>
    \/ rtPc[ReleaseMain] = "in_last"
    \/ rtPc[ReleaseMain] = "in_first" /\ rtI = 0 /\ ~ Now.status_first

EndsOrHangs == <>(rtPc[ReleaseMain] = "returned" \/ Hung)

\* The safety of semaphore_mutex_release.c: main() times a release, each phase finds the
\* device as the first did, and the keeper leaves too early only through status.
ReleaseInv == ReleaseTypeOK /\ MainTimesARelease /\ DeviceIsBack /\ KeeperLeavesOnce
-----------------------------------------------------------------------------

\* The start of a measurement and its end.
MeasuredInv == PerfInv /\ ReleaseInv
=============================================================================
