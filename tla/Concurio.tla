------------------------------ MODULE Concurio ------------------------------
(***************************************************************************)
(* Fixed/NoBug1/concurio.c: worker 0 leads the trials.  It waits until all *)
(* are alive, runs trial after trial and announces each; the others run a  *)
(* trial when it has been announced.  Worker 0 goes on until it has done   *)
(* its trials and is the only one alive.                                   *)
(*                                                                         *)
(* workers_alive is updated under worker_sync_lock, by a load and a store, *)
(* and read by worker 0 without it.  The files and their clock are         *)
(* external; times are left to Timing.                                     *)
(***************************************************************************)
EXTENDS Pthreads

CONSTANTS Worker, Worker0,    \* the threads; the one with id 0
          trials,
          MaxTrial            \* trials of worker 0 that are counted (a bound)

ASSUME ConcurioAssumption ==
  /\ IsFiniteSet(Worker) /\ Worker0 \in Worker /\ NoThread \notin Worker
  /\ trials \in Nat /\ MaxTrial \in Nat /\ MaxTrial >= trials

workers  == Cardinality(Worker)
Follower == Worker \ {Worker0}

VARIABLES worker_sync_t, workers_alive, worker_sync_lock, worker_sync_cond,
          coPc, coT, coReg   \* coT: t of the for loop; coReg: workers_alive, as loaded

concurioVars == <<worker_sync_t, workers_alive, worker_sync_lock, worker_sync_cond,
                  coPc, coT, coReg>>

ConcurioInit ==
  /\ worker_sync_t = -1 /\ workers_alive = 0
  /\ worker_sync_lock = NoThread /\ worker_sync_cond = {}
  /\ coPc = [w \in Worker |-> "start"]
  /\ coT = [w \in Worker |-> 0]
  /\ coReg = [w \in Worker |-> 0]

Goto(w, label) == coPc' = [coPc EXCEPT ![w] = label]
-----------------------------------------------------------------------------

\* workers_alive++ and workers_alive--, under the lock.
LoadAlive(w, here, there) ==
  /\ coPc[w] = here
  /\ Lock(worker_sync_lock, w)
  /\ coReg' = [coReg EXCEPT ![w] = workers_alive]
  /\ Goto(w, there)
  /\ UNCHANGED <<worker_sync_t, workers_alive, worker_sync_cond, coT>>

StoreAlive(w, here, change, there) ==
  /\ coPc[w] = here
  /\ workers_alive' = coReg[w] + change
  /\ Unlock(worker_sync_lock)
  /\ Goto(w, there)
  /\ UNCHANGED <<worker_sync_t, worker_sync_cond, coT, coReg>>

ComeAlive(w) == LoadAlive(w, "start", "started")
              \/ StoreAlive(w, "started", 1, IF w = Worker0 THEN "gather" ELSE "loop")
PassAway(w)  == LoadAlive(w, "leave", "leaving")
              \/ StoreAlive(w, "leaving", -1, "ended")
-----------------------------------------------------------------------------
\* BUG: worker 0 starts with whoever is there.
BugGather ==
  /\ coPc[Worker0] = "gather"
  /\ Goto(Worker0, "loop")
  /\ UNCHANGED <<worker_sync_t, workers_alive, worker_sync_lock, worker_sync_cond, coT, coReg>>

\* Worker 0 polls until everybody is alive.
Gather ==
  /\ coPc[Worker0] = "gather" /\ workers_alive >= workers
  /\ Goto(Worker0, "loop")
  /\ UNCHANGED <<worker_sync_t, workers_alive, worker_sync_lock, worker_sync_cond, coT, coReg>>

\* The head of the loop; worker 0 stops counting at MaxTrial.
LoopOfLeader ==
  /\ coPc[Worker0] = "loop"
  /\ IF coT[Worker0] >= trials /\ workers_alive = 1
     THEN Goto(Worker0, "leave")
     ELSE coT[Worker0] < MaxTrial /\ Goto(Worker0, "write")
  /\ UNCHANGED <<worker_sync_t, workers_alive, worker_sync_lock, worker_sync_cond, coT, coReg>>

LeaderGoesOn == coPc[Worker0] = "loop" /\ coT[Worker0] = MaxTrial /\ UNCHANGED concurioVars

LoopOfFollower(w) ==
  /\ coPc[w] = "loop" /\ w # Worker0
  /\ IF coT[w] >= trials
     THEN Goto(w, "leave") /\ UNCHANGED worker_sync_lock
     ELSE Lock(worker_sync_lock, w) /\ Goto(w, "test")
  /\ UNCHANGED <<worker_sync_t, workers_alive, worker_sync_cond, coT, coReg>>

Test(w) ==
  /\ coPc[w] = "test"
  /\ IF worker_sync_t < coT[w]
     THEN CondWait(worker_sync_cond, worker_sync_lock, w) /\ Goto(w, "wait")
     ELSE Unlock(worker_sync_lock) /\ Goto(w, "write") /\ UNCHANGED worker_sync_cond
  /\ UNCHANGED <<worker_sync_t, workers_alive, coT, coReg>>

WakeUp(w) ==
  /\ coPc[w] = "wait"
  /\ CondResume(worker_sync_cond, worker_sync_lock, w)
  /\ Goto(w, "test")
  /\ UNCHANGED <<worker_sync_t, workers_alive, worker_sync_cond, coT, coReg>>

\* The write and its time; a follower is done with the trial.
Write(w) ==
  /\ coPc[w] = "write"
  /\ IF w = Worker0 THEN Goto(w, "announce") /\ coT' = coT
              ELSE Goto(w, "loop") /\ coT' = [coT EXCEPT ![w] = @ + 1]
  /\ UNCHANGED <<worker_sync_t, workers_alive, worker_sync_lock, worker_sync_cond, coReg>>

\* BUG: the waiting workers are never told.
BugAnnounce ==
  /\ coPc[Worker0] = "announce" /\ worker_sync_lock = NoThread
  /\ worker_sync_t' = coT[Worker0]
  /\ UNCHANGED worker_sync_cond
  /\ coT' = [coT EXCEPT ![Worker0] = @ + 1]
  /\ Goto(Worker0, "loop")
  /\ UNCHANGED <<workers_alive, worker_sync_lock, coReg>>

Announce ==
  /\ coPc[Worker0] = "announce" /\ worker_sync_lock = NoThread
  /\ worker_sync_t' = coT[Worker0]
  /\ CondBroadcast(worker_sync_cond)
  /\ coT' = [coT EXCEPT ![Worker0] = @ + 1]
  /\ Goto(Worker0, "loop")
  /\ UNCHANGED <<workers_alive, worker_sync_lock, coReg>>
-----------------------------------------------------------------------------
worker_run(w) ==
  \/ ComeAlive(w) \/ PassAway(w) \/ Write(w)
  \/ w = Worker0 /\ (Gather \/ LoopOfLeader \/ Announce)
  \/ LoopOfFollower(w) \/ Test(w) \/ WakeUp(w)

SpuriousWakeup ==
  /\ Spurious(worker_sync_cond)
  /\ UNCHANGED <<worker_sync_t, workers_alive, worker_sync_lock, coPc, coT, coReg>>

\* main() has joined every worker.
AllEnded   == \A w \in Worker : coPc[w] = "ended"
Terminated == AllEnded /\ UNCHANGED concurioVars

ConcurioNext ==
  (\E w \in Worker : worker_run(w)) \/ LeaderGoesOn \/ SpuriousWakeup \/ Terminated

ConcurioSpec == ConcurioInit /\ [][ConcurioNext]_concurioVars

\* Strong fairness: worker 0 takes the lock again and again, and whoever waits
\* for it gets it eventually.
ConcurioFairSpec == ConcurioSpec /\ \A w \in Worker : SF_concurioVars(worker_run(w))
-----------------------------------------------------------------------------
ConcurioTypeOK ==
  /\ worker_sync_t \in -1 .. MaxTrial /\ workers_alive \in 0 .. workers
  /\ worker_sync_lock \in Worker \cup {NoThread} /\ worker_sync_cond \subseteq Worker
  /\ coPc \in [Worker -> {"start", "started", "gather", "loop", "test", "wait", "write",
                        "announce", "leave", "leaving", "ended"}]
  /\ coT \in [Worker -> 0 .. MaxTrial] /\ \A w \in Follower : coT[w] <= trials
  /\ coReg \in [Worker -> 0 .. workers]

\* The number worker 0 decides by, without the lock, is exact whenever nobody
\* is changing it.
AliveIsExact ==
  worker_sync_lock = NoThread =>
    workers_alive = Cardinality({w \in Worker : coPc[w] \notin {"start", "ended"}})

\* Worker 0 keeps announcing until every other has finished its trials: a
\* single worker counted alive is never one of the others.
LeaderLeavesLast ==
  coPc[Worker0] \in {"leave", "leaving", "ended"} => \A w \in Follower : coPc[w] = "ended"

\* A follower runs a trial only after worker 0 has run it.
LeaderWritesFirst == \A w \in Follower : coPc[w] = "write" => coT[w] < coT[Worker0]

\* No announcement is missed: all trials end and main() returns.
AllWorkersEnd == <>AllEnded

\* The safety of the workers of concurio.c: the number that worker 0 waits for is
\* exact, and worker 0 is first into and last out of every trial.
ConcurioInv == ConcurioTypeOK /\ AliveIsExact /\ LeaderLeavesLast /\ LeaderWritesFirst
=============================================================================
