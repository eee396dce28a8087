---------------------------- MODULE TotalsProofs ----------------------------
(***************************************************************************)
(* Proofs about the programs that share data, measure and count, for every *)
(* number of their threads and of what they work on.                       *)
(*                                                                         *)
(* Concurio and Timing, whatever the clocks say: ConcurioInv and           *)
(* ThrSleepInv are invariants of their programs, TimevalInv is one of a    *)
(* worker that has its start time for itself, and with them WorkersInv.    *)
(* What TimevalShared.cfg shows of two workers with one start time is why  *)
(* TimevalInv needs the hypothesis.                                        *)
(*                                                                         *)
(* BloomSet, whatever the filter says: BloomInv is an invariant of         *)
(* hashInvertM.c.                                                          *)
(*                                                                         *)
(* SharedData, for all of its programs: RecordsInv, ModeExtraInv,          *)
(* WordListsInv, HashTableInv and AnnouncementsInv are invariants, and     *)
(* with them SharedDataInv.                                                *)
(***************************************************************************)
EXTENDS Timing, BloomSet, SharedData, FiniteSetTheorems, TLAPS

\* concurio.c: who is counted as alive.
Alive == {w \in Worker : coPc[w] \notin {"start", "started", "ended"}}

ConcurioLabels == {"start", "started", "gather", "loop", "test", "wait", "write", "announce",
                   "leave", "leaving", "ended"}

\* The lock is held by the one that counts, or that tests worker_sync_t.
TrialLockInv ==
  /\ coPc \in [Worker -> ConcurioLabels]
  /\ worker_sync_lock \in Worker \cup {NoThread} /\ worker_sync_cond \subseteq Worker
  /\ \A w \in Worker : worker_sync_lock = w <=> coPc[w] \in {"started", "leaving", "test"}
  /\ \A w \in Follower : coPc[w] \notin {"gather", "announce"}
  /\ coPc[Worker0] \notin {"test", "wait"}

\* workers_alive is the number of those that are, and has not changed since it was loaded.
AliveInv ==
  /\ workers_alive = Cardinality(Alive)
  /\ coReg \in [Worker -> 0 .. workers]
  /\ \A w \in Worker : coPc[w] \in {"started", "leaving"} => coReg[w] = workers_alive

\* worker_sync_t is the last trial of worker 0; a follower that writes is not ahead of it.
TrialInv ==
  /\ coT \in [Worker -> 0 .. MaxTrial] /\ worker_sync_t = coT[Worker0] - 1
  /\ coPc[Worker0] \in {"write", "announce"} => coT[Worker0] < MaxTrial
  /\ \A w \in Follower :
       /\ coT[w] <= trials
       /\ coPc[w] \in {"test", "wait", "write"} => coT[w] < trials
       /\ coPc[w] = "write" => coT[w] <= worker_sync_t

\* Nobody comes after worker 0 has gathered all, and nobody is left when it leaves.
LeaderInv ==
  /\ coPc[Worker0] \notin {"start", "started", "gather"} =>
       \A w \in Worker : coPc[w] \notin {"start", "started"}
  /\ coPc[Worker0] \in {"leave", "leaving", "ended"} => \A w \in Follower : coPc[w] = "ended"

ConcurioIInv == TrialLockInv /\ AliveInv /\ TrialInv /\ LeaderInv

\* The number of the workers, and what is counted of them.
LEMMA WorkersAre ==
  /\ IsFiniteSet(Worker) /\ workers \in Nat \ {0} /\ Worker0 \in Worker /\ NoThread \notin Worker
  /\ trials \in Nat /\ MaxTrial \in Nat /\ trials <= MaxTrial /\ Follower = Worker \ {Worker0}
<1>1. IsFiniteSet(Worker) /\ Worker0 \in Worker BY ConcurioAssumption
<1>2. workers \in Nat BY <1>1, FS_CardinalityType DEF workers
<1>3. workers # 0 BY <1>1, FS_EmptySet DEF workers
<1>q. QED BY <1>1, <1>2, <1>3, ConcurioAssumption DEF Follower

\* All are alive when as many are as there are.
LEMMA AliveAll ==
  /\ IsFiniteSet(Alive) /\ Cardinality(Alive) \in 0 .. workers
  /\ Cardinality(Alive) >= workers => Alive = Worker
<1>1. Alive \subseteq Worker /\ IsFiniteSet(Worker) /\ workers \in Nat BY WorkersAre DEF Alive
<1>2. /\ IsFiniteSet(Alive) /\ Cardinality(Alive) <= Cardinality(Worker)
      /\ Cardinality(Alive) = Cardinality(Worker) => Alive = Worker
  BY <1>1, FS_Subset
<1>3. Cardinality(Alive) \in Nat BY <1>2, FS_CardinalityType
<1>q. QED BY <1>1, <1>2, <1>3 DEF workers

\* Worker 0 is alone when it is one that is alive.
LEMMA AliveAlone ==
  ASSUME Worker0 \in Alive, Cardinality(Alive) = 1
  PROVE  Alive = {Worker0}
<1>1. IsFiniteSet(Alive) /\ {Worker0} \subseteq Alive BY AliveAll
<1>2. Cardinality({Worker0}) = 1 BY FS_Singleton
<1>q. QED BY <1>1, <1>2, FS_Subset

\* The start of concurio.c.
LEMMA ConcurioStart == ConcurioInit => ConcurioIInv
<1> SUFFICES ASSUME ConcurioInit PROVE ConcurioIInv OBVIOUS
<1>n. /\ workers \in Nat /\ Worker0 \in Worker /\ NoThread \notin Worker /\ trials \in Nat
      /\ MaxTrial \in Nat /\ Follower \subseteq Worker
  BY WorkersAre
<1>e. /\ worker_sync_t = -1 /\ workers_alive = 0 /\ worker_sync_lock = NoThread
      /\ worker_sync_cond = {} /\ coPc = [w \in Worker |-> "start"]
      /\ coT = [w \in Worker |-> 0] /\ coReg = [w \in Worker |-> 0]
  BY DEF ConcurioInit
<1>1. TrialLockInv BY <1>n, <1>e DEF TrialLockInv, ConcurioLabels
<1>2. AliveInv
  <2>1. Alive = {} BY <1>e DEF Alive
  <2>2. Cardinality(Alive) = 0 BY <2>1, FS_EmptySet
  <2>3. coReg \in [Worker -> 0 .. workers] BY <1>n, <1>e
  <2>q. QED BY <1>e, <2>2, <2>3 DEF AliveInv
<1>3. TrialInv
  <2>1. coT \in [Worker -> 0 .. MaxTrial] BY <1>n, <1>e
  <2>2. coT[Worker0] = 0 /\ coPc[Worker0] = "start" BY <1>n, <1>e
  <2>3. \A w \in Follower : coT[w] = 0 /\ coPc[w] = "start" BY <1>n, <1>e
  <2>q. QED BY <1>n, <1>e, <2>1, <2>2, <2>3 DEF TrialInv
<1>4. LeaderInv
  <2>1. coPc[Worker0] = "start" BY <1>n, <1>e
  <2>q. QED BY <2>1 DEF LeaderInv
<1>q. QED BY <1>1, <1>2, <1>3, <1>4 DEF ConcurioIInv

\* A worker that begins loads workers_alive.
LEMMA ComesKeeps ==
  ASSUME ConcurioIInv, NEW w \in Worker, LoadAlive(w, "start", "started")
  PROVE  ConcurioIInv'
<1>a. TrialLockInv /\ AliveInv /\ TrialInv /\ LeaderInv BY DEF ConcurioIInv
<1>n. /\ Worker0 \in Worker /\ NoThread \notin Worker /\ Follower = Worker \ {Worker0}
      /\ coPc \in [Worker -> ConcurioLabels] /\ coPc[Worker0] \notin {"test", "wait"}
  BY <1>a, WorkersAre DEF TrialLockInv
<1>e. /\ coPc[w] = "start"
      /\ worker_sync_lock = NoThread /\ worker_sync_lock' = w
      /\ coReg' = [coReg EXCEPT ![w] = workers_alive]
      /\ worker_sync_t' = worker_sync_t /\ workers_alive' = workers_alive
      /\ worker_sync_cond' = worker_sync_cond /\ coT' = coT
  BY <1>n DEF LoadAlive, Lock
<1>p. /\ coPc' \in [Worker -> ConcurioLabels]
      /\ \A d \in Worker : coPc'[d] = IF d = w THEN "started" ELSE coPc[d]
  BY <1>n DEF LoadAlive, Goto, ConcurioLabels, Lock
<1>w. TrialLockInv' BY <1>a, <1>n, <1>e, <1>p DEF TrialLockInv
<1>x. AliveInv'
  <2>1. Alive' = Alive BY <1>n, <1>e, <1>p DEF Alive
  <2>2. workers_alive \in 0 .. workers BY <1>a, AliveAll DEF AliveInv
  <2>3. coReg' \in [Worker -> 0 .. workers] /\ coReg'[w] = workers_alive
    BY <1>a, <1>e, <2>2 DEF AliveInv
  <2>4. \A d \in Worker : coPc'[d] \in {"started", "leaving"} => d = w
    BY <1>a, <1>n, <1>e, <1>p DEF TrialLockInv
  <2>q. QED BY <1>a, <1>e, <2>1, <2>3, <2>4 DEF AliveInv
<1>y. TrialInv' BY <1>a, <1>n, <1>e, <1>p, WorkersAre DEF TrialInv, TrialLockInv
<1>z. LeaderInv' BY <1>a, <1>n, <1>e, <1>p DEF LeaderInv, TrialLockInv
<1>q. QED BY <1>w, <1>x, <1>y, <1>z DEF ConcurioIInv

\* One more is alive.
LEMMA IsAliveKeeps ==
  ASSUME ConcurioIInv, NEW w \in Worker,
         StoreAlive(w, "started", 1, IF w = Worker0 THEN "gather" ELSE "loop")
  PROVE  ConcurioIInv'
<1>a. TrialLockInv /\ AliveInv /\ TrialInv /\ LeaderInv BY DEF ConcurioIInv
<1>n. /\ Worker0 \in Worker /\ NoThread \notin Worker /\ Follower = Worker \ {Worker0}
      /\ coPc \in [Worker -> ConcurioLabels] /\ coPc[Worker0] \notin {"test", "wait"}
  BY <1>a, WorkersAre DEF TrialLockInv
<1>e. /\ coPc[w] = "started"
      /\ workers_alive' = coReg[w] + 1 /\ worker_sync_lock' = NoThread
      /\ worker_sync_t' = worker_sync_t /\ worker_sync_cond' = worker_sync_cond
      /\ coT' = coT /\ coReg' = coReg
  BY <1>n DEF StoreAlive, Unlock
<1>p. /\ coPc' \in [Worker -> ConcurioLabels]
      /\ \A d \in Worker : coPc'[d] =
           IF d # w THEN coPc[d] ELSE IF w = Worker0 THEN "gather" ELSE "loop"
  BY <1>n DEF StoreAlive, Goto, ConcurioLabels, Unlock
<1>w. TrialLockInv' BY <1>a, <1>n, <1>e, <1>p DEF TrialLockInv
<1>x. AliveInv'
  <2>1. Alive' = Alive \cup {w} /\ w \notin Alive BY <1>n, <1>e, <1>p DEF Alive
  <2>2. IsFiniteSet(Alive) /\ Cardinality(Alive) = coReg[w] /\ coReg[w] = workers_alive
    BY <1>a, <1>e, AliveAll DEF AliveInv
  <2>3. Cardinality(Alive') = workers_alive + 1 BY <2>1, <2>2, AliveAll, FS_AddElement
  <2>4. \A d \in Worker : coPc'[d] \notin {"started", "leaving"}
    BY <1>a, <1>n, <1>e, <1>p DEF TrialLockInv
  <2>q. QED BY <1>a, <1>e, <2>2, <2>3, <2>4 DEF AliveInv
<1>y. TrialInv' BY <1>a, <1>n, <1>e, <1>p, WorkersAre DEF TrialInv, TrialLockInv
<1>z. LeaderInv' BY <1>a, <1>n, <1>e, <1>p DEF LeaderInv, TrialLockInv
<1>q. QED BY <1>w, <1>x, <1>y, <1>z DEF ConcurioIInv

\* A worker that has done its trials loads workers_alive again.
LEMMA LeavesKeeps ==
  ASSUME ConcurioIInv, NEW w \in Worker, LoadAlive(w, "leave", "leaving")
  PROVE  ConcurioIInv'
<1>a. TrialLockInv /\ AliveInv /\ TrialInv /\ LeaderInv BY DEF ConcurioIInv
<1>n. /\ Worker0 \in Worker /\ NoThread \notin Worker /\ Follower = Worker \ {Worker0}
      /\ coPc \in [Worker -> ConcurioLabels] /\ coPc[Worker0] \notin {"test", "wait"}
  BY <1>a, WorkersAre DEF TrialLockInv
<1>e. /\ coPc[w] = "leave"
      /\ worker_sync_lock = NoThread /\ worker_sync_lock' = w
      /\ coReg' = [coReg EXCEPT ![w] = workers_alive]
      /\ worker_sync_t' = worker_sync_t /\ workers_alive' = workers_alive
      /\ worker_sync_cond' = worker_sync_cond /\ coT' = coT
  BY <1>n DEF LoadAlive, Lock
<1>p. /\ coPc' \in [Worker -> ConcurioLabels]
      /\ \A d \in Worker : coPc'[d] = IF d = w THEN "leaving" ELSE coPc[d]
  BY <1>n DEF LoadAlive, Goto, ConcurioLabels, Lock
<1>w. TrialLockInv' BY <1>a, <1>n, <1>e, <1>p DEF TrialLockInv
<1>x. AliveInv'
  <2>1. Alive' = Alive BY <1>n, <1>e, <1>p DEF Alive
  <2>2. workers_alive \in 0 .. workers BY <1>a, AliveAll DEF AliveInv
  <2>3. coReg' \in [Worker -> 0 .. workers] /\ coReg'[w] = workers_alive
    BY <1>a, <1>e, <2>2 DEF AliveInv
  <2>4. \A d \in Worker : coPc'[d] \in {"started", "leaving"} => d = w
    BY <1>a, <1>n, <1>e, <1>p DEF TrialLockInv
  <2>q. QED BY <1>a, <1>e, <2>1, <2>3, <2>4 DEF AliveInv
<1>y. TrialInv' BY <1>a, <1>n, <1>e, <1>p, WorkersAre DEF TrialInv, TrialLockInv
<1>z. LeaderInv' BY <1>a, <1>n, <1>e, <1>p DEF LeaderInv, TrialLockInv
<1>q. QED BY <1>w, <1>x, <1>y, <1>z DEF ConcurioIInv

\* One less is alive.
LEMMA HasLeftKeeps ==
  ASSUME ConcurioIInv, NEW w \in Worker, StoreAlive(w, "leaving", -1, "ended")
  PROVE  ConcurioIInv'
<1>a. TrialLockInv /\ AliveInv /\ TrialInv /\ LeaderInv BY DEF ConcurioIInv
<1>n. /\ Worker0 \in Worker /\ NoThread \notin Worker /\ Follower = Worker \ {Worker0}
      /\ coPc \in [Worker -> ConcurioLabels] /\ coPc[Worker0] \notin {"test", "wait"}
  BY <1>a, WorkersAre DEF TrialLockInv
<1>e. /\ coPc[w] = "leaving"
      /\ workers_alive' = coReg[w] - 1 /\ worker_sync_lock' = NoThread
      /\ worker_sync_t' = worker_sync_t /\ worker_sync_cond' = worker_sync_cond
      /\ coT' = coT /\ coReg' = coReg
  BY <1>n DEF StoreAlive, Unlock
<1>p. /\ coPc' \in [Worker -> ConcurioLabels]
      /\ \A d \in Worker : coPc'[d] = IF d = w THEN "ended" ELSE coPc[d]
  BY <1>n DEF StoreAlive, Goto, ConcurioLabels, Unlock
<1>w. TrialLockInv' BY <1>a, <1>n, <1>e, <1>p DEF TrialLockInv
<1>x. AliveInv'
  <2>1. Alive' = Alive \ {w} /\ w \in Alive BY <1>n, <1>e, <1>p DEF Alive
  <2>2. IsFiniteSet(Alive) /\ Cardinality(Alive) = coReg[w] /\ coReg[w] = workers_alive
    BY <1>a, <1>e, AliveAll DEF AliveInv
  <2>3. Cardinality(Alive') = workers_alive - 1 BY <2>1, <2>2, AliveAll, FS_RemoveElement
  <2>4. \A d \in Worker : coPc'[d] \notin {"started", "leaving"}
    BY <1>a, <1>n, <1>e, <1>p DEF TrialLockInv
  <2>q. QED BY <1>a, <1>e, <2>2, <2>3, <2>4 DEF AliveInv
<1>y. TrialInv' BY <1>a, <1>n, <1>e, <1>p, WorkersAre DEF TrialInv, TrialLockInv
<1>z. LeaderInv' BY <1>a, <1>n, <1>e, <1>p DEF LeaderInv, TrialLockInv
<1>q. QED BY <1>w, <1>x, <1>y, <1>z DEF ConcurioIInv

\* Worker 0 goes on when all are alive.
LEMMA GatherKeeps ==
  ASSUME ConcurioIInv, Gather
  PROVE  ConcurioIInv'
<1>a. TrialLockInv /\ AliveInv /\ TrialInv /\ LeaderInv BY DEF ConcurioIInv
<1>n. /\ Worker0 \in Worker /\ NoThread \notin Worker /\ Follower = Worker \ {Worker0}
      /\ coPc \in [Worker -> ConcurioLabels] /\ coPc[Worker0] \notin {"test", "wait"}
  BY <1>a, WorkersAre DEF TrialLockInv
<1>e. /\ coPc[Worker0] = "gather"
      /\ workers_alive >= workers
      /\ worker_sync_t' = worker_sync_t /\ workers_alive' = workers_alive
      /\ worker_sync_lock' = worker_sync_lock /\ worker_sync_cond' = worker_sync_cond
      /\ coT' = coT /\ coReg' = coReg
  BY <1>n DEF Gather
<1>p. /\ coPc' \in [Worker -> ConcurioLabels]
      /\ \A d \in Worker : coPc'[d] = IF d = Worker0 THEN "loop" ELSE coPc[d]
  BY <1>n DEF Gather, Goto, ConcurioLabels
<1>l. \A w \in Worker : coPc[w] \notin {"start", "started"}
  BY <1>a, <1>e, AliveAll DEF AliveInv, Alive
<1>w. TrialLockInv' BY <1>a, <1>n, <1>e, <1>p DEF TrialLockInv
<1>x. AliveInv'
  <2>1. Alive' = Alive BY <1>n, <1>e, <1>p DEF Alive
  <2>q. QED BY <1>a, <1>n, <1>e, <1>p, <2>1 DEF AliveInv
<1>y. TrialInv' BY <1>a, <1>n, <1>e, <1>p, WorkersAre DEF TrialInv, TrialLockInv
<1>z. LeaderInv' BY <1>a, <1>n, <1>e, <1>p, <1>l DEF LeaderInv
<1>q. QED BY <1>w, <1>x, <1>y, <1>z DEF ConcurioIInv

\* Worker 0 leaves as the last, or writes one of the trials that are counted.
LEMMA LeaderLoopKeeps ==
  ASSUME ConcurioIInv, LoopOfLeader
  PROVE  ConcurioIInv'
<1>a. TrialLockInv /\ AliveInv /\ TrialInv /\ LeaderInv BY DEF ConcurioIInv
<1>n. /\ Worker0 \in Worker /\ NoThread \notin Worker /\ Follower = Worker \ {Worker0}
      /\ coPc \in [Worker -> ConcurioLabels] /\ coPc[Worker0] \notin {"test", "wait"}
  BY <1>a, WorkersAre DEF TrialLockInv
<1>e. /\ coPc[Worker0] = "loop"
      /\ (coT[Worker0] >= trials /\ workers_alive = 1) \/ coT[Worker0] < MaxTrial
      /\ worker_sync_t' = worker_sync_t /\ workers_alive' = workers_alive
      /\ worker_sync_lock' = worker_sync_lock /\ worker_sync_cond' = worker_sync_cond
      /\ coT' = coT /\ coReg' = coReg
  BY <1>n DEF LoopOfLeader
<1>p. /\ coPc' \in [Worker -> ConcurioLabels]
      /\ \A d \in Worker : coPc'[d] =
           IF d # Worker0 THEN coPc[d]
           ELSE IF coT[Worker0] >= trials /\ workers_alive = 1 THEN "leave" ELSE "write"
  BY <1>n DEF LoopOfLeader, Goto, ConcurioLabels
<1>w. TrialLockInv' BY <1>a, <1>n, <1>e, <1>p DEF TrialLockInv
<1>x. AliveInv'
  <2>1. Alive' = Alive BY <1>n, <1>e, <1>p DEF Alive
  <2>q. QED BY <1>a, <1>n, <1>e, <1>p, <2>1 DEF AliveInv
<1>y. TrialInv' BY <1>a, <1>n, <1>e, <1>p, WorkersAre DEF TrialInv, TrialLockInv
<1>z. LeaderInv'
  <2>1. CASE workers_alive = 1
    <3>1. Alive = {Worker0} BY <1>a, <1>n, <1>e, <2>1, AliveAlone DEF AliveInv, Alive
    <3>2. \A w \in Follower : coPc[w] = "ended" BY <1>a, <1>n, <1>e, <3>1 DEF LeaderInv, Alive
    <3>q. QED BY <1>a, <1>n, <1>e, <1>p, <3>2 DEF LeaderInv
  <2>2. CASE workers_alive # 1 BY <1>a, <1>n, <1>e, <1>p, <2>2 DEF LeaderInv
  <2>q. QED BY <2>1, <2>2
<1>q. QED BY <1>w, <1>x, <1>y, <1>z DEF ConcurioIInv

\* A follower takes the lock while it has trials to do.
LEMMA FollowerLoopKeeps ==
  ASSUME ConcurioIInv, NEW w \in Worker, LoopOfFollower(w)
  PROVE  ConcurioIInv'
<1>a. TrialLockInv /\ AliveInv /\ TrialInv /\ LeaderInv BY DEF ConcurioIInv
<1>n. /\ Worker0 \in Worker /\ NoThread \notin Worker /\ Follower = Worker \ {Worker0}
      /\ coPc \in [Worker -> ConcurioLabels] /\ coPc[Worker0] \notin {"test", "wait"}
  BY <1>a, WorkersAre DEF TrialLockInv
<1>e. /\ coPc[w] = "loop"
      /\ w # Worker0
      /\ IF coT[w] >= trials THEN worker_sync_lock' = worker_sync_lock
         ELSE worker_sync_lock = NoThread /\ worker_sync_lock' = w
      /\ worker_sync_t' = worker_sync_t /\ workers_alive' = workers_alive
      /\ worker_sync_cond' = worker_sync_cond /\ coT' = coT /\ coReg' = coReg
  BY <1>n DEF LoopOfFollower, Lock
<1>p. /\ coPc' \in [Worker -> ConcurioLabels]
      /\ \A d \in Worker : coPc'[d] =
           IF d # w THEN coPc[d] ELSE IF coT[w] >= trials THEN "leave" ELSE "test"
  BY <1>n DEF LoopOfFollower, Goto, ConcurioLabels, Lock
<1>w. TrialLockInv' BY <1>a, <1>n, <1>e, <1>p DEF TrialLockInv
<1>x. AliveInv'
  <2>1. Alive' = Alive BY <1>n, <1>e, <1>p DEF Alive
  <2>q. QED BY <1>a, <1>n, <1>e, <1>p, <2>1 DEF AliveInv
<1>y. TrialInv' BY <1>a, <1>n, <1>e, <1>p, WorkersAre DEF TrialInv, TrialLockInv
<1>z. LeaderInv' BY <1>a, <1>n, <1>e, <1>p DEF LeaderInv, TrialLockInv
<1>q. QED BY <1>w, <1>x, <1>y, <1>z DEF ConcurioIInv

\* It writes if its trial has been announced, or else sleeps.
LEMMA TestKeeps ==
  ASSUME ConcurioIInv, NEW w \in Worker, Test(w)
  PROVE  ConcurioIInv'
<1>a. TrialLockInv /\ AliveInv /\ TrialInv /\ LeaderInv BY DEF ConcurioIInv
<1>n. /\ Worker0 \in Worker /\ NoThread \notin Worker /\ Follower = Worker \ {Worker0}
      /\ coPc \in [Worker -> ConcurioLabels] /\ coPc[Worker0] \notin {"test", "wait"}
  BY <1>a, WorkersAre DEF TrialLockInv
<1>e. /\ coPc[w] = "test"
      /\ worker_sync_lock' = NoThread /\ worker_sync_cond' \subseteq worker_sync_cond \cup {w}
      /\ w # Worker0
      /\ worker_sync_t' = worker_sync_t /\ workers_alive' = workers_alive /\ coT' = coT
      /\ coReg' = coReg
  BY <1>n DEF Test, CondWait, Unlock
<1>p. /\ coPc' \in [Worker -> ConcurioLabels]
      /\ \A d \in Worker : coPc'[d] =
           IF d # w THEN coPc[d] ELSE IF worker_sync_t < coT[w] THEN "wait" ELSE "write"
  BY <1>n DEF Test, Goto, ConcurioLabels, CondWait, Unlock
<1>w. TrialLockInv' BY <1>a, <1>n, <1>e, <1>p DEF TrialLockInv
<1>x. AliveInv'
  <2>1. Alive' = Alive BY <1>n, <1>e, <1>p DEF Alive
  <2>q. QED BY <1>a, <1>n, <1>e, <1>p, <2>1 DEF AliveInv
<1>y. TrialInv' BY <1>a, <1>n, <1>e, <1>p, WorkersAre DEF TrialInv, TrialLockInv
<1>z. LeaderInv' BY <1>a, <1>n, <1>e, <1>p DEF LeaderInv, TrialLockInv
<1>q. QED BY <1>w, <1>x, <1>y, <1>z DEF ConcurioIInv

\* Awake, it tests again.
LEMMA TrialWakeKeeps ==
  ASSUME ConcurioIInv, NEW w \in Worker, WakeUp(w)
  PROVE  ConcurioIInv'
<1>a. TrialLockInv /\ AliveInv /\ TrialInv /\ LeaderInv BY DEF ConcurioIInv
<1>n. /\ Worker0 \in Worker /\ NoThread \notin Worker /\ Follower = Worker \ {Worker0}
      /\ coPc \in [Worker -> ConcurioLabels] /\ coPc[Worker0] \notin {"test", "wait"}
  BY <1>a, WorkersAre DEF TrialLockInv
<1>e. /\ coPc[w] = "wait"
      /\ worker_sync_lock = NoThread /\ worker_sync_lock' = w /\ w # Worker0
      /\ worker_sync_t' = worker_sync_t /\ workers_alive' = workers_alive
      /\ worker_sync_cond' = worker_sync_cond /\ coT' = coT /\ coReg' = coReg
  BY <1>n DEF WakeUp, CondResume
<1>p. /\ coPc' \in [Worker -> ConcurioLabels]
      /\ \A d \in Worker : coPc'[d] = IF d = w THEN "test" ELSE coPc[d]
  BY <1>n DEF WakeUp, Goto, ConcurioLabels, CondResume
<1>w. TrialLockInv' BY <1>a, <1>n, <1>e, <1>p DEF TrialLockInv
<1>x. AliveInv'
  <2>1. Alive' = Alive BY <1>n, <1>e, <1>p DEF Alive
  <2>q. QED BY <1>a, <1>n, <1>e, <1>p, <2>1 DEF AliveInv
<1>y. TrialInv' BY <1>a, <1>n, <1>e, <1>p, WorkersAre DEF TrialInv, TrialLockInv
<1>z. LeaderInv' BY <1>a, <1>n, <1>e, <1>p DEF LeaderInv, TrialLockInv
<1>q. QED BY <1>w, <1>x, <1>y, <1>z DEF ConcurioIInv

\* A trial is written.
LEMMA WriteKeeps ==
  ASSUME ConcurioIInv, NEW w \in Worker, Write(w)
  PROVE  ConcurioIInv'
<1>a. TrialLockInv /\ AliveInv /\ TrialInv /\ LeaderInv BY DEF ConcurioIInv
<1>n. /\ Worker0 \in Worker /\ NoThread \notin Worker /\ Follower = Worker \ {Worker0}
      /\ coPc \in [Worker -> ConcurioLabels] /\ coPc[Worker0] \notin {"test", "wait"}
  BY <1>a, WorkersAre DEF TrialLockInv
<1>e. /\ coPc[w] = "write"
      /\ coT' = IF w = Worker0 THEN coT ELSE [coT EXCEPT ![w] = coT[w] + 1]
      /\ worker_sync_t' = worker_sync_t /\ workers_alive' = workers_alive
      /\ worker_sync_lock' = worker_sync_lock /\ worker_sync_cond' = worker_sync_cond
      /\ coReg' = coReg
  BY <1>n DEF Write
<1>p. /\ coPc' \in [Worker -> ConcurioLabels]
      /\ \A d \in Worker : coPc'[d] =
           IF d # w THEN coPc[d] ELSE IF w = Worker0 THEN "announce" ELSE "loop"
  BY <1>n DEF Write, Goto, ConcurioLabels
<1>w. TrialLockInv' BY <1>a, <1>n, <1>e, <1>p DEF TrialLockInv
<1>x. AliveInv'
  <2>1. Alive' = Alive BY <1>n, <1>e, <1>p DEF Alive
  <2>q. QED BY <1>a, <1>n, <1>e, <1>p, <2>1 DEF AliveInv
<1>y. TrialInv' BY <1>a, <1>n, <1>e, <1>p, WorkersAre DEF TrialInv, TrialLockInv
<1>z. LeaderInv' BY <1>a, <1>n, <1>e, <1>p DEF LeaderInv, TrialLockInv
<1>q. QED BY <1>w, <1>x, <1>y, <1>z DEF ConcurioIInv

\* Worker 0 announces its trial.
LEMMA AnnounceKeeps ==
  ASSUME ConcurioIInv, Announce
  PROVE  ConcurioIInv'
<1>a. TrialLockInv /\ AliveInv /\ TrialInv /\ LeaderInv BY DEF ConcurioIInv
<1>n. /\ Worker0 \in Worker /\ NoThread \notin Worker /\ Follower = Worker \ {Worker0}
      /\ coPc \in [Worker -> ConcurioLabels] /\ coPc[Worker0] \notin {"test", "wait"}
  BY <1>a, WorkersAre DEF TrialLockInv
<1>e. /\ coPc[Worker0] = "announce"
      /\ worker_sync_t' = coT[Worker0] /\ worker_sync_cond' = {}
      /\ coT' = [coT EXCEPT ![Worker0] = coT[Worker0] + 1]
      /\ workers_alive' = workers_alive /\ worker_sync_lock' = worker_sync_lock
      /\ coReg' = coReg
  BY <1>n DEF Announce, CondBroadcast
<1>p. /\ coPc' \in [Worker -> ConcurioLabels]
      /\ \A d \in Worker : coPc'[d] = IF d = Worker0 THEN "loop" ELSE coPc[d]
  BY <1>n DEF Announce, Goto, ConcurioLabels, CondBroadcast
<1>w. TrialLockInv' BY <1>a, <1>n, <1>e, <1>p DEF TrialLockInv
<1>x. AliveInv'
  <2>1. Alive' = Alive BY <1>n, <1>e, <1>p DEF Alive
  <2>q. QED BY <1>a, <1>n, <1>e, <1>p, <2>1 DEF AliveInv
<1>y. TrialInv' BY <1>a, <1>n, <1>e, <1>p, WorkersAre DEF TrialInv, TrialLockInv
<1>z. LeaderInv' BY <1>a, <1>n, <1>e, <1>p DEF LeaderInv, TrialLockInv
<1>q. QED BY <1>w, <1>x, <1>y, <1>z DEF ConcurioIInv

\* concurio.c: worker 0 is first into and last out of every trial, for every number of workers
\* and of trials.
THEOREM TrialsAreLed == ConcurioSpec => []ConcurioInv
<1>1. ConcurioInit => ConcurioIInv BY ConcurioStart
<1>2. ConcurioIInv /\ [ConcurioNext]_concurioVars => ConcurioIInv'
  <2> SUFFICES ASSUME ConcurioIInv, [ConcurioNext]_concurioVars PROVE ConcurioIInv' OBVIOUS
  <2>1. CASE UNCHANGED concurioVars
    BY <2>1 DEF concurioVars, ConcurioIInv, TrialLockInv, AliveInv, Alive, TrialInv, LeaderInv
  <2>2. ASSUME NEW w \in Worker, worker_run(w) PROVE ConcurioIInv'
    BY <2>2, ComesKeeps, IsAliveKeeps, LeavesKeeps, HasLeftKeeps, GatherKeeps, LeaderLoopKeeps,
       FollowerLoopKeeps, TestKeeps, TrialWakeKeeps, WriteKeeps, AnnounceKeeps
    DEF worker_run, ComeAlive, PassAway
  <2>3. CASE SpuriousWakeup
    <3>1. /\ worker_sync_cond' \subseteq worker_sync_cond /\ worker_sync_t' = worker_sync_t
          /\ workers_alive' = workers_alive /\ worker_sync_lock' = worker_sync_lock
          /\ coPc' = coPc /\ coT' = coT /\ coReg' = coReg /\ Alive' = Alive
      BY <2>3 DEF SpuriousWakeup, Spurious, Alive
    <3>q. QED BY <3>1 DEF ConcurioIInv, TrialLockInv, AliveInv, TrialInv, LeaderInv
  <2>q. QED BY <2>1, <2>2, <2>3 DEF ConcurioNext, LeaderGoesOn, Terminated
<1>3. ConcurioIInv => ConcurioInv
  <2> SUFFICES ASSUME ConcurioIInv PROVE ConcurioInv OBVIOUS
  <2>a. TrialLockInv /\ AliveInv /\ TrialInv /\ LeaderInv BY DEF ConcurioIInv
  <2>1. ConcurioTypeOK
    <3>1. workers_alive \in 0 .. workers BY <2>a, AliveAll DEF AliveInv
    <3>2. worker_sync_t \in -1 .. MaxTrial BY <2>a, WorkersAre DEF TrialInv
    <3>q. QED
      BY <2>a, <3>1, <3>2, WorkersAre
      DEF ConcurioTypeOK, TrialLockInv, AliveInv, TrialInv, ConcurioLabels
  <2>2. AliveIsExact
    <3> SUFFICES ASSUME worker_sync_lock = NoThread
                 PROVE  workers_alive
                          = Cardinality({w \in Worker : coPc[w] \notin {"start", "ended"}})
      BY DEF AliveIsExact
    <3>1. \A w \in Worker : coPc[w] # "started" BY <2>a, WorkersAre DEF TrialLockInv
    <3>2. {w \in Worker : coPc[w] \notin {"start", "ended"}} = Alive BY <3>1 DEF Alive
    <3>q. QED BY <2>a, <3>2 DEF AliveInv
  <2>3. LeaderLeavesLast BY <2>a DEF LeaderLeavesLast, LeaderInv
  <2>4. LeaderWritesFirst BY <2>a, WorkersAre DEF LeaderWritesFirst, TrialInv
  <2>q. QED BY <2>1, <2>2, <2>3, <2>4 DEF ConcurioInv
<1>q. QED BY <1>1, <1>2, <1>3, PTL DEF ConcurioSpec
-----------------------------------------------------------------------------

\* timeval_subtract: y as it was given, and with a second moved to its microseconds.
Given == start
Moved == [sec |-> start.sec + 1, usec |-> start.usec - Micro]

\* A worker that has y for itself finds it in one of the two forms, and one step from one
\* to the other in between.
TimevalFormInv ==
  \A w \in TimeWorker :
    /\ tvPc[w] = "test_borrow" => y \in {Given, Moved}
    /\ tvPc[w] = "borrow" => y = Given /\ nsec[w] = 1 /\ x[w].usec < start.usec
    /\ tvPc[w] = "borrowed" => y = [Moved EXCEPT !.sec = start.sec] /\ nsec[w] = 1
                               /\ x[w].usec < start.usec
    /\ tvPc[w] = "test_carry" =>
         \/ y = Given /\ x[w].usec >= start.usec
         \/ y = Moved
    /\ tvPc[w] = "carry" => y = Moved /\ nsec[w] = 1 /\ x[w].usec >= start.usec
    /\ tvPc[w] = "carried" => y = [Given EXCEPT !.sec = start.sec + 1] /\ nsec[w] = 1
                              /\ x[w].usec >= start.usec
    /\ tvPc[w] = "subtract" =>
         \/ y = Given /\ x[w].usec >= start.usec
         \/ y = Moved /\ x[w].usec - y.usec \in 0 .. Micro
    /\ tvPc[w] = "done" => y \in {Given, Moved}

TimevalIInv == TimevalInv /\ TimevalFormInv

\* The worker that measures alone, and what its y may be.
MeasuresAlone == \A v, w \in TimeWorker : v = w

TimevalLabels == {"test_borrow", "borrow", "borrowed", "test_carry", "carry", "carried", "subtract",
                  "done"}

\* No whole second, and one.
LEMMA WholeSeconds ==
  ASSUME NEW k \in Nat \ {0}, NEW d \in Int
  PROVE  /\ d \in 0 .. k - 1 => d \div k = 0
         /\ d \in k .. 2 * k - 1 => d \div k = 1
<1>1. d \in 0 .. k - 1 => d \div k = 0 BY SMTT(60)
<1>2. d \in k .. 2 * k - 1 => d \div k = 1 BY SMTT(60)
<1>q. QED BY <1>1, <1>2

\* The instant of a difference.
LEMMA DifferenceOfInstants ==
  ASSUME NEW a \in Int, NEW b \in Int, NEW c \in Int, NEW d \in Int
  PROVE  Instant([sec |-> a - c, usec |-> b - d])
           = Instant([sec |-> a, usec |-> b]) - Instant([sec |-> c, usec |-> d])
<1>1. Micro \in Nat BY TimevalAssumption
<1>2. (a - c) * Micro = a * Micro - c * Micro BY <1>1
<1>3. a * Micro \in Int /\ c * Micro \in Int /\ (a - c) * Micro \in Int BY <1>1
<1>q. QED BY <1>1, <1>2, <1>3 DEF Instant

\* An instant with a second moved to its microseconds.
LEMMA MovedInstant ==
  ASSUME NEW a \in Int, NEW b \in Int
  PROVE  Instant([sec |-> a + 1, usec |-> b - Micro]) = Instant([sec |-> a, usec |-> b])
<1>1. Micro \in Nat BY TimevalAssumption
<1>2. (a + 1) * Micro = a * Micro + Micro BY <1>1
<1>3. a * Micro \in Int /\ (a + 1) * Micro \in Int BY <1>1
<1>q. QED BY <1>1, <1>2, <1>3 DEF Instant

\* The two forms of y.
LEMMA FormsAre ==
  ASSUME start \in StartTimes
  PROVE  /\ start = [sec |-> start.sec, usec |-> start.usec]
         /\ start.sec \in Nat /\ start.usec \in 0 .. Micro - 1 /\ Micro \in Nat \ {0}
         /\ {Given, Moved} \subseteq [sec : Nat, usec : Int]
         /\ Instant(Given) = Instant(start) /\ Instant(Moved) = Instant(start)
<1>1. /\ start \in [sec : Nat, usec : 0 .. Micro - 1] /\ Micro \in Nat \ {0}
  BY TimevalAssumption
<1>2. /\ start = [sec |-> start.sec, usec |-> start.usec]
      /\ start.sec \in Nat /\ start.usec \in 0 .. Micro - 1 /\ Micro \in Nat \ {0}
  BY <1>1
<1>3. {Given, Moved} \subseteq [sec : Nat, usec : Int] BY <1>2 DEF Given, Moved
<1>4. Instant(Moved) = Instant(start)
  <2> DEFINE a == start.sec
             b == start.usec
  <2>1. a \in Int /\ b \in Int /\ start = [sec |-> a, usec |-> b] BY <1>2
  <2>2. Moved = [sec |-> a + 1, usec |-> b - Micro] BY DEF Moved
  <2> HIDE DEF a, b
  <2>3. Instant([sec |-> a + 1, usec |-> b - Micro]) = Instant([sec |-> a, usec |-> b])
    BY <2>1, MovedInstant
  <2>q. QED BY <2>1, <2>2, <2>3
<1>q. QED BY <1>2, <1>3, <1>4 DEF Given

\* The start of a measurement.
LEMMA TimevalStart == TimevalInit => TimevalIInv
<1> SUFFICES ASSUME TimevalInit PROVE TimevalIInv OBVIOUS
<1>e. /\ start \in StartTimes /\ y = start
      /\ x \in [TimeWorker -> Times] /\ nsec = [w \in TimeWorker |-> 0]
      /\ tvResult = [w \in TimeWorker |-> [sec |-> 0, usec |-> 0]]
      /\ tvPc = [w \in TimeWorker |-> "test_borrow"]
  BY DEF TimevalInit
<1>1. TimevalTypeOK BY <1>e, FormsAre DEF TimevalTypeOK, Given
<1>2. \A w \in TimeWorker : tvPc[w] = "test_borrow" BY <1>e
<1>3. DifferenceIsRight /\ MicrosecondsAreNotNegative
  BY <1>2 DEF DifferenceIsRight, MicrosecondsAreNotNegative
<1>4. TimevalFormInv BY <1>e, <1>2 DEF TimevalFormInv, Given
<1>q. QED BY <1>1, <1>3, <1>4 DEF TimevalIInv, TimevalInv

\* There is one second to borrow, if any.
LEMMA TestBorrowKeeps ==
  ASSUME MeasuresAlone, TimevalIInv, NEW w \in TimeWorker, TestBorrow(w)
  PROVE  TimevalIInv'
<1>a. TimevalTypeOK /\ TimevalFormInv BY DEF TimevalIInv, TimevalInv
<1>n. /\ \A v \in TimeWorker : v = w
      /\ start.sec \in Nat /\ start.usec \in 0 .. Micro - 1 /\ Micro \in Nat \ {0}
      /\ start = [sec |-> start.sec, usec |-> start.usec]
      /\ {Given, Moved} \subseteq [sec : Nat, usec : Int]
      /\ x[w].sec \in Nat /\ x[w].usec \in 0 .. Micro - 1 /\ x[w] \in Times
      /\ y \in [sec : Nat, usec : Int] /\ tvPc \in [TimeWorker -> TimevalLabels]
      /\ nsec \in [TimeWorker -> Nat] /\ x \in [TimeWorker -> Times]
  BY <1>a, FormsAre, TimevalAssumption DEF MeasuresAlone, TimevalTypeOK, TimevalLabels
<1>e. /\ tvPc[w] = "test_borrow"
      /\ nsec' = IF x[w].usec < y.usec
               THEN [nsec EXCEPT ![w] = (y.usec - x[w].usec) \div Micro + 1] ELSE nsec
      /\ start' = start /\ y' = y /\ x' = x /\ tvResult' = tvResult
  BY <1>n DEF TestBorrow
<1>p. tvPc' \in [TimeWorker -> TimevalLabels]
      /\ tvPc'[w] = (IF x[w].usec < y.usec THEN "borrow" ELSE "test_carry")
  BY <1>n DEF TestBorrow, TimevalGoto, TimevalLabels
<1>x. DifferenceIsRight' /\ MicrosecondsAreNotNegative'
  BY <1>n, <1>p DEF DifferenceIsRight, MicrosecondsAreNotNegative
<1>f. y \in {Given, Moved} BY <1>a, <1>e DEF TimevalFormInv
<1>g. CASE x[w].usec < y.usec
  <2>1. y = Given /\ y.usec - x[w].usec \in 0 .. Micro - 1 BY <1>n, <1>f, <1>g DEF Given, Moved
  <2>2. (y.usec - x[w].usec) \div Micro = 0 BY <1>n, <2>1, WholeSeconds
  <2>3. nsec' \in [TimeWorker -> Nat] /\ nsec'[w] = 1 BY <1>n, <1>e, <1>g, <2>2
  <2>4. TimevalTypeOK' BY <1>a, <1>n, <1>e, <1>p, <2>3 DEF TimevalTypeOK, TimevalLabels
  <2>5. TimevalFormInv' BY <1>n, <1>e, <1>p, <1>g, <2>1, <2>3 DEF TimevalFormInv, Given
  <2>q. QED BY <1>x, <2>4, <2>5 DEF TimevalIInv, TimevalInv
<1>h. CASE ~ (x[w].usec < y.usec)
  <2>1. TimevalTypeOK' BY <1>a, <1>n, <1>e, <1>p, <1>h DEF TimevalTypeOK, TimevalLabels
  <2>3. tvPc'[w] = "test_carry" BY <1>p, <1>h
  <2>4. (y = Given /\ x[w].usec >= start.usec) \/ y = Moved BY <1>n, <1>f, <1>h DEF Given
  <2>5. Given' = Given /\ Moved' = Moved BY <1>e DEF Given, Moved
  <2>2. TimevalFormInv' BY <1>n, <1>e, <2>3, <2>4, <2>5 DEF TimevalFormInv
  <2>q. QED BY <1>x, <2>1, <2>2 DEF TimevalIInv, TimevalInv
<1>q. QED BY <1>x, <1>g, <1>h DEF TimevalIInv, TimevalInv

\* The second is on its way.
LEMMA BorrowKeeps ==
  ASSUME MeasuresAlone, TimevalIInv, NEW w \in TimeWorker, Borrow(w)
  PROVE  TimevalIInv'
<1>a. TimevalTypeOK /\ TimevalFormInv BY DEF TimevalIInv, TimevalInv
<1>n. /\ \A v \in TimeWorker : v = w
      /\ start.sec \in Nat /\ start.usec \in 0 .. Micro - 1 /\ Micro \in Nat \ {0}
      /\ start = [sec |-> start.sec, usec |-> start.usec]
      /\ {Given, Moved} \subseteq [sec : Nat, usec : Int]
      /\ x[w].sec \in Nat /\ x[w].usec \in 0 .. Micro - 1 /\ x[w] \in Times
      /\ y \in [sec : Nat, usec : Int] /\ tvPc \in [TimeWorker -> TimevalLabels]
      /\ nsec \in [TimeWorker -> Nat] /\ x \in [TimeWorker -> Times]
  BY <1>a, FormsAre, TimevalAssumption DEF MeasuresAlone, TimevalTypeOK, TimevalLabels
<1>e. /\ tvPc[w] = "borrow"
      /\ y' = [y EXCEPT !.usec = @ - Micro * nsec[w]]
      /\ start' = start /\ x' = x /\ nsec' = nsec /\ tvResult' = tvResult
  BY <1>n DEF Borrow
<1>p. tvPc' \in [TimeWorker -> TimevalLabels] /\ tvPc'[w] = "borrowed"
  BY <1>n DEF Borrow, TimevalGoto, TimevalLabels
<1>x. DifferenceIsRight' /\ MicrosecondsAreNotNegative'
  BY <1>n, <1>p DEF DifferenceIsRight, MicrosecondsAreNotNegative
<1>f. y = Given /\ nsec[w] = 1 BY <1>a, <1>e DEF TimevalFormInv
<1>g. y' = [sec |-> start.sec, usec |-> start.usec - Micro] BY <1>n, <1>e, <1>f DEF Given
<1>y. TimevalTypeOK' BY <1>a, <1>n, <1>e, <1>p, <1>f, <1>g DEF TimevalTypeOK, TimevalLabels,
    Moved, Given
<1>z. TimevalFormInv' BY <1>a, <1>n, <1>e, <1>p, <1>f, <1>g DEF TimevalFormInv, Moved, Given
<1>q. QED BY <1>x, <1>y, <1>z DEF TimevalIInv, TimevalInv

\* The second has been borrowed.
LEMMA BorrowedKeeps ==
  ASSUME MeasuresAlone, TimevalIInv, NEW w \in TimeWorker, Borrowed(w)
  PROVE  TimevalIInv'
<1>a. TimevalTypeOK /\ TimevalFormInv BY DEF TimevalIInv, TimevalInv
<1>n. /\ \A v \in TimeWorker : v = w
      /\ start.sec \in Nat /\ start.usec \in 0 .. Micro - 1 /\ Micro \in Nat \ {0}
      /\ start = [sec |-> start.sec, usec |-> start.usec]
      /\ {Given, Moved} \subseteq [sec : Nat, usec : Int]
      /\ x[w].sec \in Nat /\ x[w].usec \in 0 .. Micro - 1 /\ x[w] \in Times
      /\ y \in [sec : Nat, usec : Int] /\ tvPc \in [TimeWorker -> TimevalLabels]
      /\ nsec \in [TimeWorker -> Nat] /\ x \in [TimeWorker -> Times]
  BY <1>a, FormsAre, TimevalAssumption DEF MeasuresAlone, TimevalTypeOK, TimevalLabels
<1>e. /\ tvPc[w] = "borrowed"
      /\ y' = [y EXCEPT !.sec = @ + nsec[w]]
      /\ start' = start /\ x' = x /\ nsec' = nsec /\ tvResult' = tvResult
  BY <1>n DEF Borrowed
<1>p. tvPc' \in [TimeWorker -> TimevalLabels] /\ tvPc'[w] = "test_carry"
  BY <1>n DEF Borrowed, TimevalGoto, TimevalLabels
<1>x. DifferenceIsRight' /\ MicrosecondsAreNotNegative'
  BY <1>n, <1>p DEF DifferenceIsRight, MicrosecondsAreNotNegative
<1>f. y = [Moved EXCEPT !.sec = start.sec] /\ nsec[w] = 1 BY <1>a, <1>e DEF TimevalFormInv
<1>g. y' = Moved BY <1>n, <1>e, <1>f DEF Moved
<1>y. TimevalTypeOK' BY <1>a, <1>n, <1>e, <1>p, <1>f, <1>g DEF TimevalTypeOK, TimevalLabels,
    Moved, Given
<1>z. TimevalFormInv' BY <1>a, <1>n, <1>e, <1>p, <1>f, <1>g DEF TimevalFormInv, Moved, Given
<1>q. QED BY <1>x, <1>y, <1>z DEF TimevalIInv, TimevalInv

\* There is one second to give back, if any.
LEMMA TestCarryKeeps ==
  ASSUME MeasuresAlone, TimevalIInv, NEW w \in TimeWorker, TestCarry(w)
  PROVE  TimevalIInv'
<1>a. TimevalTypeOK /\ TimevalFormInv BY DEF TimevalIInv, TimevalInv
<1>n. /\ \A v \in TimeWorker : v = w
      /\ start.sec \in Nat /\ start.usec \in 0 .. Micro - 1 /\ Micro \in Nat \ {0}
      /\ start = [sec |-> start.sec, usec |-> start.usec]
      /\ {Given, Moved} \subseteq [sec : Nat, usec : Int]
      /\ x[w].sec \in Nat /\ x[w].usec \in 0 .. Micro - 1 /\ x[w] \in Times
      /\ y \in [sec : Nat, usec : Int] /\ tvPc \in [TimeWorker -> TimevalLabels]
      /\ nsec \in [TimeWorker -> Nat] /\ x \in [TimeWorker -> Times]
  BY <1>a, FormsAre, TimevalAssumption DEF MeasuresAlone, TimevalTypeOK, TimevalLabels
<1>e. /\ tvPc[w] = "test_carry"
      /\ nsec' = IF x[w].usec - y.usec > Micro
               THEN [nsec EXCEPT ![w] = (x[w].usec - y.usec) \div Micro] ELSE nsec
      /\ start' = start /\ y' = y /\ x' = x /\ tvResult' = tvResult
  BY <1>n DEF TestCarry
<1>p. tvPc' \in [TimeWorker -> TimevalLabels]
      /\ tvPc'[w] = (IF x[w].usec - y.usec > Micro THEN "carry" ELSE "subtract")
  BY <1>n DEF TestCarry, TimevalGoto, TimevalLabels
<1>x. DifferenceIsRight' /\ MicrosecondsAreNotNegative'
  BY <1>n, <1>p DEF DifferenceIsRight, MicrosecondsAreNotNegative
<1>f. (y = Given /\ x[w].usec >= start.usec) \/ y = Moved BY <1>a, <1>e DEF TimevalFormInv
<1>g. CASE x[w].usec - y.usec > Micro
  <2>1. y = Moved /\ x[w].usec - y.usec \in Micro .. 2 * Micro - 1 /\ x[w].usec >= start.usec
    BY <1>n, <1>f, <1>g DEF Given, Moved
  <2>2. (x[w].usec - y.usec) \div Micro = 1 BY <1>n, <2>1, WholeSeconds
  <2>3. nsec' \in [TimeWorker -> Nat] /\ nsec'[w] = 1 BY <1>n, <1>e, <1>g, <2>2
  <2>4. TimevalTypeOK' BY <1>a, <1>n, <1>e, <1>p, <2>3 DEF TimevalTypeOK, TimevalLabels
  <2>5. TimevalFormInv' BY <1>n, <1>e, <1>p, <1>g, <2>1, <2>3 DEF TimevalFormInv, Moved
  <2>q. QED BY <1>x, <2>4, <2>5 DEF TimevalIInv, TimevalInv
<1>h. CASE ~ (x[w].usec - y.usec > Micro)
  <2>1. TimevalTypeOK' BY <1>a, <1>n, <1>e, <1>p, <1>h DEF TimevalTypeOK, TimevalLabels
  <2>2. y = Moved => x[w].usec - y.usec \in 0 .. Micro BY <1>n, <1>h DEF Moved
  <2>3. TimevalFormInv' BY <1>n, <1>e, <1>p, <1>f, <1>h, <2>2 DEF TimevalFormInv, Given, Moved
  <2>q. QED BY <1>x, <2>1, <2>3 DEF TimevalIInv, TimevalInv
<1>q. QED BY <1>x, <1>g, <1>h DEF TimevalIInv, TimevalInv

\* The second is on its way back.
LEMMA CarryKeeps ==
  ASSUME MeasuresAlone, TimevalIInv, NEW w \in TimeWorker, Carry(w)
  PROVE  TimevalIInv'
<1>a. TimevalTypeOK /\ TimevalFormInv BY DEF TimevalIInv, TimevalInv
<1>n. /\ \A v \in TimeWorker : v = w
      /\ start.sec \in Nat /\ start.usec \in 0 .. Micro - 1 /\ Micro \in Nat \ {0}
      /\ start = [sec |-> start.sec, usec |-> start.usec]
      /\ {Given, Moved} \subseteq [sec : Nat, usec : Int]
      /\ x[w].sec \in Nat /\ x[w].usec \in 0 .. Micro - 1 /\ x[w] \in Times
      /\ y \in [sec : Nat, usec : Int] /\ tvPc \in [TimeWorker -> TimevalLabels]
      /\ nsec \in [TimeWorker -> Nat] /\ x \in [TimeWorker -> Times]
  BY <1>a, FormsAre, TimevalAssumption DEF MeasuresAlone, TimevalTypeOK, TimevalLabels
<1>e. /\ tvPc[w] = "carry"
      /\ y' = [y EXCEPT !.usec = @ + Micro * nsec[w]]
      /\ start' = start /\ x' = x /\ nsec' = nsec /\ tvResult' = tvResult
  BY <1>n DEF Carry
<1>p. tvPc' \in [TimeWorker -> TimevalLabels] /\ tvPc'[w] = "carried"
  BY <1>n DEF Carry, TimevalGoto, TimevalLabels
<1>x. DifferenceIsRight' /\ MicrosecondsAreNotNegative'
  BY <1>n, <1>p DEF DifferenceIsRight, MicrosecondsAreNotNegative
<1>f. y = Moved /\ nsec[w] = 1 BY <1>a, <1>e DEF TimevalFormInv
<1>g. y' = [sec |-> start.sec + 1, usec |-> start.usec] BY <1>n, <1>e, <1>f DEF Moved
<1>y. TimevalTypeOK' BY <1>a, <1>n, <1>e, <1>p, <1>f, <1>g DEF TimevalTypeOK, TimevalLabels,
    Moved, Given
<1>z. TimevalFormInv' BY <1>a, <1>n, <1>e, <1>p, <1>f, <1>g DEF TimevalFormInv, Moved, Given
<1>q. QED BY <1>x, <1>y, <1>z DEF TimevalIInv, TimevalInv

\* The second has been given back.
LEMMA CarriedKeeps ==
  ASSUME MeasuresAlone, TimevalIInv, NEW w \in TimeWorker, Carried(w)
  PROVE  TimevalIInv'
<1>a. TimevalTypeOK /\ TimevalFormInv BY DEF TimevalIInv, TimevalInv
<1>n. /\ \A v \in TimeWorker : v = w
      /\ start.sec \in Nat /\ start.usec \in 0 .. Micro - 1 /\ Micro \in Nat \ {0}
      /\ start = [sec |-> start.sec, usec |-> start.usec]
      /\ {Given, Moved} \subseteq [sec : Nat, usec : Int]
      /\ x[w].sec \in Nat /\ x[w].usec \in 0 .. Micro - 1 /\ x[w] \in Times
      /\ y \in [sec : Nat, usec : Int] /\ tvPc \in [TimeWorker -> TimevalLabels]
      /\ nsec \in [TimeWorker -> Nat] /\ x \in [TimeWorker -> Times]
  BY <1>a, FormsAre, TimevalAssumption DEF MeasuresAlone, TimevalTypeOK, TimevalLabels
<1>e. /\ tvPc[w] = "carried"
      /\ y' = [y EXCEPT !.sec = @ - nsec[w]]
      /\ start' = start /\ x' = x /\ nsec' = nsec /\ tvResult' = tvResult
  BY <1>n DEF Carried
<1>p. tvPc' \in [TimeWorker -> TimevalLabels] /\ tvPc'[w] = "subtract"
  BY <1>n DEF Carried, TimevalGoto, TimevalLabels
<1>x. DifferenceIsRight' /\ MicrosecondsAreNotNegative'
  BY <1>n, <1>p DEF DifferenceIsRight, MicrosecondsAreNotNegative
<1>f. y = [Given EXCEPT !.sec = start.sec + 1] /\ nsec[w] = 1 /\ x[w].usec >= start.usec
  BY <1>a, <1>e DEF TimevalFormInv
<1>g. y' = Given
  <2>1. y = [sec |-> start.sec + 1, usec |-> start.usec] BY <1>n, <1>f DEF Given
  <2>2. y' = [y EXCEPT !.sec = y.sec - 1] BY <1>e, <1>f
  <2>3. y.sec - 1 = start.sec /\ y.usec = start.usec BY <1>n, <2>1
  <2>4. y' = [sec |-> start.sec, usec |-> start.usec] BY <2>1, <2>2, <2>3
  <2>q. QED BY <1>n, <2>4 DEF Given
<1>y. TimevalTypeOK' BY <1>a, <1>n, <1>e, <1>p, <1>f, <1>g DEF TimevalTypeOK, TimevalLabels,
    Moved, Given
<1>z. TimevalFormInv' BY <1>a, <1>n, <1>e, <1>p, <1>f, <1>g DEF TimevalFormInv, Moved, Given
<1>q. QED BY <1>x, <1>y, <1>z DEF TimevalIInv, TimevalInv

\* The difference is right, in microseconds of their field.
LEMMA SubtractKeeps ==
  ASSUME MeasuresAlone, TimevalIInv, NEW w \in TimeWorker, Subtract(w)
  PROVE  TimevalIInv'
<1>a. TimevalTypeOK /\ TimevalFormInv BY DEF TimevalIInv, TimevalInv
<1>n. /\ \A v \in TimeWorker : v = w
      /\ start.sec \in Nat /\ start.usec \in 0 .. Micro - 1 /\ Micro \in Nat \ {0}
      /\ start = [sec |-> start.sec, usec |-> start.usec]
      /\ {Given, Moved} \subseteq [sec : Nat, usec : Int]
      /\ x[w].sec \in Nat /\ x[w].usec \in 0 .. Micro - 1 /\ x[w] \in Times
      /\ y \in [sec : Nat, usec : Int] /\ tvPc \in [TimeWorker -> TimevalLabels]
      /\ nsec \in [TimeWorker -> Nat] /\ x \in [TimeWorker -> Times]
  BY <1>a, FormsAre, TimevalAssumption DEF MeasuresAlone, TimevalTypeOK, TimevalLabels
<1>e. /\ tvPc[w] = "subtract"
      /\ tvResult' = [tvResult EXCEPT ![w] = [sec  |-> x[w].sec - y.sec,
                                               usec |-> x[w].usec - y.usec]]
      /\ start' = start /\ y' = y /\ x' = x /\ nsec' = nsec
  BY <1>n DEF Subtract
<1>p. tvPc' \in [TimeWorker -> TimevalLabels] /\ tvPc'[w] = "done"
  BY <1>n DEF Subtract, TimevalGoto, TimevalLabels
<1>f. \/ y = Given /\ x[w].usec >= start.usec
      \/ y = Moved /\ x[w].usec - y.usec \in 0 .. Micro
  BY <1>a, <1>e DEF TimevalFormInv
<1>g. /\ y.sec \in Int /\ y.usec \in Int /\ x[w].usec - y.usec \in 0 .. Micro
      /\ y = [sec |-> y.sec, usec |-> y.usec]
  BY <1>n, <1>f DEF Given, Moved
<1>h. /\ tvResult' \in [TimeWorker -> [sec : Int, usec : Int]]
      /\ tvResult'[w] = [sec |-> x[w].sec - y.sec, usec |-> x[w].usec - y.usec]
  BY <1>a, <1>n, <1>e, <1>g DEF TimevalTypeOK
<1>x. DifferenceIsRight' /\ MicrosecondsAreNotNegative'
  <2>1. x[w] = [sec |-> x[w].sec, usec |-> x[w].usec] BY <1>n, TimevalAssumption
  <2>2. Instant(tvResult'[w]) = Instant(x[w]) - Instant(y)
    <3> DEFINE a == x[w].sec
               b == x[w].usec
               c == y.sec
               d == y.usec
    <3>0. a \in Int /\ b \in Int /\ c \in Int /\ d \in Int BY <1>n, <1>g
    <3>1. /\ x[w] = [sec |-> a, usec |-> b] /\ y = [sec |-> c, usec |-> d]
          /\ tvResult'[w] = [sec |-> a - c, usec |-> b - d]
      BY <1>g, <1>h, <2>1
    <3> HIDE DEF a, b, c, d
    <3>2. Instant([sec |-> a - c, usec |-> b - d])
            = Instant([sec |-> a, usec |-> b]) - Instant([sec |-> c, usec |-> d])
      BY <3>0, DifferenceOfInstants
    <3>q. QED BY <3>1, <3>2
  <2>3. Instant(y) = Instant(start) BY <1>a, <1>f, FormsAre DEF TimevalTypeOK
  <2>4. DifferenceIsRight' BY <1>n, <1>e, <2>2, <2>3 DEF DifferenceIsRight, Instant
  <2>5. MicrosecondsAreNotNegative' BY <1>n, <1>g, <1>h DEF MicrosecondsAreNotNegative
  <2>q. QED BY <2>4, <2>5
<1>y. TimevalTypeOK' BY <1>a, <1>n, <1>e, <1>p, <1>f, <1>h DEF TimevalTypeOK, TimevalLabels,
    Moved, Given
<1>z. TimevalFormInv' BY <1>a, <1>n, <1>e, <1>p, <1>f, <1>h DEF TimevalFormInv, Moved, Given
<1>q. QED BY <1>x, <1>y, <1>z DEF TimevalIInv, TimevalInv

\* The next measurement begins with y as it was left.
LEMMA MeasureAgainKeeps ==
  ASSUME MeasuresAlone, TimevalIInv, NEW w \in TimeWorker, MeasureAgain(w)
  PROVE  TimevalIInv'
<1>a. TimevalTypeOK /\ TimevalFormInv BY DEF TimevalIInv, TimevalInv
<1>n. /\ \A v \in TimeWorker : v = w
      /\ start.sec \in Nat /\ start.usec \in 0 .. Micro - 1 /\ Micro \in Nat \ {0}
      /\ start = [sec |-> start.sec, usec |-> start.usec]
      /\ {Given, Moved} \subseteq [sec : Nat, usec : Int]
      /\ x[w].sec \in Nat /\ x[w].usec \in 0 .. Micro - 1 /\ x[w] \in Times
      /\ y \in [sec : Nat, usec : Int] /\ tvPc \in [TimeWorker -> TimevalLabels]
      /\ nsec \in [TimeWorker -> Nat] /\ x \in [TimeWorker -> Times]
  BY <1>a, FormsAre, TimevalAssumption DEF MeasuresAlone, TimevalTypeOK, TimevalLabels
<1>e. /\ tvPc[w] = "done"
      /\ x' \in [TimeWorker -> Times]
      /\ start' = start /\ y' = y /\ nsec' = nsec /\ tvResult' = tvResult
  BY <1>n DEF MeasureAgain
<1>p. tvPc' \in [TimeWorker -> TimevalLabels] /\ tvPc'[w] = "test_borrow"
  BY <1>n DEF MeasureAgain, TimevalGoto, TimevalLabels
<1>x. DifferenceIsRight' /\ MicrosecondsAreNotNegative'
  BY <1>n, <1>p DEF DifferenceIsRight, MicrosecondsAreNotNegative
<1>f. y \in {Given, Moved} BY <1>a, <1>e DEF TimevalFormInv
<1>y. TimevalTypeOK' BY <1>a, <1>n, <1>e, <1>p, <1>f DEF TimevalTypeOK, TimevalLabels, Moved,
    Given
<1>z. TimevalFormInv' BY <1>a, <1>n, <1>e, <1>p, <1>f DEF TimevalFormInv, Moved, Given
<1>q. QED BY <1>x, <1>y, <1>z DEF TimevalIInv, TimevalInv

\* concurio.c: a worker that measures alone gets the right times, however often and whatever
\* the clock says.
THEOREM DifferencesAreRight ==
  ASSUME MeasuresAlone
  PROVE  TimevalSpec => []TimevalInv
<1>1. TimevalInit => TimevalIInv BY TimevalStart
<1>2. TimevalIInv /\ [TimevalNext]_timevalVars => TimevalIInv'
  <2> SUFFICES ASSUME TimevalIInv, [TimevalNext]_timevalVars PROVE TimevalIInv' OBVIOUS
  <2>1. CASE UNCHANGED timevalVars
    <3>1. /\ start' = start /\ y' = y /\ x' = x /\ nsec' = nsec /\ tvResult' = tvResult
          /\ tvPc' = tvPc /\ Given' = Given /\ Moved' = Moved
      BY <2>1 DEF timevalVars, Given, Moved
    <3>q. QED
      BY <3>1 DEF TimevalIInv, TimevalInv, TimevalTypeOK, DifferenceIsRight, Instant,
                  MicrosecondsAreNotNegative, TimevalFormInv
  <2>2. ASSUME NEW w \in TimeWorker, timeval_subtract(w) \/ MeasureAgain(w) PROVE TimevalIInv'
    BY <2>2, TestBorrowKeeps, BorrowKeeps, BorrowedKeeps, TestCarryKeeps, CarryKeeps,
       CarriedKeeps,
       SubtractKeeps, MeasureAgainKeeps DEF timeval_subtract
  <2>q. QED BY <2>1, <2>2 DEF TimevalNext
<1>3. TimevalIInv => TimevalInv BY DEF TimevalIInv
<1>q. QED BY <1>1, <1>2, <1>3, PTL DEF TimevalSpec
-----------------------------------------------------------------------------

\* thr_sleep: when the caller has the mutex, and where its code has got to.
SleepPlaces == {"lock", "compute", "wait", "asleep", "unlock", "done"}

SleepMutexInv ==
  /\ locks \in BOOLEAN /\ slSec \in 0 .. MaxSec /\ nanosec \in 0 .. MaxNsec
  /\ slPlace \in SleepPlaces /\ retcode \in {"none", "EINVAL", "ETIMEDOUT", "early"}
  /\ slPlace \in {"lock", "compute", "wait", "asleep"} => retcode = "none"
  /\ slPlace = "lock" => m = NoThread
  /\ slPlace \in {"compute", "wait"} => m = (IF locks THEN "caller" ELSE NoThread)
  /\ slPlace = "asleep" => m = NoThread
  /\ slPlace = "unlock" => m = "caller" /\ retcode # "EINVAL"

\* The nanoseconds beyond the whole seconds, as Compute adds them up.
Parts == ((began % Second) \div SleepMicro) * SleepMicro + (nanosec % Second)

\* The time to sleep until, computed at began.
SleepUntilInv ==
  /\ began \in Nat /\ (slPlace \in {"lock", "compute"} => slClock \in 0 .. Second - 1)
  /\ slPlace \in {"wait", "asleep", "unlock"} =>
       /\ ts.tv_nsec >= Second => Parts = Second
       /\ Deadline(ts) > began + slSec * Second + nanosec - SleepMicro

SleepIInv == ThrSleepInv /\ SleepMutexInv /\ SleepUntilInv

\* A number and what is left of it.
LEMMA RemainderIs ==
  ASSUME NEW k \in Nat \ {0}, NEW u \in Nat
  PROVE  u \div k \in Nat /\ u % k \in 0 .. k - 1 /\ u = (u \div k) * k + (u % k)
<1>1. u \div k \in Nat /\ u % k \in 0 .. k - 1 BY SMTT(60)
<1>2. u % k = u - k * (u \div k) BY SMTT(60)
<1>3. k * (u \div k) = (u \div k) * k BY <1>1
<1>4. (u \div k) * k \in Int BY <1>1
<1>q. QED BY <1>1, <1>2, <1>3, <1>4

\* What the constants are.
LEMMA SleepConstants ==
  /\ Second \in Nat \ {0} /\ SleepMicro \in Nat \ {0} /\ MaxSec \in Nat /\ MaxNsec \in Nat
  /\ MaxClock \in Nat /\ Second <= MaxClock
<1>1. /\ Second \in Nat \ {0} /\ SleepMicro \in Nat \ {0} /\ MaxSec \in Nat /\ MaxNsec \in Nat
      /\ MaxClock \in Nat /\ MaxClock >= Second + MaxSec * Second + MaxNsec
  BY ThrSleepAssumption
<1>2. MaxSec * Second \in Nat BY <1>1
<1>q. QED BY <1>1, <1>2

\* The sum of the two parts of a second, from the time u in the first second and the nanoseconds n.
LEMMA PartsAre ==
  ASSUME NEW u \in 0 .. Second - 1, NEW n \in Nat
  PROVE  /\ ((u % Second) \div SleepMicro) * SleepMicro + (n % Second) \in 0 .. 2 * Second - 2
         /\ (u \div Second) \in Nat /\ (n \div Second) \in Nat
         /\ (u \div Second) * Second + (n \div Second) * Second
              + (((u % Second) \div SleepMicro) * SleepMicro + (n % Second)) > u + n - SleepMicro
<1>1. Second \in Nat \ {0} /\ SleepMicro \in Nat \ {0} /\ u \in Nat BY SleepConstants
<1> DEFINE a == u % Second
           p == (u \div Second) * Second
           c == n % Second
           q == (n \div Second) * Second
           e == (a \div SleepMicro) * SleepMicro
           f == a % SleepMicro
<1>2. u \div Second \in Nat /\ a \in 0 .. Second - 1 /\ u = p + a BY <1>1, RemainderIs
<1>3. n \div Second \in Nat /\ c \in 0 .. Second - 1 /\ n = q + c BY <1>1, RemainderIs
<1>4. a \div SleepMicro \in Nat /\ f \in 0 .. SleepMicro - 1 /\ a = e + f
  <2>1. a \in Nat BY <1>1, <1>2
  <2> HIDE DEF a
  <2>q. QED BY <1>1, <2>1, RemainderIs
<1>5. p \in Nat /\ q \in Nat /\ e \in Nat BY <1>1, <1>2, <1>3, <1>4
<1>6. e + c \in 0 .. 2 * Second - 2 /\ p + q + (e + c) > u + n - SleepMicro
  <2> HIDE DEF a, p, c, q, e, f
  <2>q. QED BY <1>1, <1>2, <1>3, <1>4, <1>5
<1>q. QED BY <1>2, <1>3, <1>6

\* The time that Compute sets, without a carry and with one.
LEMMA DeadlineIs ==
  ASSUME NEW a \in Nat, NEW c \in Nat, NEW q \in Nat, NEW d \in Int
  PROVE  Deadline([tv_sec |-> a + c + q, tv_nsec |-> d])
           = a * Second + c * Second + q * Second + d
<1>1. Second \in Nat BY SleepConstants
<1>2. (a + c + q) * Second = a * Second + c * Second + q * Second BY <1>1
<1>3. /\ a * Second \in Int /\ c * Second \in Int /\ q * Second \in Int
      /\ (a + c + q) * Second \in Int
  BY <1>1
<1>q. QED BY <1>1, <1>2, <1>3 DEF Deadline

\* What the carry makes of a point in time.
LEMMA DeadlineCarries ==
  ASSUME NEW a \in Nat, NEW c \in Nat, NEW q \in Nat, NEW d \in Int
  PROVE  Deadline([tv_sec |-> a + c + q + 1, tv_nsec |-> d - Second])
           = a * Second + c * Second + q * Second + d
<1>1. Second \in Nat BY SleepConstants
<1>2. (a + c + q + 1) * Second = a * Second + c * Second + q * Second + Second BY <1>1
<1>3. /\ a * Second \in Int /\ c * Second \in Int /\ q * Second \in Int
      /\ (a + c + q + 1) * Second \in Int
  BY <1>1
<1>q. QED BY <1>1, <1>2, <1>3 DEF Deadline

\* The start of thr_sleep().
LEMMA SleepStart == SleepInit => SleepIInv
<1> SUFFICES ASSUME SleepInit PROVE SleepIInv OBVIOUS
<1>e. /\ locks \in BOOLEAN /\ slSec \in 0 .. MaxSec /\ nanosec \in 0 .. MaxNsec
      /\ slClock \in 0 .. Second - 1 /\ m = NoThread /\ sleeper = {} /\ slPlace = "lock"
      /\ ts = [tv_sec |-> 0, tv_nsec |-> 0] /\ retcode = "none" /\ began = 0
  BY DEF SleepInit
<1>1. SleepTypeOK
  <2>1. slClock \in 0 .. MaxClock BY <1>e, SleepConstants
  <2>2. ts \in [tv_sec : Nat, tv_nsec : 0 .. 2 * Second - 1] BY <1>e, SleepConstants
  <2>q. QED BY <1>e, <2>1, <2>2 DEF SleepTypeOK
<1>2. SleepsLongEnough /\ FailsOnTheSecond BY <1>e DEF SleepsLongEnough, FailsOnTheSecond
<1>3. SleepMutexInv BY <1>e DEF SleepMutexInv, SleepPlaces
<1>4. SleepUntilInv BY <1>e DEF SleepUntilInv
<1>q. QED BY <1>1, <1>2, <1>3, <1>4 DEF SleepIInv, ThrSleepInv

\* The caller takes the mutex, or the copy does not.
LEMMA TakeMutexKeeps ==
  ASSUME SleepIInv, TakeMutex
  PROVE  SleepIInv'
<1>a. /\ SleepTypeOK /\ SleepsLongEnough /\ FailsOnTheSecond /\ SleepMutexInv /\ SleepUntilInv
      /\ NoThread = "none"
  BY DEF SleepIInv, ThrSleepInv, NoThread
<1>e. /\ slPlace = "lock" /\ m' = (IF locks THEN "caller" ELSE m)
      /\ slPlace' \in (IF locks THEN {"compute"} ELSE {"compute", "done"})
      /\ locks' = locks /\ slSec' = slSec /\ nanosec' = nanosec /\ slClock' = slClock
      /\ sleeper' = sleeper /\ ts' = ts /\ retcode' = retcode /\ began' = began
  BY DEF TakeMutex, asked
<1>t. SleepTypeOK' BY <1>a, <1>e DEF SleepTypeOK
<1>w. SleepsLongEnough' BY <1>a, <1>e DEF SleepsLongEnough, SleepMutexInv
<1>x. FailsOnTheSecond' BY <1>a, <1>e DEF FailsOnTheSecond, SleepMutexInv
<1>y. SleepMutexInv' BY <1>a, <1>e DEF SleepMutexInv, SleepPlaces
<1>z. SleepUntilInv' BY <1>a, <1>e DEF SleepUntilInv, Parts, Deadline
<1>q. QED BY <1>t, <1>w, <1>x, <1>y, <1>z DEF SleepIInv, ThrSleepInv

\* The time is as long away as was asked for, but for less than a microsecond.
LEMMA ComputeKeeps ==
  ASSUME SleepIInv, Compute
  PROVE  SleepIInv'
<1>a. /\ SleepTypeOK /\ SleepsLongEnough /\ FailsOnTheSecond /\ SleepMutexInv /\ SleepUntilInv
      /\ NoThread = "none"
  BY DEF SleepIInv, ThrSleepInv, NoThread
<1>e. /\ slPlace = "compute" /\ slPlace' = "wait" /\ began' = slClock
      /\ LET tv_sec  == (slClock \div Second) + slSec + (nanosec \div Second)
             tv_nsec == ((slClock % Second) \div SleepMicro) * SleepMicro + (nanosec % Second)
         IN  ts' = IF tv_nsec > Second THEN [tv_sec |-> tv_sec + 1, tv_nsec |-> tv_nsec - Second]
                                       ELSE [tv_sec |-> tv_sec, tv_nsec |-> tv_nsec]
      /\ locks' = locks /\ slSec' = slSec /\ nanosec' = nanosec /\ slClock' = slClock
      /\ m' = m /\ sleeper' = sleeper /\ retcode' = retcode
  BY DEF Compute, Carries, tv_usec, asked
<1> DEFINE d == ((slClock % Second) \div SleepMicro) * SleepMicro + (nanosec % Second)
           a == slClock \div Second
           k == nanosec \div Second
<1>n. /\ slClock \in 0 .. Second - 1 /\ nanosec \in Nat /\ slSec \in Nat /\ retcode = "none"
      /\ Second \in Nat \ {0} /\ SleepMicro \in Nat \ {0} /\ slClock \in Nat
  BY <1>a, <1>e, SleepConstants DEF SleepMutexInv, SleepUntilInv
<1>d. /\ d \in 0 .. 2 * Second - 2 /\ a \in Nat /\ k \in Nat
      /\ a * Second + k * Second + d > slClock + nanosec - SleepMicro
  BY <1>n, PartsAre
<1>f. ts' = IF d > Second THEN [tv_sec |-> a + slSec + k + 1, tv_nsec |-> d - Second]
                          ELSE [tv_sec |-> a + slSec + k, tv_nsec |-> d]
  BY <1>e
<1>h. Parts' = d BY <1>e DEF Parts
<1>g. /\ ts' \in [tv_sec : Nat, tv_nsec : 0 .. 2 * Second - 1]
      /\ ts'.tv_nsec >= Second => Parts' = Second
      /\ Deadline(ts') > slClock + slSec * Second + nanosec - SleepMicro
  <2> HIDE DEF d, a, k
  <2>1. Deadline(ts') = a * Second + slSec * Second + k * Second + d
    <3>0. a \in Nat /\ slSec \in Nat /\ k \in Nat /\ d \in Int BY <1>n, <1>d
    <3>1. Deadline([tv_sec |-> a + slSec + k, tv_nsec |-> d])
            = a * Second + slSec * Second + k * Second + d
      BY <3>0, DeadlineIs
    <3>2. Deadline([tv_sec |-> a + slSec + k + 1, tv_nsec |-> d - Second])
            = a * Second + slSec * Second + k * Second + d
      BY <3>0, DeadlineCarries
    <3>3. CASE d > Second BY <1>f, <3>2, <3>3
    <3>4. CASE ~ (d > Second) BY <1>f, <3>1, <3>4
    <3>q. QED BY <3>3, <3>4
  <2>2. a * Second \in Int /\ slSec * Second \in Int /\ k * Second \in Int BY <1>n, <1>d
  <2>3. Deadline(ts') > slClock + slSec * Second + nanosec - SleepMicro BY <1>n, <1>d, <2>1,
                                                                           <2>2
  <2>4. ts' \in [tv_sec : Nat, tv_nsec : 0 .. 2 * Second - 1] BY <1>n, <1>d, <1>f
  <2>5. ts'.tv_nsec >= Second => d = Second BY <1>n, <1>d, <1>f
  <2>q. QED BY <1>h, <2>3, <2>4, <2>5
<1>t. SleepTypeOK' BY <1>a, <1>e, <1>g DEF SleepTypeOK
<1>w. SleepsLongEnough' BY <1>e, <1>n DEF SleepsLongEnough
<1>x. FailsOnTheSecond' BY <1>e, <1>n DEF FailsOnTheSecond
<1>y. SleepMutexInv' BY <1>a, <1>e DEF SleepMutexInv, SleepPlaces
<1>z. SleepUntilInv'
  <2>1. Deadline(ts)' = Deadline(ts') BY DEF Deadline
  <2>q. QED BY <1>e, <1>g, <1>n, <2>1 DEF SleepUntilInv
<1>q. QED BY <1>t, <1>w, <1>x, <1>y, <1>z DEF SleepIInv, ThrSleepInv

\* Only a whole second makes the wait fail.
LEMMA WaitFailsKeeps ==
  ASSUME SleepIInv, WaitFails
  PROVE  SleepIInv'
<1>a. /\ SleepTypeOK /\ SleepsLongEnough /\ FailsOnTheSecond /\ SleepMutexInv /\ SleepUntilInv
      /\ NoThread = "none"
  BY DEF SleepIInv, ThrSleepInv, NoThread
<1>e. /\ slPlace = "wait" /\ ~ (ts.tv_nsec < Second) /\ retcode' = "EINVAL" /\ slPlace' = "done"
      /\ locks' = locks /\ slSec' = slSec /\ nanosec' = nanosec /\ slClock' = slClock
      /\ m' = m /\ sleeper' = sleeper /\ ts' = ts /\ began' = began
  BY DEF WaitFails, IsValid, asked
<1>t. SleepTypeOK' BY <1>a, <1>e DEF SleepTypeOK
<1>w. SleepsLongEnough' BY <1>a, <1>e DEF SleepsLongEnough, SleepMutexInv
<1>x. FailsOnTheSecond'
  <2>1. ts.tv_nsec \in Int /\ Second \in Nat BY <1>a, SleepConstants DEF SleepTypeOK
  <2>2. Parts = Second BY <1>a, <1>e, <2>1 DEF SleepUntilInv
  <2>3. locks => m = "caller" BY <1>a, <1>e DEF SleepMutexInv
  <2>q. QED BY <1>e, <2>2, <2>3 DEF FailsOnTheSecond, Parts
<1>y. SleepMutexInv' BY <1>a, <1>e DEF SleepMutexInv, SleepPlaces
<1>z. SleepUntilInv' BY <1>a, <1>e DEF SleepUntilInv, Parts, Deadline
<1>q. QED BY <1>t, <1>w, <1>x, <1>y, <1>z DEF SleepIInv, ThrSleepInv

\* The caller sleeps without the mutex.
LEMMA FallAsleepKeeps ==
  ASSUME SleepIInv, FallAsleep
  PROVE  SleepIInv'
<1>a. /\ SleepTypeOK /\ SleepsLongEnough /\ FailsOnTheSecond /\ SleepMutexInv /\ SleepUntilInv
      /\ NoThread = "none"
  BY DEF SleepIInv, ThrSleepInv, NoThread
<1>e. /\ slPlace = "wait" /\ slPlace' = "asleep"
      /\ sleeper' = sleeper \cup {"caller"} /\ m' = NoThread
      /\ locks' = locks /\ slSec' = slSec /\ nanosec' = nanosec /\ slClock' = slClock
      /\ ts' = ts /\ retcode' = retcode /\ began' = began
  BY DEF FallAsleep, CondWait, asked
<1>t. SleepTypeOK' BY <1>a, <1>e DEF SleepTypeOK
<1>w. SleepsLongEnough' BY <1>a, <1>e DEF SleepsLongEnough, SleepMutexInv
<1>x. FailsOnTheSecond' BY <1>a, <1>e DEF FailsOnTheSecond, SleepMutexInv
<1>y. SleepMutexInv' BY <1>a, <1>e DEF SleepMutexInv, SleepPlaces
<1>z. SleepUntilInv' BY <1>a, <1>e DEF SleepUntilInv, Parts, Deadline
<1>q. QED BY <1>t, <1>w, <1>x, <1>y, <1>z DEF SleepIInv, ThrSleepInv

\* The clock has come to the time.
LEMMA TimeOutKeeps ==
  ASSUME SleepIInv, TimeOut
  PROVE  SleepIInv'
<1>a. /\ SleepTypeOK /\ SleepsLongEnough /\ FailsOnTheSecond /\ SleepMutexInv /\ SleepUntilInv
      /\ NoThread = "none"
  BY DEF SleepIInv, ThrSleepInv, NoThread
<1>e. /\ slClock >= Deadline(ts) /\ retcode' = "ETIMEDOUT"
      /\ slPlace = "asleep" /\ slPlace' = "unlock" /\ sleeper' = {} /\ m' = "caller"
      /\ locks' = locks /\ slSec' = slSec /\ nanosec' = nanosec /\ slClock' = slClock
      /\ ts' = ts /\ began' = began
  BY DEF TimeOut, SleepWakeUp, Lock, asked
<1>t. SleepTypeOK' BY <1>a, <1>e DEF SleepTypeOK
<1>w. SleepsLongEnough'
  <2>1. /\ slClock \in Nat /\ began \in Nat /\ slSec \in Nat /\ nanosec \in Nat
        /\ SleepMicro \in Nat /\ Second \in Nat /\ ts.tv_sec \in Nat /\ ts.tv_nsec \in Nat
    BY <1>a, SleepConstants DEF SleepTypeOK, SleepMutexInv, SleepUntilInv
  <2>2. Deadline(ts) \in Int /\ slSec * Second \in Int BY <2>1 DEF Deadline
  <2>3. Deadline(ts) > began + slSec * Second + nanosec - SleepMicro
    BY <1>a, <1>e DEF SleepUntilInv
  <2>4. slClock - began > slSec * Second + nanosec - SleepMicro BY <1>e, <2>1, <2>2, <2>3
  <2>q. QED BY <1>e, <2>4 DEF SleepsLongEnough
<1>x. FailsOnTheSecond' BY <1>a, <1>e DEF FailsOnTheSecond, SleepMutexInv
<1>y. SleepMutexInv' BY <1>a, <1>e DEF SleepMutexInv, SleepPlaces
<1>z. SleepUntilInv' BY <1>a, <1>e DEF SleepUntilInv, Parts, Deadline
<1>q. QED BY <1>t, <1>w, <1>x, <1>y, <1>z DEF SleepIInv, ThrSleepInv

\* Nothing is said of who wakes up for no reason.
LEMMA SleepSpuriousKeeps ==
  ASSUME SleepIInv, SleepSpuriousWakeup
  PROVE  SleepIInv'
<1>a. /\ SleepTypeOK /\ SleepsLongEnough /\ FailsOnTheSecond /\ SleepMutexInv /\ SleepUntilInv
      /\ NoThread = "none"
  BY DEF SleepIInv, ThrSleepInv, NoThread
<1>e. /\ retcode' = "early"
      /\ slPlace = "asleep" /\ slPlace' = "unlock" /\ sleeper' = {} /\ m' = "caller"
      /\ locks' = locks /\ slSec' = slSec /\ nanosec' = nanosec /\ slClock' = slClock
      /\ ts' = ts /\ began' = began
  BY DEF SleepSpuriousWakeup, SleepWakeUp, Lock, asked
<1>t. SleepTypeOK' BY <1>a, <1>e DEF SleepTypeOK
<1>w. SleepsLongEnough' BY <1>a, <1>e DEF SleepsLongEnough, SleepMutexInv
<1>x. FailsOnTheSecond' BY <1>a, <1>e DEF FailsOnTheSecond, SleepMutexInv
<1>y. SleepMutexInv' BY <1>a, <1>e DEF SleepMutexInv, SleepPlaces
<1>z. SleepUntilInv' BY <1>a, <1>e DEF SleepUntilInv, Parts, Deadline
<1>q. QED BY <1>t, <1>w, <1>x, <1>y, <1>z DEF SleepIInv, ThrSleepInv

\* The caller gives the mutex back.
LEMMA GiveMutexKeeps ==
  ASSUME SleepIInv, GiveMutex
  PROVE  SleepIInv'
<1>a. /\ SleepTypeOK /\ SleepsLongEnough /\ FailsOnTheSecond /\ SleepMutexInv /\ SleepUntilInv
      /\ NoThread = "none"
  BY DEF SleepIInv, ThrSleepInv, NoThread
<1>e. /\ slPlace = "unlock" /\ slPlace' = "done" /\ m' = (IF locks THEN NoThread ELSE m)
      /\ locks' = locks /\ slSec' = slSec /\ nanosec' = nanosec /\ slClock' = slClock
      /\ sleeper' = sleeper /\ ts' = ts /\ retcode' = retcode /\ began' = began
  BY DEF GiveMutex, asked
<1>t. SleepTypeOK' BY <1>a, <1>e DEF SleepTypeOK
<1>w. SleepsLongEnough' BY <1>a, <1>e DEF SleepsLongEnough, SleepMutexInv
<1>x. FailsOnTheSecond' BY <1>a, <1>e DEF FailsOnTheSecond, SleepMutexInv
<1>y. SleepMutexInv' BY <1>a, <1>e DEF SleepMutexInv, SleepPlaces
<1>z. SleepUntilInv' BY <1>a, <1>e DEF SleepUntilInv, Parts, Deadline
<1>q. QED BY <1>t, <1>w, <1>x, <1>y, <1>z DEF SleepIInv, ThrSleepInv

\* The clock goes on.
LEMMA TickKeeps ==
  ASSUME SleepIInv, Tick
  PROVE  SleepIInv'
<1>a. /\ SleepTypeOK /\ SleepsLongEnough /\ FailsOnTheSecond /\ SleepMutexInv /\ SleepUntilInv
      /\ NoThread = "none"
  BY DEF SleepIInv, ThrSleepInv, NoThread
<1>e. /\ slPlace \notin {"lock", "compute"} /\ slClock < MaxClock /\ slClock' = slClock + 1
      /\ locks' = locks /\ slSec' = slSec /\ nanosec' = nanosec /\ m' = m
      /\ sleeper' = sleeper /\ slPlace' = slPlace /\ ts' = ts /\ retcode' = retcode
      /\ began' = began
  BY DEF Tick, asked
<1>n. /\ slClock \in 0 .. MaxClock /\ began \in Nat /\ slSec \in Nat /\ nanosec \in Nat
      /\ SleepMicro \in Nat /\ Second \in Nat /\ MaxClock \in Nat
  BY <1>a, SleepConstants DEF SleepTypeOK, SleepMutexInv, SleepUntilInv
<1>t. SleepTypeOK' BY <1>a, <1>e, <1>n DEF SleepTypeOK
<1>w. SleepsLongEnough'
  <2>1. slSec * Second \in Int BY <1>n
  <2>q. QED BY <1>a, <1>e, <1>n, <2>1 DEF SleepsLongEnough
<1>x. FailsOnTheSecond' BY <1>a, <1>e DEF FailsOnTheSecond, SleepMutexInv
<1>y. SleepMutexInv' BY <1>a, <1>e DEF SleepMutexInv, SleepPlaces
<1>z. SleepUntilInv' BY <1>a, <1>e DEF SleepUntilInv, Parts, Deadline
<1>q. QED BY <1>t, <1>w, <1>x, <1>y, <1>z DEF SleepIInv, ThrSleepInv

\* thr_sleep() sleeps as long as it is asked to, and fails on a whole second only, whatever
\* is asked for and whenever.
THEOREM SleepIsLongEnough == SleepSpec => []ThrSleepInv
<1>1. SleepInit => SleepIInv BY SleepStart
<1>2. SleepIInv /\ [SleepNext]_sleepVars => SleepIInv'
  <2> SUFFICES ASSUME SleepIInv, [SleepNext]_sleepVars PROVE SleepIInv' OBVIOUS
  <2>1. CASE UNCHANGED sleepVars
    <3>1. /\ locks' = locks /\ slSec' = slSec /\ nanosec' = nanosec /\ slClock' = slClock /\ m' = m
          /\ sleeper' = sleeper /\ slPlace' = slPlace /\ ts' = ts /\ retcode' = retcode
          /\ began' = began /\ Parts' = Parts /\ Deadline(ts)' = Deadline(ts)
      BY <2>1 DEF sleepVars, Parts, Deadline
    <3>2. ThrSleepInv'
      BY <3>1 DEF SleepIInv, ThrSleepInv, SleepTypeOK, SleepsLongEnough, FailsOnTheSecond
    <3>q. QED BY <3>1, <3>2 DEF SleepIInv, SleepMutexInv, SleepUntilInv
  <2>2. CASE thr_sleep
    BY <2>2, TakeMutexKeeps, ComputeKeeps, WaitFailsKeeps, FallAsleepKeeps, TimeOutKeeps,
       GiveMutexKeeps DEF thr_sleep
  <2>q. QED BY <2>1, <2>2, SleepSpuriousKeeps, TickKeeps DEF SleepNext, Returned
<1>3. SleepIInv => ThrSleepInv BY DEF SleepIInv
<1>q. QED BY <1>1, <1>2, <1>3, PTL DEF SleepSpec
-----------------------------------------------------------------------------

\* The workers of concurio.c, the times of one that measures alone, and thr_sleep().
THEOREM WorkersAreSafe ==
  ASSUME MeasuresAlone
  PROVE  ConcurioSpec /\ TimevalSpec /\ SleepSpec => []WorkersInv
<1>1. ConcurioInv /\ TimevalInv /\ ThrSleepInv => WorkersInv BY DEF WorkersInv
<1>2. TimevalSpec => []TimevalInv BY DifferencesAreRight
<1>q. QED BY <1>1, <1>2, TrialsAreLed, SleepIsLongEnough, PTL
-----------------------------------------------------------------------------

(***************************************************************************)
(* hashInvertM.c, for any number of threads and any filter: each word is   *)
(* taken once per phase, the method fits the number of ones, nothing wrong *)
(* gets into M, and a change is lost only if two threads changed its word. *)
(***************************************************************************)

\* Where a thread has a vertex in hand, and where it has a word of M in hand for it.
OnVertex == {"loadC", "storeC", "loadM", "storeM"}
OnM == {"loadM", "storeM"}
OnWord == OnVertex \cup {"next"}

\* A thread counts in the first phase and reconstructs in the second.
PhaseInv ==
  /\ \A t \in BloomWorker : blPc[t] = "count" => phase = "count"
  /\ \A t \in BloomWorker : blPc[t] \in OnWord => phase \in {"ones", "zeros"}
  /\ \A t \in BloomWorker : blPc[t] \in {"loadC", "storeC"} => phase = "ones"
  /\ \A t \in BloomWorker : blPc[t] = "ended" => nextLoc > FilterWords
  /\ phase = "ended" => \A t \in BloomWorker : blPc[t] = "ended"
  /\ phase = "count" => \A w \in Set : checked[w] = {}

\* The words before nextLoc are taken, each by one thread, which has it in hand or has
\* finished with it.
TakenInv ==
  /\ \A w \in FilterWord : w < nextLoc => \E t \in BloomWorker : taken[w] = {t}
  /\ \A w \in FilterWord : w >= nextLoc => taken[w] = {}
  /\ \A t \in BloomWorker : blPc[t] \in OnWord \cup {"count"} =>
       nL[t] < nextLoc /\ taken[nL[t]] = {t}

\* The words whose ones have been added to the total.
Counted ==
  {w \in FilterWord : w < nextLoc /\ ~ \E t \in BloomWorker : blPc[t] = "count" /\ nL[t] = w}

TotalInv == phase = "count" => totalOnes = Cardinality(OnesOf(Counted))

\* The vertex in hand, and the words of checked and of M as they were loaded for it.
VertexInv ==
  /\ \A t \in BloomWorker : blPc[t] \in OnVertex => blN[t] <= Len(Vertices(t))
  /\ \A t \in BloomWorker : blPc[t] \in OnM /\ phase = "ones" => At(t) \in Member
  /\ \A t \in BloomWorker : blPc[t] \in {"storeC", "storeM"} => copy[t] \subseteq In(WordAt(t))
  /\ \A t \in BloomWorker : blPc[t] = "storeM" =>
       /\ phase = "ones" => copy[t] \subseteq Member \cap Found
       /\ phase = "zeros" => In(WordAt(t)) \ Found \subseteq copy[t]

\* Two threads have stored word w of M.
Shared(w) == \E t, u \in rewritten[w] : t # u

\* What a thread has loaded of M is what is there, unless another has stored it since.
StaleInv ==
  \A t \in BloomWorker : blPc[t] = "storeM" =>
    copy[t] = M[WordAt(t)] \/ \E u \in rewritten[WordAt(t)] : u # t

\* Vertex v has come into M, or is about to, and out of it; or its word is shared.
Added(v) ==
  \/ v \in M[WordOf[v]] \/ Shared(WordOf[v])
  \/ \E t \in BloomWorker : blPc[t] \in OnM /\ At(t) = v
Removed(v) == v \notin M[WordOf[v]] \/ Shared(WordOf[v])

\* A member that is checked is added ...
CheckedInv ==
  phase = "ones" =>
    /\ \A w \in Set : \A v \in checked[w] \cap Member : Added(v)
    /\ \A t \in BloomWorker : blPc[t] = "storeC" => \A v \in copy[t] \cap Member : Added(v)

\* ... and so is, or is removed, each that a thread has passed.
Passed(w, k) ==
  /\ w < nextLoc
  /\ \A t \in BloomWorker : blPc[t] \in OnWord /\ nL[t] = w => k < blN[t]

PassedInv ==
  \A w \in FilterWord : \A k \in DOMAIN filter.vertices[w] : Passed(w, k) =>
    /\ phase = "ones" /\ filter.vertices[w][k] \in Member => Added(filter.vertices[w][k])
    /\ phase = "zeros" => Removed(filter.vertices[w][k])

BloomIInv ==
  /\ BloomTypeOK /\ PhaseInv /\ TakenInv /\ TotalInv /\ MethodIsRight /\ VertexInv
  /\ OnlyWhatIsFound /\ StaleInv /\ CheckedInv /\ PassedInv

\* The threads, the words and the vertices.
LEMMA BloomNames ==
  /\ IsFiniteSet(BloomWorker) /\ BloomWorker # {} /\ FilterWords \in Nat \ {0}
  /\ VECT_SIZE \in Nat /\ IsFiniteSet(Vertex) /\ Member \subseteq Vertex
  /\ WordOf \in [Vertex -> Nat] /\ FilterWord = 1 .. FilterWords
  /\ \A v \in Vertex : WordOf[v] \in Set /\ v \in In(WordOf[v])
  /\ \A w : In(w) \subseteq Vertex
  BY BloomAssumption DEF FilterWord, Set, In

\* The filter is one of those considered.
LEMMA FilterIs ==
  ASSUME BloomTypeOK
  PROVE  /\ filter.ones \in [FilterWord -> Nat] /\ filter.vertices \in [FilterWord -> Seq(Vertex)]
         /\ \A t \in BloomWorker :
              /\ nL[t] \in FilterWord /\ blN[t] \in Nat \ {0} /\ copy[t] \in SUBSET Vertex
              /\ Vertices(t) \in Seq(Vertex) /\ Len(Vertices(t)) \in Nat
              /\ Vertices(t) = filter.vertices[nL[t]] /\ At(t) = filter.vertices[nL[t]][blN[t]]
<1>1. filter.ones \in [FilterWord -> Nat] /\ filter.vertices \in [FilterWord -> Seq(Vertex)]
  BY BloomAssumption DEF BloomTypeOK, FilterWord
<1>2. \A t \in BloomWorker :
        nL[t] \in FilterWord /\ blN[t] \in Nat \ {0} /\ copy[t] \in SUBSET Vertex
  BY DEF BloomTypeOK
<1>q. QED BY <1>1, <1>2 DEF Vertices, At

\* Each vertex of the filter has been found.
LEMMA VertexIs ==
  ASSUME BloomTypeOK, NEW w \in FilterWord, NEW k \in 1 .. Len(filter.vertices[w])
  PROVE  /\ filter.vertices[w][k] \in Vertex /\ filter.vertices[w][k] \in Found
         /\ k \in DOMAIN filter.vertices[w]
<1>1. filter.vertices[w] \in Seq(Vertex) BY FilterIs
<1>2. filter.vertices[w][k] \in Vertex /\ k \in DOMAIN filter.vertices[w] BY <1>1
<1>q. QED BY <1>2 DEF Found

\* A thread that has a vertex in hand.
LEMMA HandIs ==
  ASSUME BloomTypeOK, NEW t \in BloomWorker, blN[t] <= Len(Vertices(t))
  PROVE  /\ At(t) \in Vertex /\ At(t) \in Found /\ WordAt(t) = WordOf[At(t)]
         /\ WordAt(t) \in Set /\ At(t) \in In(WordAt(t))
         /\ blN[t] \in 1 .. Len(filter.vertices[nL[t]])
<1>1. /\ nL[t] \in FilterWord /\ blN[t] \in Nat \ {0} /\ Len(Vertices(t)) \in Nat
      /\ Vertices(t) = filter.vertices[nL[t]] /\ At(t) = filter.vertices[nL[t]][blN[t]]
  BY FilterIs
<1>2. blN[t] \in 1 .. Len(filter.vertices[nL[t]]) BY <1>1
<1>3. At(t) \in Vertex /\ At(t) \in Found BY <1>1, <1>2, VertexIs
<1>q. QED BY <1>2, <1>3, BloomNames DEF WordAt

\* Some words have finitely many ones, and one word more has as many more.
LEMMA OnesAreCounted ==
  ASSUME BloomTypeOK, NEW S \in SUBSET FilterWord
  PROVE  IsFiniteSet(OnesOf(S)) /\ Cardinality(OnesOf(S)) \in Nat
<1>1. \A w \in S : IsFiniteSet({w} \X (1 .. filter.ones[w]))
  <2>1. SUFFICES ASSUME NEW w \in S PROVE IsFiniteSet({w} \X (1 .. filter.ones[w])) OBVIOUS
  <2>2. filter.ones[w] \in Nat BY FilterIs
  <2>3. IsFiniteSet(1 .. filter.ones[w]) BY <2>2, FS_Interval
  <2>q. QED BY <2>3, FS_Singleton, FS_Product
<1>2. IsFiniteSet(S)
  <2>1. IsFiniteSet(FilterWord) BY BloomNames, FS_Interval
  <2>q. QED BY <2>1, FS_Subset
<1>3. IsFiniteSet({{w} \X (1 .. filter.ones[w]) : w \in S})
  <2>1. PICK T : T = {{w} \X (1 .. filter.ones[w]) : w \in S} OBVIOUS
  <2>2. PICK f : f = [w \in S |-> {w} \X (1 .. filter.ones[w])] OBVIOUS
  <2>3. f \in [S -> T] /\ \A z \in T : \E w \in S : f[w] = z BY <2>1, <2>2
  <2>4. f \in Surjection(S, T) BY <2>3 DEF Surjection
  <2>5. IsFiniteSet(T) BY <1>2, <2>4, FS_Surjection
  <2>q. QED BY <2>1, <2>5
<1>4. IsFiniteSet(OnesOf(S)) BY <1>1, <1>3, FS_UNION DEF OnesOf
<1>q. QED BY <1>4, FS_CardinalityType

\* The words up to the next.
LEMMA OneWordMore ==
  ASSUME BloomTypeOK, NEW S \in SUBSET FilterWord, NEW w \in FilterWord, w \notin S
  PROVE  Cardinality(OnesOf(S \cup {w})) = Cardinality(OnesOf(S)) + filter.ones[w]
<1>1. PICK O : O = {w} \X (1 .. filter.ones[w]) OBVIOUS
<1>2. OnesOf(S \cup {w}) = OnesOf(S) \cup O BY <1>1 DEF OnesOf
<1>3. OnesOf(S) \cap O = {} BY <1>1 DEF OnesOf
<1>4. filter.ones[w] \in Nat BY FilterIs
<1>5. IsFiniteSet(O) /\ Cardinality(O) = filter.ones[w]
  <2>1. IsFiniteSet(1 .. filter.ones[w]) /\ Cardinality(1 .. filter.ones[w]) = filter.ones[w]
    <3>1. PICK n \in Nat : n = filter.ones[w] BY <1>4
    <3>2. 1 \in Int /\ n \in Int BY <3>1
    <3>3. IsFiniteSet(1 .. n) /\ Cardinality(1 .. n) = IF 1 > n THEN 0 ELSE n - 1 + 1
      BY <3>2, FS_Interval
    <3>4. Cardinality(1 .. n) = n BY <3>1, <3>3
    <3>q. QED BY <3>1, <3>3, <3>4
  <2>2. IsFiniteSet({w}) /\ Cardinality({w}) = 1 BY FS_Singleton
  <2>3. IsFiniteSet(O) /\ Cardinality(O) = 1 * filter.ones[w]
    BY ZenonT(60), <1>1, <2>1, <2>2, FS_Product
  <2>q. QED BY <1>4, <2>3
<1>6. IsFiniteSet(OnesOf(S)) /\ Cardinality(OnesOf(S)) \in Nat BY OnesAreCounted
<1>7. Cardinality(OnesOf(S) \cup O) =
        Cardinality(OnesOf(S)) + Cardinality(O) - Cardinality(OnesOf(S) \cap O)
  BY <1>5, <1>6, FS_Union
<1>8. Cardinality(OnesOf(S) \cap O) = 0 BY <1>3, FS_EmptySet
<1>9. PICK a \in Nat : a = Cardinality(OnesOf(S)) BY <1>6
<1>10. PICK b \in Nat : b = filter.ones[w] BY <1>4
<1>11. Cardinality(OnesOf(S) \cup O) = a + b BY <1>5, <1>7, <1>8, <1>9, <1>10
<1>q. QED BY <1>2, <1>9, <1>10, <1>11

\* What has been added stays, or its word is shared.
LEMMA AddedStays ==
  ASSUME NEW v \in Vertex, Added(v),
         \A w \in Set : Shared(w) => Shared(w)',
         \A w \in Set : M[w] \subseteq M'[w] \/ Shared(w)',
         \A t \in BloomWorker : blPc[t] \in OnM /\ At(t) = v =>
            (blPc'[t] \in OnM /\ At(t)' = v) \/ v \in M'[WordOf[v]]
  PROVE  Added(v)'
<1>1. WordOf[v] \in Set BY BloomNames
<1>2. CASE v \in M[WordOf[v]] BY <1>1, <1>2 DEF Added
<1>3. CASE Shared(WordOf[v]) BY <1>1, <1>3 DEF Added
<1>4. CASE \E t \in BloomWorker : blPc[t] \in OnM /\ At(t) = v BY <1>4 DEF Added
<1>q. QED BY <1>2, <1>3, <1>4 DEF Added

\* Nothing comes into M or out of it but by StoreM.
LEMMA MStays ==
  ASSUME M' = M, rewritten' = rewritten, filter' = filter,
         \A t \in BloomWorker : blPc[t] \in OnM =>
            blPc'[t] \in OnM /\ nL'[t] = nL[t] /\ blN'[t] = blN[t]
  PROVE  \A v \in Vertex : (Added(v) => Added(v)') /\ (Removed(v) => Removed(v)')
<1>1. \A w : Shared(w)' = Shared(w) BY DEF Shared
<1>2. \A t \in BloomWorker : blPc[t] \in OnM => At(t)' = At(t) BY DEF At, Vertices
<1>3. SUFFICES ASSUME NEW v \in Vertex
               PROVE  (Added(v) => Added(v)') /\ (Removed(v) => Removed(v)')
  OBVIOUS
<1>4. Added(v) => Added(v)' BY <1>1, <1>2 DEF Added
<1>5. Removed(v) => Removed(v)' BY <1>1 DEF Removed
<1>q. QED BY <1>4, <1>5

\* A thread whose word and vertex are the same has the same vertex in hand.
LEMMA SameVertex ==
  ASSUME filter' = filter, NEW t, nL'[t] = nL[t], blN'[t] = blN[t]
  PROVE  /\ Vertices(t)' = Vertices(t) /\ At(t)' = At(t) /\ WordAt(t)' = WordAt(t)
  BY DEF Vertices, At, WordAt

\* Found and the ones are those of the filter.
LEMMA SameFilter ==
  ASSUME filter' = filter
  PROVE  Found' = Found /\ AllOnes' = AllOnes
  BY DEF Found, AllOnes, OnesOf

\* A step within a word neither counts nor takes one.
LEMMA WordSteps ==
  ASSUME BloomTypeOK, PhaseInv, TakenInv, MethodIsRight, NEW t \in BloomWorker,
         blPc[t] \in OnWord, blPc'[t] \in OnWord \cup {"take"},
         blPc'[t] \in {"loadC", "storeC"} => phase = "ones",
         \A u \in BloomWorker : u # t => blPc'[u] = blPc[u],
         filter' = filter, phase' = phase, nextLoc' = nextLoc, taken' = taken,
         totalOnes' = totalOnes, nL' = nL
  PROVE  PhaseInv' /\ TakenInv' /\ TotalInv' /\ MethodIsRight'
<1>n. phase \in {"ones", "zeros"} BY DEF PhaseInv
<1>1. PhaseInv' BY <1>n DEF PhaseInv, OnWord, OnVertex
<1>2. TakenInv' BY DEF TakenInv, OnWord, OnVertex
<1>3. TotalInv' BY <1>n DEF TotalInv
<1>4. MethodIsRight' BY SameFilter DEF MethodIsRight
<1>q. QED BY <1>1, <1>2, <1>3, <1>4

\* A thread that takes a word, or counts it, leaves the sets as they are.
LEMMA SetSteps ==
  ASSUME BloomTypeOK, VertexInv, OnlyWhatIsFound, StaleInv, CheckedInv,
         NEW t \in BloomWorker,
         blPc[t] \in {"take", "count"}, blPc'[t] \in {"take", "count", "next", "ended"},
         filter' = filter, phase' = phase, M' = M, checked' = checked, rewritten' = rewritten,
         copy' = copy,
         \A u \in BloomWorker : u # t =>
           blPc'[u] = blPc[u] /\ nL'[u] = nL[u] /\ blN'[u] = blN[u]
  PROVE  /\ VertexInv' /\ OnlyWhatIsFound' /\ StaleInv' /\ CheckedInv'
         /\ \A v \in Vertex : (Added(v) => Added(v)') /\ (Removed(v) => Removed(v)')
<1>f. Found' = Found BY SameFilter
<1>o. \A u \in BloomWorker : blPc'[u] \in OnVertex =>
        /\ blPc'[u] = blPc[u] /\ nL'[u] = nL[u] /\ blN'[u] = blN[u]
        /\ Vertices(u)' = Vertices(u) /\ At(u)' = At(u) /\ WordAt(u)' = WordAt(u)
  <2>1. SUFFICES ASSUME NEW u \in BloomWorker, blPc'[u] \in OnVertex
                 PROVE  /\ blPc'[u] = blPc[u] /\ nL'[u] = nL[u] /\ blN'[u] = blN[u]
                        /\ Vertices(u)' = Vertices(u) /\ At(u)' = At(u) /\ WordAt(u)' = WordAt(u)
    OBVIOUS
  <2>2. u # t BY <2>1 DEF OnVertex
  <2>q. QED BY <2>2, SameVertex
<1>1. VertexInv'
  <2>1. \A u \in BloomWorker : blPc'[u] \in OnVertex => (blN[u] <= Len(Vertices(u)))'
    BY <1>o DEF VertexInv
  <2>2. \A u \in BloomWorker : blPc'[u] \in OnM /\ phase = "ones" => At(u)' \in Member
    BY <1>o DEF VertexInv, OnM, OnVertex
  <2>3. \A u \in BloomWorker : blPc'[u] \in {"storeC", "storeM"} => copy[u] \subseteq In(WordAt(u)')
    BY <1>o DEF VertexInv, OnVertex
  <2>4. \A u \in BloomWorker : blPc'[u] = "storeM" =>
          /\ phase = "ones" => copy[u] \subseteq Member \cap Found
          /\ phase = "zeros" => In(WordAt(u)') \ Found \subseteq copy[u]
    BY <1>o DEF VertexInv, OnVertex
  <2>5. \A w, z : w = z => In(w) = In(z) OBVIOUS
  <2>q. QED BY <1>f, <2>1, <2>2, <2>3, <2>4 DEF VertexInv, In
<1>2. OnlyWhatIsFound' BY <1>f DEF OnlyWhatIsFound
<1>3. StaleInv' BY <1>o DEF StaleInv, OnVertex
<1>4. \A v \in Vertex : (Added(v) => Added(v)') /\ (Removed(v) => Removed(v)')
  <2>1. \A u \in BloomWorker : blPc[u] \in OnM =>
          blPc'[u] \in OnM /\ nL'[u] = nL[u] /\ blN'[u] = blN[u]
    BY DEF OnM
  <2>q. QED BY <2>1, MStays
<1>5. CheckedInv'
  <2>1. SUFFICES ASSUME phase = "ones"
                 PROVE  /\ \A w \in Set : \A v \in checked[w] \cap Member : Added(v)'
                        /\ \A u \in BloomWorker : blPc'[u] = "storeC" =>
                             \A v \in copy[u] \cap Member : Added(v)'
    BY DEF CheckedInv
  <2>2. \A v \in Member : v \in Vertex BY BloomNames
  <2>3. \A w \in Set : \A v \in checked[w] \cap Member : Added(v)'
    BY <1>4, <2>1, <2>2 DEF CheckedInv
  <2>4. \A u \in BloomWorker : blPc'[u] = "storeC" => \A v \in copy[u] \cap Member : Added(v)'
    BY <1>4, <1>o, <2>1, <2>2 DEF CheckedInv, OnVertex
  <2>q. QED BY <2>3, <2>4
<1>q. QED BY <1>1, <1>2, <1>3, <1>4, <1>5

\* A thread takes the next word, or ends.
LEMMA TakeWordStep ==
  ASSUME BloomIInv, NEW t \in BloomWorker, TakeWord(t)
  PROVE  BloomIInv'
<1>a. /\ BloomTypeOK /\ PhaseInv /\ TakenInv /\ TotalInv /\ MethodIsRight /\ VertexInv
      /\ OnlyWhatIsFound /\ StaleInv /\ CheckedInv /\ PassedInv
  BY DEF BloomIInv
<1>e. /\ blPc[t] = "take" /\ blN' = [blN EXCEPT ![t] = 1]
      /\ localCount' = [localCount EXCEPT ![t] = 0]
      /\ UNCHANGED <<filter, phase, totalOnes, numMemberships, M, checked, rewritten, copy>>
  BY DEF TakeWord, counts, sets
<1>t. /\ DOMAIN blPc = BloomWorker /\ DOMAIN nL = BloomWorker /\ DOMAIN blN = BloomWorker
      /\ nextLoc \in 1 .. FilterWords + 1 /\ FilterWords \in Nat \ {0}
      /\ FilterWord = 1 .. FilterWords
      /\ DOMAIN taken = FilterWord /\ \A u \in BloomWorker : nL[u] \in FilterWord
  BY <1>a, BloomNames DEF BloomTypeOK
<1>f. Found' = Found /\ AllOnes' = AllOnes BY <1>e, SameFilter
<1>8. MethodIsRight' BY <1>a, <1>e, <1>f DEF MethodIsRight
<1>A. CASE nextLoc <= FilterWords
  <2>1. PICK label : label = IF phase = "count" THEN "count" ELSE "next" OBVIOUS
  <2>e. /\ nL' = [nL EXCEPT ![t] = nextLoc] /\ nextLoc' = nextLoc + 1
        /\ taken' = [w \in FilterWord |-> IF w = nextLoc THEN taken[w] \cup {t} ELSE taken[w]]
        /\ blPc' = [blPc EXCEPT ![t] = label]
    BY <1>A, <2>1 DEF TakeWord, HasNext, BloomGoto
  <2>p. /\ \A u \in BloomWorker : blPc'[u] = IF u = t THEN label ELSE blPc[u]
        /\ \A u \in BloomWorker : nL'[u] = IF u = t THEN nextLoc ELSE nL[u]
        /\ \A u \in BloomWorker : blN'[u] = IF u = t THEN 1 ELSE blN[u]
        /\ \A w \in FilterWord : taken'[w] = IF w = nextLoc THEN taken[w] \cup {t} ELSE taken[w]
        /\ nextLoc \in FilterWord
    BY <1>A, <1>e, <1>t, <2>e
  <2>2. BloomTypeOK'
    <3>1. label \in {"count", "next"} BY <2>1
    <3>2. nextLoc' \in 1 .. FilterWords + 1 BY <1>A, <1>t, <2>e
    <3>3. taken' \in [FilterWord -> SUBSET BloomWorker] BY <1>a, <2>e DEF BloomTypeOK
    <3>4. nL' \in [BloomWorker -> FilterWord] BY <1>a, <2>e, <2>p DEF BloomTypeOK
    <3>5. blPc' \in [BloomWorker -> {"take", "count", "next", "loadC", "storeC", "loadM", "storeM",
                                     "ended"}]
      BY <1>a, <2>e, <3>1 DEF BloomTypeOK
    <3>6. blN' \in [BloomWorker -> Nat \ {0}] /\ localCount' \in [BloomWorker -> Nat]
      BY <1>a, <1>e DEF BloomTypeOK
    <3>q. QED BY <1>a, <1>e, <3>2, <3>3, <3>4, <3>5, <3>6 DEF BloomTypeOK
  <2>3. PhaseInv'
    <3>1. phase # "ended" BY <1>a, <1>e DEF PhaseInv
    <3>2. phase \in {"count", "ones", "zeros"} BY <1>a, <3>1 DEF BloomTypeOK
    <3>3. \A u \in BloomWorker : blPc'[u] # "ended"
      BY <1>A, <1>a, <1>t, <2>1, <2>p DEF PhaseInv
    <3>q. QED BY <1>a, <1>e, <2>1, <2>p, <3>2, <3>3 DEF PhaseInv, OnWord, OnVertex
  <2>4. TakenInv'
    <3>0. taken[nextLoc] = {} BY <1>a, <1>t, <2>p DEF TakenInv
    <3>1. \A w \in FilterWord : w < nextLoc' => \E u \in BloomWorker : taken'[w] = {u}
      <4>1. SUFFICES ASSUME NEW w \in FilterWord, w < nextLoc'
                     PROVE  \E u \in BloomWorker : taken'[w] = {u}
        OBVIOUS
      <4>2. CASE w = nextLoc BY <2>p, <3>0, <4>2
      <4>3. CASE w # nextLoc
        <5>1. w < nextLoc BY <1>t, <2>e, <4>1, <4>3
        <5>2. PICK u \in BloomWorker : taken[w] = {u} BY <1>a, <5>1 DEF TakenInv
        <5>3. taken'[w] = taken[w] BY <2>p, <4>3
        <5>q. QED BY <5>2, <5>3
      <4>q. QED BY <4>2, <4>3
    <3>2. \A w \in FilterWord : w >= nextLoc' => taken'[w] = {}
      BY SMTT(30), <1>a, <1>t, <2>e, <2>p DEF TakenInv
    <3>3. \A u \in BloomWorker : blPc'[u] \in OnWord \cup {"count"} =>
            nL'[u] < nextLoc' /\ taken'[nL'[u]] = {u}
      <4>1. SUFFICES ASSUME NEW u \in BloomWorker, blPc'[u] \in OnWord \cup {"count"}
                     PROVE  nL'[u] < nextLoc' /\ taken'[nL'[u]] = {u}
        OBVIOUS
      <4>2. CASE u = t
        <5>1. nL'[u] = nextLoc BY <2>p, <4>2
        <5>2. taken'[nextLoc] = {u} BY <2>p, <3>0, <4>2
        <5>3. nextLoc < nextLoc' BY <1>t, <2>e
        <5>q. QED BY <5>1, <5>2, <5>3
      <4>3. CASE u # t
        <5>1. nL'[u] = nL[u] /\ blPc'[u] = blPc[u] BY <2>p, <4>3
        <5>2. nL[u] < nextLoc /\ taken[nL[u]] = {u} BY <1>a, <4>1, <5>1 DEF TakenInv
        <5>5. nL[u] \in FilterWord /\ nL[u] # nextLoc BY <1>t, <5>2
        <5>3. taken'[nL[u]] = {u} BY <2>p, <5>2, <5>5
        <5>4. nL[u] < nextLoc' BY <1>t, <2>e, <5>2
        <5>q. QED BY <5>1, <5>3, <5>4
      <4>q. QED BY <4>2, <4>3
    <3>q. QED BY <3>1, <3>2, <3>3 DEF TakenInv
  <2>5. TotalInv'
    <3>1. SUFFICES ASSUME phase = "count" PROVE totalOnes = Cardinality(OnesOf(Counted)')
      BY <1>e DEF TotalInv
    <3>2. label = "count" BY <2>1, <3>1
    <3>3. Counted' = Counted
      <4>1. SUFFICES ASSUME NEW w \in FilterWord PROVE w \in Counted' <=> w \in Counted
        BY DEF Counted
      <4>2. CASE w = nextLoc
        <5>1. w \notin Counted BY <4>2, <1>t DEF Counted
        <5>2. w \notin Counted' BY <2>p, <3>2, <4>2 DEF Counted
        <5>q. QED BY <5>1, <5>2
      <4>3. CASE w # nextLoc
        <5>1. w < nextLoc' <=> w < nextLoc BY <1>t, <2>e, <4>3
        <5>2. \A u \in BloomWorker :
                (blPc'[u] = "count" /\ nL'[u] = w) <=> (blPc[u] = "count" /\ nL[u] = w)
          BY <1>e, <2>p, <4>3
        <5>q. QED BY <5>1, <5>2 DEF Counted
      <4>q. QED BY <4>2, <4>3
    <3>4. OnesOf(Counted)' = OnesOf(Counted) BY <1>e, <3>3 DEF OnesOf
    <3>q. QED BY <1>a, <3>1, <3>4 DEF TotalInv
  <2>6. /\ VertexInv' /\ OnlyWhatIsFound' /\ StaleInv' /\ CheckedInv'
        /\ \A v \in Vertex : (Added(v) => Added(v)') /\ (Removed(v) => Removed(v)')
    <3>1. blPc[t] \in {"take", "count"} /\ blPc'[t] \in {"take", "count", "next", "ended"}
      BY <1>e, <2>1, <2>p
    <3>2. \A u \in BloomWorker : u # t =>
            blPc'[u] = blPc[u] /\ nL'[u] = nL[u] /\ blN'[u] = blN[u]
      BY <2>p
    <3>q. QED BY <1>a, <1>e, <3>1, <3>2, SetSteps
  <2>7. PassedInv'
    <3>1. SUFFICES ASSUME NEW w \in FilterWord, NEW k \in DOMAIN filter.vertices[w], Passed(w, k)',
                          NEW v, v = filter.vertices[w][k]
                   PROVE  /\ phase = "ones" /\ v \in Member => Added(v)'
                          /\ phase = "zeros" => Removed(v)'
      BY <1>e DEF PassedInv, Added, Removed, Shared, At, Vertices
    <3>0. SUFFICES ASSUME phase \in {"ones", "zeros"}
                   PROVE  /\ phase = "ones" /\ v \in Member => Added(v)'
                          /\ phase = "zeros" => Removed(v)'
      OBVIOUS
    <3>2. k \in 1 .. Len(filter.vertices[w])
      <4>1. filter.vertices[w] \in Seq(Vertex) BY <1>a, FilterIs
      <4>q. QED BY <3>1, <4>1
    <3>3. label = "next" BY <2>1, <3>0
    <3>4. w # nextLoc
      <4>1. SUFFICES ASSUME w = nextLoc PROVE FALSE OBVIOUS
      <4>2. blPc'[t] \in OnWord /\ nL'[t] = w /\ blN'[t] = 1 BY <2>p, <3>3, <4>1 DEF OnWord
      <4>3. k < 1 BY <3>1, <4>2 DEF Passed
      <4>q. QED BY <3>2, <4>3
    <3>5. w < nextLoc BY <1>t, <2>e, <3>1, <3>4 DEF Passed
    <3>6. \A u \in BloomWorker : blPc[u] \in OnWord /\ nL[u] = w => k < blN[u]
      <4>1. \A u \in BloomWorker : blPc[u] \in OnWord => u # t BY <1>e DEF OnWord, OnVertex
      <4>q. QED BY <2>p, <3>1, <4>1 DEF Passed
    <3>7. Passed(w, k) BY <3>5, <3>6 DEF Passed
    <3>8. v \in Vertex BY <1>a, <3>1, <3>2, VertexIs
    <3>9. /\ phase = "ones" /\ v \in Member => Added(v)
          /\ phase = "zeros" => Removed(v)
      BY <1>a, <3>1, <3>7 DEF PassedInv
    <3>q. QED BY <2>6, <3>8, <3>9
  <2>q. QED BY <1>8, <2>2, <2>3, <2>4, <2>5, <2>6, <2>7 DEF BloomIInv
<1>B. CASE ~ nextLoc <= FilterWords
  <2>e. /\ blPc' = [blPc EXCEPT ![t] = "ended"] /\ nL' = nL /\ nextLoc' = nextLoc /\ taken' = taken
    BY <1>B DEF TakeWord, HasNext, BloomGoto, handout
  <2>p. /\ \A u \in BloomWorker : blPc'[u] = IF u = t THEN "ended" ELSE blPc[u]
        /\ \A u \in BloomWorker : blN'[u] = IF u = t THEN 1 ELSE blN[u]
    BY <1>e, <1>t, <2>e
  <2>2. BloomTypeOK'
    <3>1. blPc' \in [BloomWorker -> {"take", "count", "next", "loadC", "storeC", "loadM", "storeM",
                                     "ended"}]
      BY <1>a, <2>e DEF BloomTypeOK
    <3>2. blN' \in [BloomWorker -> Nat \ {0}] /\ localCount' \in [BloomWorker -> Nat]
      BY <1>a, <1>e DEF BloomTypeOK
    <3>q. QED BY <1>a, <1>e, <2>e, <3>1, <3>2 DEF BloomTypeOK
  <2>3. PhaseInv'
    <3>1. nextLoc > FilterWords BY <1>B, <1>t
    <3>2. phase # "ended" BY <1>a, <1>e DEF PhaseInv
    <3>q. QED BY <1>a, <1>e, <2>e, <2>p, <3>1, <3>2 DEF PhaseInv, OnWord, OnVertex
  <2>4. TakenInv' BY <1>a, <2>e, <2>p DEF TakenInv, OnWord, OnVertex
  <2>5. TotalInv'
    <3>1. \A u \in BloomWorker : blPc'[u] = "count" <=> blPc[u] = "count" BY <1>e, <2>p
    <3>2. Counted' = Counted BY <2>e, <3>1 DEF Counted
    <3>3. OnesOf(Counted)' = OnesOf(Counted) BY <1>e, <3>2 DEF OnesOf
    <3>q. QED BY <1>a, <1>e, <3>3 DEF TotalInv
  <2>6. /\ VertexInv' /\ OnlyWhatIsFound' /\ StaleInv' /\ CheckedInv'
        /\ \A v \in Vertex : (Added(v) => Added(v)') /\ (Removed(v) => Removed(v)')
    <3>1. blPc[t] \in {"take", "count"} /\ blPc'[t] \in {"take", "count", "next", "ended"}
      BY <1>e, <2>p
    <3>2. \A u \in BloomWorker : u # t =>
            blPc'[u] = blPc[u] /\ nL'[u] = nL[u] /\ blN'[u] = blN[u]
      BY <2>e, <2>p
    <3>q. QED BY <1>a, <1>e, <3>1, <3>2, SetSteps
  <2>7. PassedInv'
    <3>1. SUFFICES ASSUME NEW w \in FilterWord, NEW k \in DOMAIN filter.vertices[w], Passed(w, k)',
                          NEW v, v = filter.vertices[w][k]
                   PROVE  /\ phase = "ones" /\ v \in Member => Added(v)'
                          /\ phase = "zeros" => Removed(v)'
      BY <1>e DEF PassedInv, Added, Removed, Shared, At, Vertices
    <3>2. k \in 1 .. Len(filter.vertices[w])
      <4>1. filter.vertices[w] \in Seq(Vertex) BY <1>a, FilterIs
      <4>q. QED BY <3>1, <4>1
    <3>3. \A u \in BloomWorker : blPc[u] \in OnWord => u # t BY <1>e DEF OnWord, OnVertex
    <3>4. Passed(w, k) BY <2>e, <2>p, <3>1, <3>3 DEF Passed
    <3>5. v \in Vertex BY <1>a, <3>1, <3>2, VertexIs
    <3>9. /\ phase = "ones" /\ v \in Member => Added(v)
          /\ phase = "zeros" => Removed(v)
      BY <1>a, <3>1, <3>4 DEF PassedInv
    <3>q. QED BY <2>6, <3>5, <3>9
  <2>q. QED BY <1>8, <2>2, <2>3, <2>4, <2>5, <2>6, <2>7 DEF BloomIInv
<1>q. QED BY <1>A, <1>B

\* A thread adds the ones of its word to the total.
LEMMA CountOnesStep ==
  ASSUME BloomIInv, NEW t \in BloomWorker, CountOnes(t)
  PROVE  BloomIInv'
<1>a. /\ BloomTypeOK /\ PhaseInv /\ TakenInv /\ TotalInv /\ MethodIsRight /\ VertexInv
      /\ OnlyWhatIsFound /\ StaleInv /\ CheckedInv /\ PassedInv
  BY DEF BloomIInv
<1>e. /\ blPc[t] = "count" /\ totalOnes' = totalOnes + filter.ones[nL[t]]
      /\ blPc' = [blPc EXCEPT ![t] = "take"]
      /\ filter' = filter /\ phase' = phase /\ nextLoc' = nextLoc /\ taken' = taken
      /\ numMemberships' = numMemberships /\ M' = M /\ checked' = checked /\ rewritten' = rewritten
      /\ nL' = nL /\ blN' = blN /\ copy' = copy /\ localCount' = localCount
  BY DEF CountOnes, BloomGoto, Sum_, handout, sets
<1>p. /\ DOMAIN blPc = BloomWorker
      /\ \A u \in BloomWorker : blPc'[u] = IF u = t THEN "take" ELSE blPc[u]
  BY <1>a, <1>e DEF BloomTypeOK
<1>c. phase = "count" BY <1>a, <1>e DEF PhaseInv
<1>n. nL[t] \in FilterWord /\ filter.ones[nL[t]] \in Nat /\ totalOnes \in Nat
  BY <1>a, FilterIs DEF BloomTypeOK
<1>1. BloomTypeOK'
  <2>1. totalOnes' \in Nat BY <1>e, <1>n
  <2>2. blPc' \in [BloomWorker -> {"take", "count", "next", "loadC", "storeC", "loadM", "storeM",
                                   "ended"}]
    BY <1>a, <1>e DEF BloomTypeOK
  <2>q. QED BY <1>a, <1>e, <2>1, <2>2 DEF BloomTypeOK
<1>2. PhaseInv' BY <1>a, <1>c, <1>e, <1>p DEF PhaseInv, OnWord, OnVertex
<1>3. TakenInv' BY <1>a, <1>e, <1>p DEF TakenInv, OnWord, OnVertex
<1>4. TotalInv'
  <2>0. nL[t] < nextLoc /\ taken[nL[t]] = {t} BY <1>a, <1>e DEF TakenInv
  <2>1. nL[t] \notin Counted BY <1>e DEF Counted
  <2>2. Counted' = Counted \cup {nL[t]}
    <3>1. SUFFICES ASSUME NEW w \in FilterWord PROVE w \in Counted' <=> w \in Counted \/ w = nL[t]
      BY <1>n DEF Counted
    <3>2. CASE w = nL[t]
      <4>1. \A u \in BloomWorker : blPc[u] = "count" /\ nL[u] = w => u = t
        BY <1>a, <2>0, <3>2 DEF TakenInv
      <4>2. ~ \E u \in BloomWorker : blPc'[u] = "count" /\ nL'[u] = w BY <1>e, <1>p, <4>1
      <4>q. QED BY <1>e, <2>0, <3>2, <4>2 DEF Counted
    <3>3. CASE w # nL[t]
      <4>1. \A u \in BloomWorker :
              (blPc'[u] = "count" /\ nL'[u] = w) <=> (blPc[u] = "count" /\ nL[u] = w)
        BY <1>e, <1>p, <3>3
      <4>q. QED BY <1>e, <3>3, <4>1 DEF Counted
    <3>q. QED BY <3>2, <3>3
  <2>3. Counted \in SUBSET FilterWord BY DEF Counted
  <2>4. Cardinality(OnesOf(Counted \cup {nL[t]})) =
          Cardinality(OnesOf(Counted)) + filter.ones[nL[t]]
    BY <1>a, <1>n, <2>1, <2>3, OneWordMore
  <2>5. OnesOf(Counted)' = OnesOf(Counted \cup {nL[t]}) BY <1>e, <2>2 DEF OnesOf
  <2>6. totalOnes = Cardinality(OnesOf(Counted)) BY <1>a, <1>c DEF TotalInv
  <2>7. Cardinality(OnesOf(Counted)') = totalOnes' BY <1>e, <2>4, <2>5, <2>6
  <2>q. QED BY <2>7 DEF TotalInv
<1>5. MethodIsRight' BY <1>c, <1>e DEF MethodIsRight
<1>6. /\ VertexInv' /\ OnlyWhatIsFound' /\ StaleInv' /\ CheckedInv'
      /\ \A v \in Vertex : (Added(v) => Added(v)') /\ (Removed(v) => Removed(v)')
  <2>1. blPc[t] \in {"take", "count"} /\ blPc'[t] \in {"take", "count", "next", "ended"}
    BY <1>e, <1>p
  <2>2. \A u \in BloomWorker : u # t =>
          blPc'[u] = blPc[u] /\ nL'[u] = nL[u] /\ blN'[u] = blN[u]
    BY <1>e, <1>p
  <2>q. QED BY <1>a, <1>e, <2>1, <2>2, SetSteps
<1>7. PassedInv' BY <1>c, <1>e DEF PassedInv
<1>q. QED BY <1>1, <1>2, <1>3, <1>4, <1>5, <1>6, <1>7 DEF BloomIInv

\* The other threads keep what they have in hand while one goes on within its word.
LEMMA OthersKeep ==
  ASSUME BloomTypeOK, VertexInv, NEW t \in BloomWorker,
         filter' = filter, phase' = phase, nL' = nL,
         \A u \in BloomWorker : u # t =>
           blPc'[u] = blPc[u] /\ blN'[u] = blN[u] /\ copy'[u] = copy[u],
         blPc'[t] \in OnVertex => blN'[t] <= Len(Vertices(t)),
         blPc'[t] \in OnM /\ phase = "ones" => At(t)' \in Member,
         blPc'[t] \in {"storeC", "storeM"} => copy'[t] \subseteq In(WordAt(t)'),
         blPc'[t] = "storeM" =>
           /\ phase = "ones" => copy'[t] \subseteq Member \cap Found
           /\ phase = "zeros" => In(WordAt(t)') \ Found \subseteq copy'[t]
  PROVE  /\ VertexInv'
         /\ \A u \in BloomWorker : u # t =>
              Vertices(u)' = Vertices(u) /\ At(u)' = At(u) /\ WordAt(u)' = WordAt(u)
<1>f. Found' = Found BY SameFilter
<1>o. \A u \in BloomWorker : u # t =>
        Vertices(u)' = Vertices(u) /\ At(u)' = At(u) /\ WordAt(u)' = WordAt(u)
  BY SameVertex
<1>t. Vertices(t)' = Vertices(t) BY DEF Vertices
<1>1. \A u \in BloomWorker : blPc'[u] \in OnVertex => blN'[u] <= Len(Vertices(u)')
  <2>1. SUFFICES ASSUME NEW u \in BloomWorker, blPc'[u] \in OnVertex
                 PROVE  blN'[u] <= Len(Vertices(u)')
    OBVIOUS
  <2>2. CASE u = t BY <1>t, <2>1, <2>2
  <2>3. CASE u # t BY <1>o, <2>1, <2>3 DEF VertexInv
  <2>q. QED BY <2>2, <2>3
<1>2. \A u \in BloomWorker : blPc'[u] \in OnM /\ phase = "ones" => At(u)' \in Member
  <2>1. SUFFICES ASSUME NEW u \in BloomWorker, blPc'[u] \in OnM, phase = "ones"
                 PROVE  At(u)' \in Member
    OBVIOUS
  <2>2. CASE u = t BY <2>1, <2>2
  <2>3. CASE u # t BY <1>o, <2>1, <2>3 DEF VertexInv
  <2>q. QED BY <2>2, <2>3
<1>3. \A u \in BloomWorker : blPc'[u] \in {"storeC", "storeM"} => copy'[u] \subseteq In(WordAt(u)')
  <2>1. SUFFICES ASSUME NEW u \in BloomWorker, blPc'[u] \in {"storeC", "storeM"}
                 PROVE  copy'[u] \subseteq In(WordAt(u)')
    OBVIOUS
  <2>2. CASE u = t BY <2>1, <2>2
  <2>3. CASE u # t BY <1>o, <2>1, <2>3 DEF VertexInv
  <2>q. QED BY <2>2, <2>3
<1>4. \A u \in BloomWorker : blPc'[u] = "storeM" =>
        /\ phase = "ones" => copy'[u] \subseteq Member \cap Found
        /\ phase = "zeros" => In(WordAt(u)') \ Found \subseteq copy'[u]
  <2>1. SUFFICES ASSUME NEW u \in BloomWorker, blPc'[u] = "storeM"
                 PROVE  /\ phase = "ones" => copy'[u] \subseteq Member \cap Found
                        /\ phase = "zeros" => In(WordAt(u)') \ Found \subseteq copy'[u]
    OBVIOUS
  <2>2. CASE u = t BY <2>1, <2>2
  <2>3. CASE u # t BY <1>o, <2>1, <2>3 DEF VertexInv
  <2>q. QED BY <2>2, <2>3
<1>5. VertexInv' BY <1>f, <1>1, <1>2, <1>3, <1>4 DEF VertexInv, In
<1>q. QED BY <1>o, <1>5

\* What has been passed has been added or removed, if no thread has passed more.
LEMMA NoMorePassed ==
  ASSUME BloomTypeOK, PassedInv, filter' = filter, phase' = phase,
         \A v \in Vertex : (Added(v) => Added(v)') /\ (Removed(v) => Removed(v)'),
         \A w \in FilterWord : \A k \in DOMAIN filter.vertices[w] :
           Passed(w, k)' => Passed(w, k) \/
             /\ phase = "ones" /\ filter.vertices[w][k] \in Member => Added(filter.vertices[w][k])
             /\ phase = "zeros" => Removed(filter.vertices[w][k])
  PROVE  PassedInv'
<1>1. SUFFICES ASSUME NEW w \in FilterWord, NEW k \in DOMAIN filter.vertices[w], Passed(w, k)',
                      NEW v, v = filter.vertices[w][k]
               PROVE  /\ phase = "ones" /\ v \in Member => Added(v)'
                      /\ phase = "zeros" => Removed(v)'
  BY DEF PassedInv, Added, Removed, Shared, At, Vertices
<1>2. k \in 1 .. Len(filter.vertices[w])
  <2>1. filter.vertices[w] \in Seq(Vertex) BY FilterIs
  <2>q. QED BY <1>1, <2>1
<1>3. v \in Vertex BY <1>1, <1>2, VertexIs
<1>4. /\ phase = "ones" /\ v \in Member => Added(v)
      /\ phase = "zeros" => Removed(v)
  BY <1>1 DEF PassedInv
<1>q. QED BY <1>3, <1>4

\* A thread that goes on to the next vertex has passed one more.
LEMMA OneMorePassed ==
  ASSUME BloomTypeOK, NEW t \in BloomWorker, blPc[t] \in OnWord, blPc'[t] \in OnWord,
         blN'[t] = blN[t] + 1, nextLoc' = nextLoc, nL' = nL,
         \A u \in BloomWorker : u # t => blPc'[u] = blPc[u] /\ blN'[u] = blN[u],
         NEW w \in FilterWord, NEW k \in DOMAIN filter.vertices[w], Passed(w, k)'
  PROVE  Passed(w, k) \/ (w = nL[t] /\ k = blN[t])
<1>1. k \in Nat /\ blN[t] \in Nat
  <2>1. filter.vertices[w] \in Seq(Vertex) BY FilterIs
  <2>q. QED BY <2>1, FilterIs
<1>2. SUFFICES ASSUME ~ (w = nL[t] /\ k = blN[t]) PROVE Passed(w, k) OBVIOUS
<1>3. w < nextLoc BY DEF Passed
<1>4. ASSUME NEW u \in BloomWorker, blPc[u] \in OnWord, nL[u] = w PROVE k < blN[u]
  <2>1. CASE u = t
    <3>1. k < blN'[t] BY <1>4, <2>1 DEF Passed
    <3>q. QED BY <1>1, <1>2, <1>4, <2>1, <3>1
  <2>2. CASE u # t BY <1>4, <2>2 DEF Passed
  <2>q. QED BY <2>1, <2>2
<1>q. QED BY <1>3, <1>4 DEF Passed

\* A step that leaves blN alone has passed nothing more.
LEMMA SamePassed ==
  ASSUME NEW t \in BloomWorker, blPc'[t] \in OnWord, nextLoc' = nextLoc, nL' = nL, blN' = blN,
         \A u \in BloomWorker : u # t => blPc'[u] = blPc[u],
         NEW w, NEW k, Passed(w, k)'
  PROVE  Passed(w, k)
<1>1. w < nextLoc BY DEF Passed
<1>2. ASSUME NEW u \in BloomWorker, blPc[u] \in OnWord, nL[u] = w PROVE k < blN[u]
  <2>1. CASE u = t BY <1>2, <2>1 DEF Passed
  <2>2. CASE u # t BY <1>2, <2>2 DEF Passed
  <2>q. QED BY <2>1, <2>2
<1>q. QED BY <1>1, <1>2 DEF Passed

\* A thread turns to the next vertex of its word.
LEMMA NextVertexStep ==
  ASSUME BloomIInv, NEW t \in BloomWorker, NextVertex(t)
  PROVE  BloomIInv'
<1>a. /\ BloomTypeOK /\ PhaseInv /\ TakenInv /\ TotalInv /\ MethodIsRight /\ VertexInv
      /\ OnlyWhatIsFound /\ StaleInv /\ CheckedInv /\ PassedInv
  BY DEF BloomIInv
<1>e. /\ blPc[t] = "next" /\ blN[t] <= Len(Vertices(t))
      /\ filter' = filter /\ phase' = phase /\ nextLoc' = nextLoc /\ taken' = taken
      /\ totalOnes' = totalOnes /\ numMemberships' = numMemberships
      /\ M' = M /\ checked' = checked /\ rewritten' = rewritten
      /\ nL' = nL /\ copy' = copy /\ localCount' = localCount
  BY DEF NextVertex, handout, counts, sets
<1>h. /\ At(t) \in Vertex /\ At(t) \in Found /\ WordAt(t) = WordOf[At(t)] /\ WordAt(t) \in Set
  BY <1>a, <1>e, HandIs, FilterIs
<1>v. At(t) = filter.vertices[nL[t]][blN[t]] BY DEF At, Vertices
<1>f. Found' = Found BY <1>e, SameFilter
<1>n. \A u \in BloomWorker : blN[u] \in Nat BY <1>a, FilterIs
<1>p. /\ DOMAIN blPc = BloomWorker /\ DOMAIN blN = BloomWorker
      /\ blPc'[t] \in {"loadM", "loadC", "next"} /\ blN'[t] \in {blN[t], blN[t] + 1}
      /\ \A u \in BloomWorker : u # t =>
           blPc'[u] = blPc[u] /\ blN'[u] = blN[u] /\ copy'[u] = copy[u]
      /\ blPc'[t] = "loadM" => phase = "zeros"
      /\ blPc'[t] = "loadC" => phase = "ones"
      /\ blPc'[t] \in {"loadM", "loadC"} => blN' = blN
      /\ blPc'[t] = "next" => /\ phase = "ones" /\ At(t) \in checked[WordAt(t)]
                              /\ blN'[t] = blN[t] + 1
  BY <1>a, <1>e DEF BloomTypeOK, NextVertex, BloomGoto, NextN
<1>1. BloomTypeOK'
  <2>1. blPc' \in [BloomWorker -> {"take", "count", "next", "loadC", "storeC", "loadM", "storeM",
                                   "ended"}]
    BY <1>a DEF BloomTypeOK, NextVertex, BloomGoto
  <2>2. blN' \in [BloomWorker -> Nat \ {0}]
    <3>1. blN[t] + 1 \in Nat \ {0} BY <1>n
    <3>q. QED BY <1>a, <3>1 DEF BloomTypeOK, NextVertex, NextN
  <2>q. QED BY <1>a, <1>e, <2>1, <2>2 DEF BloomTypeOK
<1>2. PhaseInv' /\ TakenInv' /\ TotalInv' /\ MethodIsRight'
  <2>1. blPc[t] \in OnWord /\ blPc'[t] \in OnWord \cup {"take"}
        /\ (blPc'[t] \in {"loadC", "storeC"} => phase = "ones")
    BY <1>e, <1>p DEF OnWord, OnVertex
  <2>q. QED BY <1>a, <1>e, <1>p, <2>1, WordSteps
<1>3. /\ VertexInv'
      /\ \A u \in BloomWorker : u # t =>
           Vertices(u)' = Vertices(u) /\ At(u)' = At(u) /\ WordAt(u)' = WordAt(u)
  <2>1. blPc'[t] \in OnVertex => blN'[t] <= Len(Vertices(t)) BY <1>e, <1>p DEF OnVertex
  <2>2. blPc'[t] \in OnM /\ phase = "ones" => At(t)' \in Member BY <1>p DEF OnM
  <2>3. blPc'[t] \notin {"storeC", "storeM"} /\ blPc'[t] # "storeM" BY <1>p
  <2>q. QED BY <1>a, <1>e, <1>p, <2>1, <2>2, <2>3, OthersKeep
<1>4. OnlyWhatIsFound' BY <1>a, <1>e, <1>f DEF OnlyWhatIsFound
<1>5. StaleInv'
  <2>1. SUFFICES ASSUME NEW u \in BloomWorker, blPc'[u] = "storeM"
                 PROVE  copy[u] = M[WordAt(u)'] \/ \E z \in rewritten[WordAt(u)'] : z # u
    BY <1>e DEF StaleInv
  <2>2. u # t BY <1>p, <2>1
  <2>q. QED BY <1>a, <1>3, <1>p, <2>1, <2>2 DEF StaleInv
<1>6. \A v \in Vertex : (Added(v) => Added(v)') /\ (Removed(v) => Removed(v)')
  <2>1. \A u \in BloomWorker : blPc[u] \in OnM =>
          blPc'[u] \in OnM /\ nL'[u] = nL[u] /\ blN'[u] = blN[u]
    BY <1>e, <1>p DEF OnM
  <2>q. QED BY <1>e, <2>1, MStays
<1>7. CheckedInv'
  <2>1. SUFFICES ASSUME phase = "ones"
                 PROVE  /\ \A w \in Set : \A v \in checked[w] \cap Member : Added(v)'
                        /\ \A u \in BloomWorker : blPc'[u] = "storeC" =>
                             \A v \in copy[u] \cap Member : Added(v)'
    BY <1>e DEF CheckedInv
  <2>2. \A v \in Member : v \in Vertex BY BloomNames
  <2>3. \A w \in Set : \A v \in checked[w] \cap Member : Added(v)'
    BY <1>a, <1>6, <2>1, <2>2 DEF CheckedInv
  <2>4. \A u \in BloomWorker : blPc'[u] = "storeC" => u # t BY <1>p
  <2>5. \A u \in BloomWorker : blPc'[u] = "storeC" => \A v \in copy[u] \cap Member : Added(v)'
    BY <1>a, <1>6, <1>p, <2>1, <2>2, <2>4 DEF CheckedInv
  <2>q. QED BY <2>3, <2>5
<1>8. PassedInv'
  <2>1. SUFFICES ASSUME NEW w \in FilterWord, NEW k \in DOMAIN filter.vertices[w], Passed(w, k)'
                 PROVE  Passed(w, k) \/
                        /\ phase = "ones" /\ filter.vertices[w][k] \in Member =>
                             Added(filter.vertices[w][k])
                        /\ phase = "zeros" => Removed(filter.vertices[w][k])
    BY <1>a, <1>e, <1>6, NoMorePassed
  <2>2. blPc[t] \in OnWord /\ blPc'[t] \in OnWord BY <1>e, <1>p DEF OnWord, OnVertex
  <2>3. CASE blPc'[t] # "next"
    <3>1. blN' = blN BY <1>p, <2>3
    <3>q. QED BY <1>e, <1>p, <2>1, <2>2, <3>1, SamePassed
  <2>4. CASE blPc'[t] = "next"
    <3>1. Passed(w, k) \/ (w = nL[t] /\ k = blN[t])
      BY <1>a, <1>e, <1>p, <2>1, <2>2, <2>4, OneMorePassed
    <3>2. At(t) \in Member => Added(At(t)) BY <1>a, <1>h, <1>p, <2>4 DEF CheckedInv
    <3>3. phase = "ones" BY <1>p, <2>4
    <3>q. QED BY <1>v, <3>1, <3>2, <3>3
  <2>q. QED BY <2>3, <2>4
<1>q. QED BY <1>1, <1>2, <1>3, <1>4, <1>5, <1>6, <1>7, <1>8 DEF BloomIInv

\* A thread loads the word of checked of the vertex in hand.
LEMMA LoadCheckedStep ==
  ASSUME BloomIInv, NEW t \in BloomWorker, LoadChecked(t)
  PROVE  BloomIInv'
<1>a. /\ BloomTypeOK /\ PhaseInv /\ TakenInv /\ TotalInv /\ MethodIsRight /\ VertexInv
      /\ OnlyWhatIsFound /\ StaleInv /\ CheckedInv /\ PassedInv
  BY DEF BloomIInv
<1>e. /\ blPc[t] = "loadC"
      /\ filter' = filter /\ phase' = phase /\ nextLoc' = nextLoc /\ taken' = taken
      /\ totalOnes' = totalOnes /\ numMemberships' = numMemberships
      /\ M' = M /\ checked' = checked /\ rewritten' = rewritten
      /\ nL' = nL /\ blN' = blN /\ localCount' = localCount
  BY DEF LoadChecked, handout, counts, sets
<1>p. /\ DOMAIN blPc = BloomWorker /\ blPc'[t] = "storeC" /\ copy'[t] = checked[WordAt(t)]
      /\ \A u \in BloomWorker : u # t =>
           blPc'[u] = blPc[u] /\ blN'[u] = blN[u] /\ copy'[u] = copy[u]
  BY <1>a, <1>e DEF BloomTypeOK, LoadChecked, BloomGoto
<1>h. /\ blN[t] <= Len(Vertices(t)) /\ WordAt(t) \in Set /\ phase = "ones"
  BY <1>a, <1>e, HandIs DEF VertexInv, OnVertex, PhaseInv
<1>f. Found' = Found BY <1>e, SameFilter
<1>1. BloomTypeOK'
  <2>1. blPc' \in [BloomWorker -> {"take", "count", "next", "loadC", "storeC", "loadM", "storeM",
                                   "ended"}]
    BY <1>a DEF BloomTypeOK, LoadChecked, BloomGoto
  <2>2. checked[WordAt(t)] \subseteq Vertex BY <1>a, <1>h, BloomNames DEF BloomTypeOK
  <2>3. copy' \in [BloomWorker -> SUBSET Vertex] BY <1>a, <2>2 DEF BloomTypeOK, LoadChecked
  <2>q. QED BY <1>a, <1>e, <2>1, <2>3 DEF BloomTypeOK
<1>2. PhaseInv' /\ TakenInv' /\ TotalInv' /\ MethodIsRight'
  <2>1. blPc[t] \in OnWord /\ blPc'[t] \in OnWord \cup {"take"}
        /\ (blPc'[t] \in {"loadC", "storeC"} => phase = "ones")
    BY <1>e, <1>h, <1>p DEF OnWord, OnVertex
  <2>q. QED BY <1>a, <1>e, <1>p, <2>1, WordSteps
<1>s. /\ At(t)' = At(t) /\ WordAt(t)' = WordAt(t) BY <1>e, SameVertex
<1>3. /\ VertexInv'
      /\ \A u \in BloomWorker : u # t =>
           Vertices(u)' = Vertices(u) /\ At(u)' = At(u) /\ WordAt(u)' = WordAt(u)
  <2>1. blPc'[t] \in OnVertex => blN'[t] <= Len(Vertices(t)) BY <1>e, <1>h
  <2>2. blPc'[t] \notin OnM /\ blPc'[t] # "storeM" BY <1>p DEF OnM
  <2>3. copy'[t] \subseteq In(WordAt(t)') BY <1>a, <1>h, <1>p, <1>s DEF BloomTypeOK
  <2>q. QED BY <1>a, <1>e, <1>p, <2>1, <2>2, <2>3, OthersKeep
<1>4. OnlyWhatIsFound' BY <1>a, <1>e, <1>f DEF OnlyWhatIsFound
<1>5. StaleInv'
  <2>1. SUFFICES ASSUME NEW u \in BloomWorker, blPc'[u] = "storeM"
                 PROVE  copy'[u] = M[WordAt(u)'] \/ \E z \in rewritten[WordAt(u)'] : z # u
    BY <1>e DEF StaleInv
  <2>2. u # t BY <1>p, <2>1
  <2>q. QED BY <1>a, <1>3, <1>p, <2>1, <2>2 DEF StaleInv
<1>6. \A v \in Vertex : (Added(v) => Added(v)') /\ (Removed(v) => Removed(v)')
  <2>1. \A u \in BloomWorker : blPc[u] \in OnM =>
          blPc'[u] \in OnM /\ nL'[u] = nL[u] /\ blN'[u] = blN[u]
    BY <1>e, <1>p DEF OnM
  <2>q. QED BY <1>e, <2>1, MStays
<1>7. CheckedInv'
  <2>1. SUFFICES ASSUME phase = "ones"
                 PROVE  /\ \A w \in Set : \A v \in checked[w] \cap Member : Added(v)'
                        /\ \A u \in BloomWorker : blPc'[u] = "storeC" =>
                             \A v \in copy'[u] \cap Member : Added(v)'
    BY <1>e DEF CheckedInv
  <2>2. \A v \in Member : v \in Vertex BY BloomNames
  <2>3. \A w \in Set : \A v \in checked[w] \cap Member : Added(v)'
    BY <1>a, <1>6, <2>1, <2>2 DEF CheckedInv
  <2>4. \A v \in copy'[t] \cap Member : Added(v)' BY <1>h, <1>p, <2>3
  <2>5. \A u \in BloomWorker : u # t /\ blPc'[u] = "storeC" =>
            \A v \in copy'[u] \cap Member : Added(v)'
    BY <1>a, <1>6, <1>p, <2>1, <2>2 DEF CheckedInv
  <2>q. QED BY <2>3, <2>4, <2>5
<1>8. PassedInv'
  <2>1. SUFFICES ASSUME NEW w \in FilterWord, NEW k \in DOMAIN filter.vertices[w], Passed(w, k)'
                 PROVE  Passed(w, k)
    BY <1>a, <1>e, <1>6, NoMorePassed
  <2>2. blPc'[t] \in OnWord BY <1>p DEF OnWord, OnVertex
  <2>q. QED BY <1>e, <1>p, <2>1, <2>2, SamePassed
<1>q. QED BY <1>1, <1>2, <1>3, <1>4, <1>5, <1>6, <1>7, <1>8 DEF BloomIInv

\* A thread stores the word of checked with its vertex, and adds the vertex if it is a member.
LEMMA StoreCheckedStep ==
  ASSUME BloomIInv, NEW t \in BloomWorker, StoreChecked(t)
  PROVE  BloomIInv'
<1>a. /\ BloomTypeOK /\ PhaseInv /\ TakenInv /\ TotalInv /\ MethodIsRight /\ VertexInv
      /\ OnlyWhatIsFound /\ StaleInv /\ CheckedInv /\ PassedInv
  BY DEF BloomIInv
<1>e. /\ blPc[t] = "storeC" /\ checked' = [checked EXCEPT ![WordAt(t)] = copy[t] \cup {At(t)}]
      /\ filter' = filter /\ phase' = phase /\ nextLoc' = nextLoc /\ taken' = taken
      /\ totalOnes' = totalOnes /\ numMemberships' = numMemberships
      /\ M' = M /\ rewritten' = rewritten /\ nL' = nL /\ copy' = copy
  BY DEF StoreChecked, handout, counts
<1>n. \A u \in BloomWorker : blN[u] \in Nat BY <1>a, FilterIs
<1>p. /\ DOMAIN blPc = BloomWorker /\ DOMAIN blN = BloomWorker
      /\ \A u \in BloomWorker : u # t =>
           blPc'[u] = blPc[u] /\ blN'[u] = blN[u] /\ copy'[u] = copy[u]
      /\ \/ At(t) \in Member /\ blPc'[t] = "loadM" /\ blN' = blN
         \/ At(t) \notin Member /\ blPc'[t] = "next" /\ blN'[t] = blN[t] + 1
  BY <1>a, <1>e DEF BloomTypeOK, StoreChecked, BloomGoto, NextN, IsIn
<1>h. /\ blN[t] <= Len(Vertices(t)) /\ WordAt(t) \in Set /\ phase = "ones"
      /\ At(t) \in Vertex /\ At(t) \in In(WordAt(t))
  BY <1>a, <1>e, HandIs, FilterIs DEF VertexInv, OnVertex, PhaseInv
<1>v. At(t) = filter.vertices[nL[t]][blN[t]] BY DEF At, Vertices
<1>w. WordAt(t) = WordOf[At(t)] BY <1>a, <1>h, HandIs
<1>f. Found' = Found BY <1>e, SameFilter
<1>1. BloomTypeOK'
  <2>1. blPc' \in [BloomWorker -> {"take", "count", "next", "loadC", "storeC", "loadM", "storeM",
                                   "ended"}]
    BY <1>a DEF BloomTypeOK, StoreChecked, BloomGoto
  <2>2. blN' \in [BloomWorker -> Nat \ {0}]
    <3>1. blN[t] + 1 \in Nat \ {0} BY <1>n
    <3>q. QED BY <1>a, <3>1 DEF BloomTypeOK, StoreChecked, NextN
  <2>3. localCount' \in [BloomWorker -> Nat] BY <1>a DEF BloomTypeOK, StoreChecked
  <2>4. copy[t] \subseteq In(WordAt(t)) BY <1>a, <1>e DEF VertexInv
  <2>5. DOMAIN checked' = Set /\ \A w \in Set : checked'[w] \subseteq In(w)
    BY <1>a, <1>e, <1>h, <2>4 DEF BloomTypeOK
  <2>q. QED BY <1>a, <1>e, <2>1, <2>2, <2>3, <2>5 DEF BloomTypeOK
<1>2. PhaseInv' /\ TakenInv' /\ TotalInv' /\ MethodIsRight'
  <2>1. blPc[t] \in OnWord /\ blPc'[t] \in OnWord \cup {"take"}
        /\ (blPc'[t] \in {"loadC", "storeC"} => phase = "ones")
    BY <1>e, <1>p DEF OnWord, OnVertex
  <2>q. QED BY <1>a, <1>e, <1>p, <2>1, WordSteps
<1>s. blPc'[t] = "loadM" => At(t)' = At(t) /\ WordAt(t)' = WordAt(t) BY <1>e, <1>p, SameVertex
<1>3. /\ VertexInv'
      /\ \A u \in BloomWorker : u # t =>
           Vertices(u)' = Vertices(u) /\ At(u)' = At(u) /\ WordAt(u)' = WordAt(u)
  <2>1. blPc'[t] \in OnVertex => blN'[t] <= Len(Vertices(t)) BY <1>h, <1>p DEF OnVertex
  <2>2. blPc'[t] \in OnM /\ phase = "ones" => At(t)' \in Member BY <1>p, <1>s DEF OnM
  <2>3. blPc'[t] \notin {"storeC", "storeM"} /\ blPc'[t] # "storeM" BY <1>p
  <2>q. QED BY <1>a, <1>e, <1>p, <2>1, <2>2, <2>3, OthersKeep
<1>4. OnlyWhatIsFound' BY <1>a, <1>e, <1>f DEF OnlyWhatIsFound
<1>5. StaleInv'
  <2>1. SUFFICES ASSUME NEW u \in BloomWorker, blPc'[u] = "storeM"
                 PROVE  copy[u] = M[WordAt(u)'] \/ \E z \in rewritten[WordAt(u)'] : z # u
    BY <1>e DEF StaleInv
  <2>2. u # t BY <1>p, <2>1
  <2>q. QED BY <1>a, <1>3, <1>p, <2>1, <2>2 DEF StaleInv
<1>6. \A v \in Vertex : (Added(v) => Added(v)') /\ (Removed(v) => Removed(v)')
  <2>1. \A u \in BloomWorker : blPc[u] \in OnM =>
          blPc'[u] \in OnM /\ nL'[u] = nL[u] /\ blN'[u] = blN[u]
    BY <1>e, <1>p DEF OnM
  <2>q. QED BY <1>e, <2>1, MStays
<1>7. CheckedInv'
  <2>1. SUFFICES ASSUME phase = "ones"
                 PROVE  /\ \A w \in Set : \A v \in checked'[w] \cap Member : Added(v)'
                        /\ \A u \in BloomWorker : blPc'[u] = "storeC" =>
                             \A v \in copy[u] \cap Member : Added(v)'
    BY <1>e DEF CheckedInv
  <2>2. \A v \in Member : v \in Vertex BY BloomNames
  <2>3. \A v \in copy[t] \cap Member : Added(v)' BY <1>a, <1>6, <1>e, <2>1, <2>2 DEF CheckedInv
  <2>5. \A w \in Set : \A v \in checked'[w] \cap Member : Added(v)'
    <3>1. SUFFICES ASSUME NEW w \in Set, NEW v \in checked'[w] \cap Member PROVE Added(v)' OBVIOUS
    <3>2. CASE w = WordAt(t)
      <4>1. v \in copy[t] \/ v = At(t) BY <1>a, <1>e, <3>1, <3>2 DEF BloomTypeOK
      <4>2. CASE v \in copy[t] BY <2>3, <3>1, <4>2
      <4>3. CASE v = At(t)
        <5>1. blPc'[t] \in OnM /\ At(t)' = v BY <1>p, <1>s, <3>1, <4>3 DEF OnM
        <5>q. QED BY <5>1 DEF Added
      <4>q. QED BY <4>1, <4>2, <4>3
    <3>3. CASE w # WordAt(t)
      <4>1. v \in checked[w] BY <1>a, <1>e, <3>1, <3>3 DEF BloomTypeOK
      <4>q. QED BY <1>a, <1>6, <2>1, <2>2, <3>1, <4>1 DEF CheckedInv
    <3>q. QED BY <3>2, <3>3
  <2>6. \A u \in BloomWorker : blPc'[u] = "storeC" => \A v \in copy[u] \cap Member : Added(v)'
    BY <1>a, <1>6, <1>p, <2>1, <2>2 DEF CheckedInv
  <2>q. QED BY <2>5, <2>6
<1>8. PassedInv'
  <2>1. SUFFICES ASSUME NEW w \in FilterWord, NEW k \in DOMAIN filter.vertices[w], Passed(w, k)'
                 PROVE  Passed(w, k) \/
                        /\ phase = "ones" /\ filter.vertices[w][k] \in Member =>
                             Added(filter.vertices[w][k])
                        /\ phase = "zeros" => Removed(filter.vertices[w][k])
    BY <1>a, <1>e, <1>6, NoMorePassed
  <2>2. blPc[t] \in OnWord /\ blPc'[t] \in OnWord BY <1>e, <1>p DEF OnWord, OnVertex
  <2>3. CASE blPc'[t] = "loadM"
    <3>1. blN' = blN BY <1>p, <2>3
    <3>q. QED BY <1>e, <1>p, <2>1, <2>2, <3>1, SamePassed
  <2>4. CASE blPc'[t] # "loadM"
    <3>1. At(t) \notin Member /\ blN'[t] = blN[t] + 1 BY <1>p, <2>4
    <3>2. Passed(w, k) \/ (w = nL[t] /\ k = blN[t])
      BY <1>a, <1>e, <1>p, <2>1, <2>2, <3>1, OneMorePassed
    <3>3. phase # "zeros" BY <1>h
    <3>q. QED BY <1>v, <3>1, <3>2, <3>3
  <2>q. QED BY <2>3, <2>4
<1>q. QED BY <1>1, <1>2, <1>3, <1>4, <1>5, <1>6, <1>7, <1>8 DEF BloomIInv

\* A thread loads the word of M of the vertex in hand.
LEMMA LoadMStep ==
  ASSUME BloomIInv, NEW t \in BloomWorker, LoadM(t)
  PROVE  BloomIInv'
<1>a. /\ BloomTypeOK /\ PhaseInv /\ TakenInv /\ TotalInv /\ MethodIsRight /\ VertexInv
      /\ OnlyWhatIsFound /\ StaleInv /\ CheckedInv /\ PassedInv
  BY DEF BloomIInv
<1>e. /\ blPc[t] = "loadM"
      /\ filter' = filter /\ phase' = phase /\ nextLoc' = nextLoc /\ taken' = taken
      /\ totalOnes' = totalOnes /\ numMemberships' = numMemberships
      /\ M' = M /\ checked' = checked /\ rewritten' = rewritten
      /\ nL' = nL /\ blN' = blN /\ localCount' = localCount
  BY DEF LoadM, handout, counts, sets
<1>p. /\ DOMAIN blPc = BloomWorker /\ blPc'[t] = "storeM" /\ copy'[t] = M[WordAt(t)]
      /\ \A u \in BloomWorker : u # t =>
           blPc'[u] = blPc[u] /\ blN'[u] = blN[u] /\ copy'[u] = copy[u]
  BY <1>a, <1>e DEF BloomTypeOK, LoadM, BloomGoto
<1>h. /\ blN[t] <= Len(Vertices(t)) /\ WordAt(t) \in Set
      /\ phase = "ones" => At(t) \in Member
  BY <1>a, <1>e, HandIs DEF VertexInv, OnVertex, OnM
<1>f. Found' = Found BY <1>e, SameFilter
<1>1. BloomTypeOK'
  <2>1. blPc' \in [BloomWorker -> {"take", "count", "next", "loadC", "storeC", "loadM", "storeM",
                                   "ended"}]
    BY <1>a DEF BloomTypeOK, LoadM, BloomGoto
  <2>2. M[WordAt(t)] \subseteq Vertex BY <1>a, <1>h, BloomNames DEF BloomTypeOK
  <2>3. copy' \in [BloomWorker -> SUBSET Vertex] BY <1>a, <2>2 DEF BloomTypeOK, LoadM
  <2>q. QED BY <1>a, <1>e, <2>1, <2>3 DEF BloomTypeOK
<1>2. PhaseInv' /\ TakenInv' /\ TotalInv' /\ MethodIsRight'
  <2>1. blPc[t] \in OnWord /\ blPc'[t] \in OnWord \cup {"take"}
        /\ (blPc'[t] \in {"loadC", "storeC"} => phase = "ones")
    BY <1>e, <1>h, <1>p DEF OnWord, OnVertex
  <2>q. QED BY <1>a, <1>e, <1>p, <2>1, WordSteps
<1>s. /\ At(t)' = At(t) /\ WordAt(t)' = WordAt(t) BY <1>e, SameVertex
<1>3. /\ VertexInv'
      /\ \A u \in BloomWorker : u # t =>
           Vertices(u)' = Vertices(u) /\ At(u)' = At(u) /\ WordAt(u)' = WordAt(u)
  <2>1. blPc'[t] \in OnVertex => blN'[t] <= Len(Vertices(t)) BY <1>e, <1>h
  <2>2. phase = "ones" => At(t)' \in Member BY <1>h, <1>s
  <2>3. copy'[t] \subseteq In(WordAt(t)') BY <1>a, <1>h, <1>p, <1>s DEF BloomTypeOK
  <2>4. /\ phase = "ones" => copy'[t] \subseteq Member \cap Found
        /\ phase = "zeros" => In(WordAt(t)') \ Found \subseteq copy'[t]
    BY <1>a, <1>h, <1>p, <1>s DEF OnlyWhatIsFound
  <2>q. QED BY <1>a, <1>e, <1>p, <2>1, <2>2, <2>3, <2>4, OthersKeep
<1>4. OnlyWhatIsFound' BY <1>a, <1>e, <1>f DEF OnlyWhatIsFound
<1>5. StaleInv'
  <2>1. SUFFICES ASSUME NEW u \in BloomWorker, blPc'[u] = "storeM"
                 PROVE  copy'[u] = M[WordAt(u)'] \/ \E z \in rewritten[WordAt(u)'] : z # u
    BY <1>e DEF StaleInv
  <2>2. CASE u = t BY <1>p, <1>s, <2>2
  <2>3. CASE u # t BY <1>a, <1>3, <1>p, <2>1, <2>3 DEF StaleInv
  <2>q. QED BY <2>2, <2>3
<1>6. \A v \in Vertex : (Added(v) => Added(v)') /\ (Removed(v) => Removed(v)')
  <2>1. \A u \in BloomWorker : blPc[u] \in OnM =>
          blPc'[u] \in OnM /\ nL'[u] = nL[u] /\ blN'[u] = blN[u]
    BY <1>e, <1>p DEF OnM
  <2>q. QED BY <1>e, <2>1, MStays
<1>7. CheckedInv'
  <2>1. SUFFICES ASSUME phase = "ones"
                 PROVE  /\ \A w \in Set : \A v \in checked[w] \cap Member : Added(v)'
                        /\ \A u \in BloomWorker : blPc'[u] = "storeC" =>
                             \A v \in copy'[u] \cap Member : Added(v)'
    BY <1>e DEF CheckedInv
  <2>2. \A v \in Member : v \in Vertex BY BloomNames
  <2>3. \A w \in Set : \A v \in checked[w] \cap Member : Added(v)'
    BY <1>a, <1>6, <2>1, <2>2 DEF CheckedInv
  <2>4. \A u \in BloomWorker : u # t /\ blPc'[u] = "storeC" =>
            \A v \in copy'[u] \cap Member : Added(v)'
    BY <1>a, <1>6, <1>p, <2>1, <2>2 DEF CheckedInv
  <2>q. QED BY <1>p, <2>3, <2>4
<1>8. PassedInv'
  <2>1. SUFFICES ASSUME NEW w \in FilterWord, NEW k \in DOMAIN filter.vertices[w], Passed(w, k)'
                 PROVE  Passed(w, k)
    BY <1>a, <1>e, <1>6, NoMorePassed
  <2>2. blPc'[t] \in OnWord BY <1>p DEF OnWord, OnVertex
  <2>q. QED BY <1>e, <1>p, <2>1, <2>2, SamePassed
<1>q. QED BY <1>1, <1>2, <1>3, <1>4, <1>5, <1>6, <1>7, <1>8 DEF BloomIInv

\* A thread stores the word of M with its vertex added or removed.
LEMMA StoreMStep ==
  ASSUME BloomIInv, NEW t \in BloomWorker, StoreM(t)
  PROVE  BloomIInv'
<1>a. /\ BloomTypeOK /\ PhaseInv /\ TakenInv /\ TotalInv /\ MethodIsRight /\ VertexInv
      /\ OnlyWhatIsFound /\ StaleInv /\ CheckedInv /\ PassedInv
  BY DEF BloomIInv
<1>e. /\ blPc[t] = "storeM" /\ M' = [M EXCEPT ![WordAt(t)] = WithBit(t)]
      /\ rewritten' = [rewritten EXCEPT ![WordAt(t)] = @ \cup {t}]
      /\ filter' = filter /\ phase' = phase /\ nextLoc' = nextLoc /\ taken' = taken
      /\ totalOnes' = totalOnes /\ numMemberships' = numMemberships
      /\ checked' = checked /\ nL' = nL /\ copy' = copy /\ localCount' = localCount
  BY DEF StoreM, handout, counts
<1>n. \A u \in BloomWorker : blN[u] \in Nat BY <1>a, FilterIs
<1>p. /\ DOMAIN blPc = BloomWorker /\ DOMAIN blN = BloomWorker
      /\ DOMAIN M = Set /\ DOMAIN rewritten = Set
      /\ blPc'[t] = "next" /\ blN'[t] = blN[t] + 1
      /\ \A u \in BloomWorker : u # t =>
           blPc'[u] = blPc[u] /\ blN'[u] = blN[u] /\ copy'[u] = copy[u]
  BY <1>a, <1>e DEF BloomTypeOK, StoreM, BloomGoto, NextN
<1>h. /\ blN[t] <= Len(Vertices(t)) /\ WordAt(t) \in Set /\ phase \in {"ones", "zeros"}
      /\ phase = "ones" => At(t) \in Member
      /\ At(t) \in Vertex /\ At(t) \in Found /\ At(t) \in In(WordAt(t))
      /\ copy[t] \subseteq In(WordAt(t))
      /\ phase = "ones" => copy[t] \subseteq Member \cap Found
      /\ phase = "zeros" => In(WordAt(t)) \ Found \subseteq copy[t]
  <2>1. blN[t] <= Len(Vertices(t)) /\ phase \in {"ones", "zeros"}
        /\ (phase = "ones" => At(t) \in Member) /\ copy[t] \subseteq In(WordAt(t))
    BY <1>a, <1>e DEF VertexInv, OnVertex, OnM, PhaseInv, OnWord
  <2>2. /\ phase = "ones" => copy[t] \subseteq Member \cap Found
        /\ phase = "zeros" => In(WordAt(t)) \ Found \subseteq copy[t]
    BY <1>a, <1>e DEF VertexInv
  <2>q. QED BY <1>a, <2>1, <2>2, HandIs, FilterIs
<1>v. At(t) = filter.vertices[nL[t]][blN[t]] BY DEF At, Vertices
<1>w. WordAt(t) = WordOf[At(t)] BY <1>a, <1>h, HandIs
<1>m. /\ M'[WordAt(t)] = WithBit(t) /\ \A w \in Set : w # WordAt(t) => M'[w] = M[w]
      /\ rewritten'[WordAt(t)] = rewritten[WordAt(t)] \cup {t}
      /\ \A w \in Set : w # WordAt(t) => rewritten'[w] = rewritten[w]
      /\ phase = "ones" => WithBit(t) = copy[t] \cup {At(t)}
      /\ phase = "zeros" => WithBit(t) = copy[t] \ {At(t)}
  BY <1>e, <1>h, <1>p DEF WithBit
<1>f. Found' = Found BY <1>e, SameFilter
<1>1. BloomTypeOK'
  <2>1. blPc' \in [BloomWorker -> {"take", "count", "next", "loadC", "storeC", "loadM", "storeM",
                                   "ended"}]
    BY <1>a DEF BloomTypeOK, StoreM, BloomGoto
  <2>2. blN' \in [BloomWorker -> Nat \ {0}]
    <3>1. blN[t] + 1 \in Nat \ {0} BY <1>n
    <3>q. QED BY <1>a, <3>1 DEF BloomTypeOK, StoreM, NextN
  <2>3. WithBit(t) \subseteq In(WordAt(t)) BY <1>h, <1>m
  <2>4. DOMAIN M' = Set /\ \A w \in Set : M'[w] \subseteq In(w)
    BY <1>a, <1>e, <1>m, <1>p, <2>3 DEF BloomTypeOK
  <2>5. rewritten' \in [Set -> SUBSET BloomWorker] BY <1>a, <1>e DEF BloomTypeOK
  <2>q. QED BY <1>a, <1>e, <2>1, <2>2, <2>4, <2>5 DEF BloomTypeOK
<1>2. PhaseInv' /\ TakenInv' /\ TotalInv' /\ MethodIsRight'
  <2>1. blPc[t] \in OnWord /\ blPc'[t] \in OnWord \cup {"take"}
        /\ (blPc'[t] \in {"loadC", "storeC"} => phase = "ones")
    BY <1>e, <1>p DEF OnWord, OnVertex
  <2>q. QED BY <1>a, <1>e, <1>p, <2>1, WordSteps
<1>3. /\ VertexInv'
      /\ \A u \in BloomWorker : u # t =>
           Vertices(u)' = Vertices(u) /\ At(u)' = At(u) /\ WordAt(u)' = WordAt(u)
  <2>1. blPc'[t] \notin OnVertex /\ blPc'[t] \notin OnM
        /\ blPc'[t] \notin {"storeC", "storeM"} /\ blPc'[t] # "storeM"
    BY <1>p DEF OnVertex, OnM
  <2>q. QED BY <1>a, <1>e, <1>p, <2>1, OthersKeep
<1>4. OnlyWhatIsFound'
  <2>1. ASSUME phase = "ones", NEW w \in Set PROVE M'[w] \subseteq Member \cap Found
    <3>1. M[w] \subseteq Member \cap Found BY <1>a, <2>1 DEF OnlyWhatIsFound
    <3>2. copy[t] \cup {At(t)} \subseteq Member \cap Found BY <1>h, <2>1
    <3>3. M'[WordAt(t)] = copy[t] \cup {At(t)} BY <1>m, <2>1
    <3>4. w # WordAt(t) => M'[w] = M[w] BY <1>m
    <3>q. QED BY <3>1, <3>2, <3>3, <3>4
  <2>2. ASSUME phase = "zeros", NEW w \in Set PROVE In(w) \ Found \subseteq M'[w]
    <3>1. In(w) \ Found \subseteq M[w] BY <1>a, <2>2 DEF OnlyWhatIsFound
    <3>2. In(WordAt(t)) \ Found \subseteq copy[t] \ {At(t)} BY <1>h, <2>2
    <3>3. M'[WordAt(t)] = copy[t] \ {At(t)} BY <1>m, <2>2
    <3>4. w # WordAt(t) => M'[w] = M[w] BY <1>m
    <3>q. QED BY <3>1, <3>2, <3>3, <3>4
  <2>q. QED BY <1>e, <1>f, <2>1, <2>2 DEF OnlyWhatIsFound, In
<1>5. StaleInv'
  <2>1. SUFFICES ASSUME NEW u \in BloomWorker, blPc'[u] = "storeM"
                 PROVE  copy[u] = M'[WordAt(u)'] \/ \E z \in rewritten'[WordAt(u)'] : z # u
    BY <1>e DEF StaleInv
  <2>2. u # t /\ blPc[u] = "storeM" /\ WordAt(u)' = WordAt(u) BY <1>3, <1>p, <2>1
  <2>3. WordAt(u) \in Set BY <1>a, <2>2, HandIs DEF VertexInv, OnVertex
  <2>4. CASE WordAt(u) = WordAt(t) BY <1>m, <2>2, <2>4
  <2>5. CASE WordAt(u) # WordAt(t)
    <3>1. M'[WordAt(u)] = M[WordAt(u)] /\ rewritten'[WordAt(u)] = rewritten[WordAt(u)]
      BY <1>m, <2>3, <2>5
    <3>q. QED BY <1>a, <2>2, <3>1 DEF StaleInv
  <2>q. QED BY <2>4, <2>5
<1>s. \A w \in Set : Shared(w) => Shared(w)'
  <2>1. \A w \in Set : rewritten[w] \subseteq rewritten'[w] BY <1>m
  <2>q. QED BY <2>1 DEF Shared
<1>c. \A w \in Set : w = WordAt(t) => copy[t] = M[w] \/ Shared(w)'
  <2>1. SUFFICES ASSUME NEW w \in Set, w = WordAt(t), copy[t] # M[w] PROVE Shared(w)' OBVIOUS
  <2>2. PICK u \in rewritten[w] : u # t BY <1>a, <1>e, <2>1 DEF StaleInv
  <2>3. rewritten'[w] = rewritten[w] \cup {t} BY <1>m, <2>1
  <2>q. QED BY <2>2, <2>3 DEF Shared
<1>d. phase = "ones" => \A v \in Vertex : Added(v) => Added(v)'
  <2>1. SUFFICES ASSUME phase = "ones", NEW v \in Vertex, Added(v) PROVE Added(v)' OBVIOUS
  <2>2. ASSUME NEW w \in Set PROVE M[w] \subseteq M'[w] \/ Shared(w)'
    <3>1. CASE w = WordAt(t) BY <1>c, <1>m, <2>1, <3>1
    <3>2. CASE w # WordAt(t) BY <1>m, <3>2
    <3>q. QED BY <3>1, <3>2
  <2>3. ASSUME NEW u \in BloomWorker, blPc[u] \in OnM, At(u) = v
        PROVE  (blPc'[u] \in OnM /\ At(u)' = v) \/ v \in M'[WordOf[v]]
    <3>1. CASE u = t
      <4>1. WordOf[v] = WordAt(t) BY <1>w, <2>3, <3>1
      <4>2. M'[WordAt(t)] = copy[t] \cup {v} BY <1>m, <2>1, <2>3, <3>1
      <4>q. QED BY <4>1, <4>2
    <3>2. CASE u # t BY <1>3, <1>p, <2>3, <3>2
    <3>q. QED BY <3>1, <3>2
  <2>q. QED BY <1>s, <2>1, <2>2, <2>3, AddedStays
<1>r. phase = "zeros" => \A v \in Vertex : Removed(v) => Removed(v)'
  <2>1. SUFFICES ASSUME phase = "zeros", NEW v \in Vertex, Removed(v) PROVE Removed(v)' OBVIOUS
  <2>2. WordOf[v] \in Set BY BloomNames
  <2>3. CASE Shared(WordOf[v]) BY <1>s, <2>2, <2>3 DEF Removed
  <2>4. CASE v \notin M[WordOf[v]]
    <3>1. CASE WordOf[v] = WordAt(t) BY <1>c, <1>m, <2>1, <2>2, <2>4, <3>1 DEF Removed
    <3>2. CASE WordOf[v] # WordAt(t) BY <1>m, <2>2, <2>4, <3>2 DEF Removed
    <3>q. QED BY <3>1, <3>2
  <2>q. QED BY <2>1, <2>3, <2>4 DEF Removed
<1>7. CheckedInv'
  <2>1. SUFFICES ASSUME phase = "ones"
                 PROVE  /\ \A w \in Set : \A v \in checked[w] \cap Member : Added(v)'
                        /\ \A u \in BloomWorker : blPc'[u] = "storeC" =>
                             \A v \in copy[u] \cap Member : Added(v)'
    BY <1>e DEF CheckedInv
  <2>2. \A v \in Member : v \in Vertex BY BloomNames
  <2>3. \A w \in Set : \A v \in checked[w] \cap Member : Added(v)'
    BY <1>a, <1>d, <2>1, <2>2 DEF CheckedInv
  <2>4. \A u \in BloomWorker : blPc'[u] = "storeC" => \A v \in copy[u] \cap Member : Added(v)'
    BY <1>a, <1>d, <1>p, <2>1, <2>2 DEF CheckedInv
  <2>q. QED BY <2>3, <2>4
<1>8. PassedInv'
  <2>1. SUFFICES ASSUME NEW w \in FilterWord, NEW k \in DOMAIN filter.vertices[w], Passed(w, k)',
                        NEW v, v = filter.vertices[w][k]
                 PROVE  /\ phase = "ones" /\ v \in Member => Added(v)'
                        /\ phase = "zeros" => Removed(v)'
    BY <1>e DEF PassedInv, Added, Removed, Shared, At, Vertices
  <2>2. blPc[t] \in OnWord /\ blPc'[t] \in OnWord BY <1>e, <1>p DEF OnWord, OnVertex
  <2>3. Passed(w, k) \/ (w = nL[t] /\ k = blN[t])
    BY <1>a, <1>e, <1>p, <2>1, <2>2, OneMorePassed
  <2>4. k \in 1 .. Len(filter.vertices[w])
    <3>1. filter.vertices[w] \in Seq(Vertex) BY <1>a, FilterIs
    <3>q. QED BY <2>1, <3>1
  <2>5. v \in Vertex BY <1>a, <2>1, <2>4, VertexIs
  <2>6. CASE Passed(w, k)
    <3>1. /\ phase = "ones" /\ v \in Member => Added(v)
          /\ phase = "zeros" => Removed(v)
      BY <1>a, <2>1, <2>6 DEF PassedInv
    <3>q. QED BY <1>d, <1>r, <2>5, <3>1
  <2>7. CASE w = nL[t] /\ k = blN[t]
    <3>1. v = At(t) BY <1>v, <2>1, <2>7
    <3>4. M'[WordOf[v]] = WithBit(t) BY <1>m, <1>w, <3>1
    <3>2. phase = "ones" => v \in M'[WordOf[v]] BY <1>m, <3>1, <3>4
    <3>3. phase = "zeros" => v \notin M'[WordOf[v]] BY <1>m, <3>1, <3>4
    <3>q. QED BY <3>2, <3>3 DEF Added, Removed
  <2>q. QED BY <2>3, <2>6, <2>7
<1>q. QED BY <1>1, <1>2, <1>3, <1>4, <1>5, <1>7, <1>8 DEF BloomIInv

\* A thread has finished with its word.
LEMMA EndWordStep ==
  ASSUME BloomIInv, NEW t \in BloomWorker, EndWord(t)
  PROVE  BloomIInv'
<1>a. /\ BloomTypeOK /\ PhaseInv /\ TakenInv /\ TotalInv /\ MethodIsRight /\ VertexInv
      /\ OnlyWhatIsFound /\ StaleInv /\ CheckedInv /\ PassedInv
  BY DEF BloomIInv
<1>e. /\ blPc[t] = "next" /\ blN[t] > Len(Vertices(t))
      /\ numMemberships' = numMemberships + localCount[t]
      /\ filter' = filter /\ phase' = phase /\ nextLoc' = nextLoc /\ taken' = taken
      /\ totalOnes' = totalOnes /\ M' = M /\ checked' = checked /\ rewritten' = rewritten
      /\ nL' = nL /\ blN' = blN /\ copy' = copy /\ localCount' = localCount
  BY DEF EndWord, handout, sets
<1>p. /\ DOMAIN blPc = BloomWorker /\ blPc'[t] = "take"
      /\ \A u \in BloomWorker : u # t =>
           blPc'[u] = blPc[u] /\ blN'[u] = blN[u] /\ copy'[u] = copy[u]
  BY <1>a, <1>e DEF BloomTypeOK, EndWord, BloomGoto
<1>f. Found' = Found BY <1>e, SameFilter
<1>1. BloomTypeOK'
  <2>1. blPc' \in [BloomWorker -> {"take", "count", "next", "loadC", "storeC", "loadM", "storeM",
                                   "ended"}]
    BY <1>a DEF BloomTypeOK, EndWord, BloomGoto
  <2>2. localCount[t] \in Nat /\ numMemberships \in Nat BY <1>a DEF BloomTypeOK
  <2>3. numMemberships' \in Nat BY <1>e, <2>2
  <2>q. QED BY <1>a, <1>e, <2>1, <2>3 DEF BloomTypeOK
<1>2. PhaseInv' /\ TakenInv' /\ TotalInv' /\ MethodIsRight'
  <2>1. blPc[t] \in OnWord /\ blPc'[t] \in OnWord \cup {"take"}
        /\ (blPc'[t] \in {"loadC", "storeC"} => phase = "ones")
    BY <1>e, <1>p DEF OnWord, OnVertex
  <2>q. QED BY <1>a, <1>e, <1>p, <2>1, WordSteps
<1>3. /\ VertexInv'
      /\ \A u \in BloomWorker : u # t =>
           Vertices(u)' = Vertices(u) /\ At(u)' = At(u) /\ WordAt(u)' = WordAt(u)
  <2>1. blPc'[t] \notin OnVertex /\ blPc'[t] \notin OnM
        /\ blPc'[t] \notin {"storeC", "storeM"} /\ blPc'[t] # "storeM"
    BY <1>p DEF OnVertex, OnM
  <2>q. QED BY <1>a, <1>e, <1>p, <2>1, OthersKeep
<1>4. OnlyWhatIsFound' BY <1>a, <1>e, <1>f DEF OnlyWhatIsFound
<1>5. StaleInv'
  <2>1. SUFFICES ASSUME NEW u \in BloomWorker, blPc'[u] = "storeM"
                 PROVE  copy[u] = M[WordAt(u)'] \/ \E z \in rewritten[WordAt(u)'] : z # u
    BY <1>e DEF StaleInv
  <2>2. u # t BY <1>p, <2>1
  <2>q. QED BY <1>a, <1>3, <1>p, <2>1, <2>2 DEF StaleInv
<1>6. \A v \in Vertex : (Added(v) => Added(v)') /\ (Removed(v) => Removed(v)')
  <2>1. \A u \in BloomWorker : blPc[u] \in OnM =>
          blPc'[u] \in OnM /\ nL'[u] = nL[u] /\ blN'[u] = blN[u]
    BY <1>e, <1>p DEF OnM
  <2>q. QED BY <1>e, <2>1, MStays
<1>7. CheckedInv'
  <2>1. SUFFICES ASSUME phase = "ones"
                 PROVE  /\ \A w \in Set : \A v \in checked[w] \cap Member : Added(v)'
                        /\ \A u \in BloomWorker : blPc'[u] = "storeC" =>
                             \A v \in copy[u] \cap Member : Added(v)'
    BY <1>e DEF CheckedInv
  <2>2. \A v \in Member : v \in Vertex BY BloomNames
  <2>3. \A w \in Set : \A v \in checked[w] \cap Member : Added(v)'
    BY <1>a, <1>6, <2>1, <2>2 DEF CheckedInv
  <2>4. \A u \in BloomWorker : blPc'[u] = "storeC" => \A v \in copy[u] \cap Member : Added(v)'
    BY <1>a, <1>6, <1>p, <2>1, <2>2 DEF CheckedInv
  <2>q. QED BY <2>3, <2>4
<1>8. PassedInv'
  <2>1. SUFFICES ASSUME NEW w \in FilterWord, NEW k \in DOMAIN filter.vertices[w], Passed(w, k)'
                 PROVE  Passed(w, k)
    BY <1>a, <1>e, <1>6, NoMorePassed
  <2>2. k \in 1 .. Len(filter.vertices[w]) /\ Len(filter.vertices[w]) \in Nat
    <3>1. filter.vertices[w] \in Seq(Vertex) BY <1>a, FilterIs
    <3>q. QED BY <2>1, <3>1
  <2>3. ASSUME NEW u \in BloomWorker, blPc[u] \in OnWord, nL[u] = w PROVE k < blN[u]
    <3>1. CASE u = t
      <4>1. blN[t] > Len(filter.vertices[w]) /\ blN[t] \in Nat BY <1>a, <1>e, <2>3, <3>1,
                                                                  FilterIs
      <4>q. QED BY <2>2, <3>1, <4>1
    <3>2. CASE u # t BY <1>e, <1>p, <2>1, <2>3, <3>2 DEF Passed
    <3>q. QED BY <3>1, <3>2
  <2>q. QED BY <1>e, <2>1, <2>3 DEF Passed
<1>q. QED BY <1>1, <1>2, <1>3, <1>4, <1>5, <1>7, <1>8 DEF BloomIInv

\* When all have ended, every word has been taken, by one thread.
LEMMA AllAreTaken ==
  ASSUME BloomIInv, \A t \in BloomWorker : blPc[t] = "ended"
  PROVE  nextLoc > FilterWords /\ \A w \in FilterWord : w < nextLoc
<1>1. BloomTypeOK /\ PhaseInv BY DEF BloomIInv
<1>2. nextLoc > FilterWords BY <1>1, BloomNames DEF PhaseInv
<1>q. QED BY <1>1, <1>2, BloomNames DEF BloomTypeOK

\* main() chooses the method, and the words are handed out again.
LEMMA ReconstructStep ==
  ASSUME BloomIInv, Reconstruct
  PROVE  BloomIInv'
<1>a. /\ BloomTypeOK /\ PhaseInv /\ TakenInv /\ TotalInv /\ MethodIsRight /\ VertexInv
      /\ OnlyWhatIsFound /\ StaleInv /\ CheckedInv /\ PassedInv
  BY DEF BloomIInv
<1>e. /\ phase = "count" /\ \A t \in BloomWorker : blPc[t] = "ended"
      /\ phase' = IF totalOnes < VECT_SIZE \div 2 THEN "ones" ELSE "zeros"
      /\ nextLoc' = 1 /\ taken' = [w \in FilterWord |-> {}]
      /\ M' = [w \in Set |-> IF phase' = "ones" THEN {} ELSE In(w)]
      /\ blPc' = [t \in BloomWorker |-> "take"]
      /\ filter' = filter /\ totalOnes' = totalOnes /\ numMemberships' = numMemberships
      /\ checked' = checked /\ rewritten' = rewritten
      /\ nL' = nL /\ blN' = blN /\ copy' = copy /\ localCount' = localCount
  BY DEF Reconstruct, Restart, counts
<1>p. \A t \in BloomWorker : blPc'[t] = "take" BY <1>e
<1>z. phase' \in {"ones", "zeros"} BY <1>e
<1>f. Found' = Found /\ AllOnes' = AllOnes BY <1>e, SameFilter
<1>m. \A w \in Set : M'[w] = IF phase' = "ones" THEN {} ELSE In(w) BY <1>e
<1>1. BloomTypeOK'
  <2>1. nextLoc' \in 1 .. FilterWords + 1 BY <1>e, BloomNames
  <2>2. DOMAIN M' = Set BY <1>e
  <2>3. \A w \in Set : M'[w] \subseteq In(w) BY <1>m
  <2>4. taken' \in [FilterWord -> SUBSET BloomWorker] BY <1>e
  <2>5. blPc' \in [BloomWorker -> {"take", "count", "next", "loadC", "storeC", "loadM", "storeM",
                                   "ended"}]
    BY <1>e
  <2>q. QED BY <1>a, <1>e, <1>z, <2>1, <2>2, <2>3, <2>4, <2>5 DEF BloomTypeOK
<1>2. PhaseInv' BY <1>p, <1>z DEF PhaseInv, OnWord, OnVertex
<1>3. TakenInv'
  <2>1. \A w \in FilterWord : ~ (w < nextLoc') /\ taken'[w] = {} BY <1>e, BloomNames
  <2>q. QED BY <1>p, <2>1 DEF TakenInv, OnWord, OnVertex
<1>4. TotalInv' BY <1>z DEF TotalInv
<1>5. MethodIsRight'
  <2>1. Counted = FilterWord BY <1>e, AllAreTaken DEF Counted
  <2>2. totalOnes = AllOnes BY <1>a, <1>e, <2>1 DEF TotalInv, AllOnes
  <2>q. QED BY <1>e, <1>f, <2>2 DEF MethodIsRight
<1>6. VertexInv' BY <1>p DEF VertexInv, OnVertex, OnM
<1>7. OnlyWhatIsFound'
  <2>1. phase' = "ones" => \A w \in Set : M'[w] \subseteq Member \cap Found BY <1>m
  <2>2. phase' = "zeros" => \A w \in Set : In(w) \ Found \subseteq M'[w] BY <1>m
  <2>q. QED BY <1>f, <2>1, <2>2 DEF OnlyWhatIsFound, In
<1>8. StaleInv' BY <1>p DEF StaleInv
<1>9. CheckedInv'
  <2>1. \A w \in Set : checked'[w] = {} BY <1>a, <1>e DEF PhaseInv
  <2>q. QED BY <1>p, <2>1 DEF CheckedInv
<1>10. PassedInv'
  <2>1. \A w \in FilterWord : ~ (w < nextLoc') BY <1>e, BloomNames
  <2>q. QED BY <2>1 DEF PassedInv, Passed
<1>q. QED BY <1>1, <1>2, <1>3, <1>4, <1>5, <1>6, <1>7, <1>8, <1>9, <1>10 DEF BloomIInv

\* main() counts what is in M.
LEMMA CountMembersStep ==
  ASSUME BloomIInv, CountMembers
  PROVE  BloomIInv'
<1>a. /\ BloomTypeOK /\ PhaseInv /\ TakenInv /\ TotalInv /\ MethodIsRight /\ VertexInv
      /\ OnlyWhatIsFound /\ StaleInv /\ CheckedInv /\ PassedInv
  BY DEF BloomIInv
<1>e. /\ phase \in {"ones", "zeros"} /\ \A t \in BloomWorker : blPc[t] = "ended"
      /\ phase' = "ended" /\ totalOnes' = Cardinality(UNION {M[w] : w \in Set})
      /\ filter' = filter /\ nextLoc' = nextLoc /\ taken' = taken
      /\ numMemberships' = numMemberships /\ M' = M /\ checked' = checked /\ rewritten' = rewritten
      /\ blPc' = blPc /\ nL' = nL /\ blN' = blN /\ copy' = copy /\ localCount' = localCount
  BY DEF CountMembers, handout, sets
<1>1. BloomTypeOK'
  <2>1. UNION {M[w] : w \in Set} \subseteq Vertex BY <1>a, BloomNames DEF BloomTypeOK
  <2>2. IsFiniteSet(UNION {M[w] : w \in Set}) BY <2>1, BloomNames, FS_Subset
  <2>3. totalOnes' \in Nat BY <1>e, <2>2, FS_CardinalityType
  <2>q. QED BY <1>a, <1>e, <2>3 DEF BloomTypeOK
<1>2. PhaseInv' BY <1>a, <1>e DEF PhaseInv, OnWord, OnVertex
<1>3. TakenInv' BY <1>a, <1>e DEF TakenInv
<1>4. TotalInv' /\ MethodIsRight' /\ OnlyWhatIsFound' /\ CheckedInv' /\ PassedInv'
  BY <1>e DEF TotalInv, MethodIsRight, OnlyWhatIsFound, CheckedInv, PassedInv
<1>5. VertexInv' BY <1>e DEF VertexInv, OnVertex, OnM
<1>6. StaleInv' BY <1>e DEF StaleInv
<1>q. QED BY <1>1, <1>2, <1>3, <1>4, <1>5, <1>6 DEF BloomIInv

\* Nothing changes.
LEMMA BloomStutter ==
  ASSUME BloomIInv, UNCHANGED bloomVars
  PROVE  BloomIInv'
<1>e. /\ filter' = filter /\ phase' = phase /\ nextLoc' = nextLoc /\ taken' = taken
      /\ totalOnes' = totalOnes /\ numMemberships' = numMemberships
      /\ M' = M /\ checked' = checked /\ rewritten' = rewritten
      /\ blPc' = blPc /\ nL' = nL /\ blN' = blN /\ copy' = copy /\ localCount' = localCount
  BY DEF bloomVars, handout, counts, sets
<1>1. BloomTypeOK' /\ PhaseInv' /\ TakenInv' BY <1>e
                                             DEF BloomIInv, BloomTypeOK, PhaseInv, TakenInv
<1>2. TotalInv' /\ MethodIsRight'
  BY <1>e DEF BloomIInv, TotalInv, Counted, OnesOf, MethodIsRight, AllOnes
<1>3. VertexInv' /\ OnlyWhatIsFound' /\ StaleInv'
  <2>1. Found' = Found /\ \A t : In(t)' = In(t) BY <1>e DEF Found, In
  <2>2. \A t \in BloomWorker :
          Vertices(t)' = Vertices(t) /\ At(t)' = At(t) /\ WordAt(t)' = WordAt(t)
    BY <1>e, SameVertex
  <2>3. VertexInv' BY <1>e, <2>1, <2>2 DEF BloomIInv, VertexInv
  <2>4. OnlyWhatIsFound' /\ StaleInv' BY <1>e, <2>1, <2>2
                                      DEF BloomIInv, OnlyWhatIsFound, StaleInv
  <2>q. QED BY <2>3, <2>4
<1>4. CheckedInv' /\ PassedInv'
  BY <1>e DEF BloomIInv, CheckedInv, PassedInv, Passed, Added, Removed, Shared, At, Vertices
<1>q. QED BY <1>1, <1>2, <1>3, <1>4 DEF BloomIInv

\* Nothing has been taken, counted, checked or added.
LEMMA BloomStart ==
  ASSUME BloomInit
  PROVE  BloomIInv
<1>1. BloomTypeOK BY BloomNames DEF BloomInit, BloomTypeOK
<1>2. PhaseInv BY DEF BloomInit, PhaseInv, OnWord, OnVertex
<1>3. TakenInv
  <2>1. \A w \in FilterWord : ~ (w < nextLoc) /\ taken[w] = {} BY BloomNames DEF BloomInit
  <2>2. \A t \in BloomWorker : blPc[t] = "take" BY DEF BloomInit
  <2>q. QED BY <2>1, <2>2 DEF TakenInv, OnWord, OnVertex
<1>4. TotalInv
  <2>1. Counted = {} BY BloomNames DEF BloomInit, Counted
  <2>2. OnesOf(Counted) = {} BY <2>1 DEF OnesOf
  <2>q. QED BY <2>2, FS_EmptySet DEF BloomInit, TotalInv
<1>5. MethodIsRight /\ OnlyWhatIsFound /\ CheckedInv /\ PassedInv
  BY DEF BloomInit, MethodIsRight, OnlyWhatIsFound, CheckedInv, PassedInv
<1>6. VertexInv /\ StaleInv BY DEF BloomInit, VertexInv, StaleInv, OnVertex, OnM
<1>q. QED BY <1>1, <1>2, <1>3, <1>4, <1>5, <1>6 DEF BloomIInv

\* Two threads that have stored a word are two.
LEMMA SharedByTwo ==
  ASSUME BloomTypeOK, NEW w \in Set, Cardinality(rewritten[w]) <= 1
  PROVE  ~ Shared(w)
<1>1. rewritten[w] \subseteq BloomWorker BY DEF BloomTypeOK
<1>2. IsFiniteSet(rewritten[w]) BY <1>1, BloomNames, FS_Subset
<1>3. SUFFICES ASSUME NEW t \in rewritten[w], NEW u \in rewritten[w], t # u PROVE FALSE
  BY DEF Shared
<1>4. {t, u} \subseteq rewritten[w] BY <1>3
<1>5. Cardinality({t, u}) <= Cardinality(rewritten[w]) BY <1>2, <1>4, FS_Subset
<1>6. Cardinality({t, u}) = 2
  <2>1. IsFiniteSet({t}) /\ Cardinality({t}) = 1 BY FS_Singleton
  <2>2. Cardinality({t} \cup {u}) = Cardinality({t}) + 1 BY <1>3, <2>1, FS_AddElement
  <2>3. {t} \cup {u} = {t, u} OBVIOUS
  <2>q. QED BY <2>1, <2>2, <2>3
<1>7. Cardinality(rewritten[w]) \in Nat BY <1>2, FS_CardinalityType
<1>q. QED BY <1>5, <1>6, <1>7

\* The inductive invariant implies the safety of the program.
LEMMA BloomIInvIsSafe ==
  ASSUME BloomIInv
  PROVE  BloomInv
<1>a. /\ BloomTypeOK /\ TakenInv /\ MethodIsRight /\ OnlyWhatIsFound /\ PassedInv /\ PhaseInv
  BY DEF BloomIInv
<1>1. EveryWordOnce
  <2>1. SUFFICES ASSUME \A t \in BloomWorker : blPc[t] = "ended", NEW w \in FilterWord
                 PROVE  Cardinality(taken[w]) = 1
    BY DEF EveryWordOnce
  <2>2. PICK t \in BloomWorker : taken[w] = {t} BY <1>a, <2>1, AllAreTaken DEF TakenInv
  <2>q. QED BY <2>2, FS_Singleton
<1>2. NothingIsLostAlone
  <2>1. SUFFICES ASSUME \A t \in BloomWorker : blPc[t] = "ended",
                        NEW w \in Set, Cardinality(rewritten[w]) <= 1
                 PROVE  /\ phase = "ones" => In(w) \cap Member \cap Found \subseteq M[w]
                        /\ phase = "zeros" => M[w] \cap Found = {}
    BY DEF NothingIsLostAlone
  <2>2. ~ Shared(w) BY <1>a, <2>1, SharedByTwo
  <2>3. ASSUME NEW v \in In(w), v \in Found
        PROVE  /\ phase = "ones" /\ v \in Member => Added(v)
               /\ phase = "zeros" => Removed(v)
    <3>1. PICK z \in FilterWord : \E k \in DOMAIN filter.vertices[z] : filter.vertices[z][k] = v
      BY <2>3 DEF Found
    <3>2. PICK k \in DOMAIN filter.vertices[z] : filter.vertices[z][k] = v BY <3>1
    <3>3. Passed(z, k) BY <2>1, AllAreTaken DEF Passed, OnWord, OnVertex
    <3>q. QED BY <1>a, <3>2, <3>3 DEF PassedInv
  <2>4. \A v \in In(w) : WordOf[v] = w BY DEF In
  <2>5. \A t \in BloomWorker : blPc[t] \notin OnM BY <2>1 DEF OnM
  <2>6. phase = "ones" => In(w) \cap Member \cap Found \subseteq M[w]
    BY <2>2, <2>3, <2>4, <2>5 DEF Added
  <2>7. M[w] \subseteq In(w) BY <1>a DEF BloomTypeOK
  <2>8. phase = "zeros" => M[w] \cap Found = {}
    BY <2>2, <2>3, <2>4, <2>7 DEF Removed
  <2>q. QED BY <2>6, <2>8
<1>q. QED BY <1>a, <1>1, <1>2 DEF BloomInv

\* BloomInv is an invariant of hashInvertM.c, for any number of threads and whatever the
\* filter: each phase shares its words out exactly once, the method fits the ones that were
\* counted, nothing but members is added and nothing but what hashes to a zero is removed,
\* and what one thread alone has changed of a word of M is not lost.
THEOREM BloomIsSafe == BloomSpec => []BloomInv
<1>1. BloomInit => BloomIInv BY BloomStart
<1>2. BloomIInv /\ [BloomNext]_bloomVars => BloomIInv'
  <2>1. SUFFICES ASSUME BloomIInv, [BloomNext]_bloomVars PROVE BloomIInv' OBVIOUS
  <2>2. CASE Reconstruct BY <2>1, <2>2, ReconstructStep
  <2>3. CASE CountMembers BY <2>1, <2>3, CountMembersStep
  <2>4. CASE BloomTerminated BY <2>1, <2>4, BloomStutter DEF BloomTerminated
  <2>5. ASSUME NEW t \in BloomWorker, worker(t) PROVE BloomIInv'
    <3>1. CASE TakeWord(t) BY <2>1, <3>1, TakeWordStep
    <3>2. CASE CountOnes(t) BY <2>1, <3>2, CountOnesStep
    <3>3. CASE NextVertex(t) BY <2>1, <3>3, NextVertexStep
    <3>4. CASE LoadChecked(t) BY <2>1, <3>4, LoadCheckedStep
    <3>5. CASE StoreChecked(t) BY <2>1, <3>5, StoreCheckedStep
    <3>6. CASE LoadM(t) BY <2>1, <3>6, LoadMStep
    <3>7. CASE StoreM(t) BY <2>1, <3>7, StoreMStep
    <3>8. CASE EndWord(t) BY <2>1, <3>8, EndWordStep
    <3>q. QED BY <2>5, <3>1, <3>2, <3>3, <3>4, <3>5, <3>6, <3>7, <3>8 DEF worker
  <2>6. CASE UNCHANGED bloomVars BY <2>1, <2>6, BloomStutter
  <2>q. QED BY <2>1, <2>2, <2>3, <2>4, <2>5, <2>6 DEF BloomNext
<1>3. BloomIInv => BloomInv BY BloomIInvIsSafe
<1>q. QED BY <1>1, <1>2, <1>3, PTL DEF BloomSpec
-----------------------------------------------------------------------------

(***************************************************************************)
(* The programs that keep a record: whoever has the mutex finds it whole,  *)
(* or is the one that is writing it.                                       *)
(***************************************************************************)

RecordThread == {"1", "2", "reader"}

\* The field of a student that is copied next.
StudentField == <<"name", "surname", "grade">>

RecordsTypes ==
  /\ kept \in {"employee_with_mutex.c", "023_sync_mutex.c"}
  /\ temp \in [Field -> 0 .. 2] /\ local \in [Field -> 0 .. 2] /\ turn \in 0 .. 1
  /\ recPc \in [RecordThread -> {"lock", "copy", "look"}]
  /\ todo \in [{1, 2} -> SUBSET Field] /\ recK \in Nat

\* The mutex is held by the one that copies or looks.
RecLockInv ==
  /\ recLock \in RecordThread \cup {NoThread}
  /\ \A t \in RecordThread : recPc[t] # "lock" <=> recLock = t
  /\ recPc["reader"] # "copy" /\ recPc["1"] # "look" /\ recPc["2"] # "look"
  /\ ~Employees => recPc["2"] = "lock"

\* The record is whole unless somebody is copying, who has copied all but what is to do.
WholeInv ==
  /\ recLock \in {NoThread, "reader"} => IsWhole(temp)
  /\ \A w \in {1, 2} : recPc[Name(w)] = "copy" => \A f \in Field \ todo[w] : temp[f] = Source(w)

\* What the reader has seen of the record, and what it has copied.
ReaderInv ==
  /\ Employees => IsWhole(local) /\ (recPc["reader"] = "look" => recP = temp["number"])
  /\ recPc["reader"] = "lock" => IsWhole(local)
  /\ ~Employees /\ recPc["reader"] = "look" =>
       recK \in 0 .. 3 /\ \A j \in 1 .. recK : local[StudentField[j]] = temp[StudentField[j]]

RecordsIInv == RecordsTypes /\ RecLockInv /\ WholeInv /\ ReaderInv

\* The names of the threads, and what they write.
LEMMA RecordNames ==
  /\ \A w \in {1, 2} : Name(w) \in {"1", "2"} /\ Name(w) \in RecordThread
  /\ Name(1) = "1" /\ Name(2) = "2" /\ NoThread \notin RecordThread
  /\ \A w \in Writer : w \in {1, 2} /\ (~Employees => w = 1)
  BY DEF Name, RecordThread, NoThread, Writer

\* The fields of a record.
LEMMA RecordFields ==
  /\ Employees => "number" \in Field /\ \A j \in 1 .. Len(Checked) : Checked[j] \in Field
  /\ ~Employees => /\ Field = {"name", "surname", "grade"}
                   /\ \A j \in 1 .. 3 : StudentField[j] \in Field
                   /\ \A f \in Field : \E j \in 1 .. 3 : f = StudentField[j]
<1>1. Employees => "number" \in Field /\ \A j \in 1 .. Len(Checked) : Checked[j] \in Field
  <2>1. DOMAIN Checked = 1 .. Len(Checked) BY RecordsAssumption
  <2>q. QED BY <2>1 DEF Field
<1>2. ~Employees => Field = {"name", "surname", "grade"} BY DEF Field
<1>3. StudentField[1] = "name" /\ StudentField[2] = "surname" /\ StudentField[3] = "grade"
  BY DEF StudentField
<1>4. \A j \in 1 .. 3 : j = 1 \/ j = 2 \/ j = 3 OBVIOUS
<1>5. 1 \in 1 .. 3 /\ 2 \in 1 .. 3 /\ 3 \in 1 .. 3 OBVIOUS
<1>q. QED BY <1>1, <1>2, <1>3, <1>4, <1>5

\* The start of the two programs with records.
LEMMA RecordsStart ==
  ASSUME RecordsInit
  PROVE  RecordsIInv
<1>1. RecordsTypes BY DEF RecordsInit, RecordsTypes, RecordThread
<1>2. RecLockInv BY DEF RecordsInit, RecLockInv, RecordThread, NoThread
<1>3. IsWhole(temp) /\ IsWhole(local) BY DEF RecordsInit, IsWhole
<1>4. WholeInv BY <1>3, RecordNames DEF RecordsInit, WholeInv, RecordThread
<1>5. ReaderInv BY <1>3 DEF RecordsInit, ReaderInv
<1>q. QED BY <1>1, <1>2, <1>4, <1>5 DEF RecordsIInv

\* A writer takes the lock.
LEMMA WriterLockStep ==
  ASSUME RecordsIInv, NEW w \in Writer, WriterLock(w)
  PROVE  RecordsIInv'
<1>a. RecordsTypes /\ RecLockInv /\ WholeInv /\ ReaderInv BY DEF RecordsIInv
<1>e. /\ recPc[Name(w)] = "lock" /\ recLock = NoThread /\ recLock' = Name(w)
      /\ recPc' = [recPc EXCEPT ![Name(w)] = "copy"] /\ todo' = [todo EXCEPT ![w] = Field]
      /\ kept' = kept /\ temp' = temp /\ turn' = turn /\ recK' = recK /\ recP' = recP
      /\ local' = local
  BY DEF WriterLock, RecordsTakes, Lock, RecordsGo
<1>n. w \in {1, 2} /\ Name(w) \in {"1", "2"} /\ (~Employees => w = 1 /\ Name(w) = "1")
  BY RecordNames
<1>p. /\ DOMAIN recPc = RecordThread /\ DOMAIN todo = {1, 2}
      /\ \A t \in RecordThread : recPc'[t] = IF t = Name(w) THEN "copy" ELSE recPc[t]
      /\ \A u \in {1, 2} : todo'[u] = IF u = w THEN Field ELSE todo[u]
  BY <1>a, <1>e DEF RecordsTypes
<1>f. Field' = Field /\ Employees' = Employees BY <1>e DEF Field, Employees
<1>1. RecordsTypes' BY <1>a, <1>e, <1>f DEF RecordsTypes
<1>2. RecLockInv' BY <1>a, <1>e, <1>f, <1>n, <1>p DEF RecLockInv, RecordThread, NoThread
<1>3. WholeInv'
  <2>1. recLock' \notin {NoThread, "reader"} BY <1>e, <1>n DEF NoThread
  <2>2. \A u \in {1, 2} : u # w => recPc[Name(u)] = "lock"
    BY <1>a, <1>e, RecordNames DEF RecLockInv, NoThread, RecordThread
  <2>3. \A u \in {1, 2} : recPc'[Name(u)] = "copy" => todo'[u] = Field
    BY <1>n, <1>p, <2>2, RecordNames
  <2>q. QED BY <1>f, <2>1, <2>3 DEF WholeInv
<1>4. ReaderInv'
  <2>1. recPc'["reader"] = recPc["reader"] BY <1>n, <1>p DEF RecordThread
  <2>q. QED BY <1>a, <1>e, <1>f, <2>1 DEF ReaderInv
<1>q. QED BY <1>1, <1>2, <1>3, <1>4 DEF RecordsIInv

\* A writer copies one field.
LEMMA CopyStep ==
  ASSUME RecordsIInv, NEW w \in Writer, Copy(w)
  PROVE  RecordsIInv'
<1>a. RecordsTypes /\ RecLockInv /\ WholeInv /\ ReaderInv BY DEF RecordsIInv
<1>e. /\ recPc[Name(w)] = "copy" /\ recLock' = recLock /\ recPc' = recPc
      /\ kept' = kept /\ turn' = turn /\ recK' = recK /\ recP' = recP /\ local' = local
  BY DEF Copy
<1>c. PICK f \in todo[w] : /\ temp' = [temp EXCEPT ![f] = Source(w)]
                           /\ todo' = [todo EXCEPT ![w] = @ \ {f}]
  BY DEF Copy
<1>n. w \in {1, 2} /\ Name(w) \in {"1", "2"} /\ Name(w) \in RecordThread BY RecordNames
<1>l. recLock = Name(w) /\ recPc["reader"] = "lock"
  BY <1>a, <1>e, <1>n DEF RecLockInv, RecordThread
<1>f. Field' = Field /\ Employees' = Employees /\ f \in Field /\ Source(w) \in 0 .. 2
      /\ \A u : Source(u)' = Source(u)
  BY <1>a, <1>c, <1>e, <1>n DEF Field, Employees, RecordsTypes, Source
<1>p. /\ DOMAIN temp = Field /\ \A g \in Field : temp'[g] = IF g = f THEN Source(w) ELSE temp[g]
      /\ DOMAIN todo = {1, 2}
      /\ \A u \in {1, 2} : todo'[u] = IF u = w THEN todo[u] \ {f} ELSE todo[u]
  BY <1>a, <1>c DEF RecordsTypes
<1>1. RecordsTypes'
  <2>1. temp' \in [Field -> 0 .. 2] BY <1>a, <1>c, <1>f DEF RecordsTypes
  <2>2. todo' \in [{1, 2} -> SUBSET Field] BY <1>a, <1>c, <1>n DEF RecordsTypes
  <2>q. QED BY <1>a, <1>e, <1>f, <2>1, <2>2 DEF RecordsTypes
<1>2. RecLockInv' BY <1>a, <1>e, <1>f DEF RecLockInv
<1>3. WholeInv'
  <2>1. recLock' \notin {NoThread, "reader"} BY <1>e, <1>l, <1>n DEF NoThread
  <2>2. ASSUME NEW u \in {1, 2}, recPc[Name(u)] = "copy", NEW g \in Field, g \notin todo'[u]
        PROVE  temp'[g] = Source(u)
    <3>1. u = w BY <1>a, <1>l, <1>n, <2>2, RecordNames DEF RecLockInv
    <3>q. QED BY <1>a, <1>p, <2>2, <3>1 DEF WholeInv
  <2>q. QED BY <1>e, <1>f, <2>1, <2>2 DEF WholeInv
<1>4. ReaderInv' BY <1>a, <1>e, <1>f, <1>l DEF ReaderInv
<1>q. QED BY <1>1, <1>2, <1>3, <1>4 DEF RecordsIInv

\* A writer has written its record.
LEMMA WriterUnlockStep ==
  ASSUME RecordsIInv, NEW w \in Writer, WriterUnlock(w)
  PROVE  RecordsIInv'
<1>a. RecordsTypes /\ RecLockInv /\ WholeInv /\ ReaderInv BY DEF RecordsIInv
<1>e. /\ recPc[Name(w)] = "copy" /\ todo[w] = {} /\ recLock' = NoThread
      /\ recPc' = [recPc EXCEPT ![Name(w)] = "lock"]
      /\ turn' = IF Employees THEN turn ELSE (turn + 1) % 2
      /\ kept' = kept /\ temp' = temp /\ todo' = todo /\ recK' = recK /\ recP' = recP
      /\ local' = local
  BY DEF WriterUnlock, Unlock, RecordsGo
<1>n. w \in {1, 2} /\ Name(w) \in {"1", "2"} /\ Name(w) \in RecordThread BY RecordNames
<1>p. /\ DOMAIN recPc = RecordThread
      /\ \A t \in RecordThread : recPc'[t] = IF t = Name(w) THEN "lock" ELSE recPc[t]
  BY <1>a, <1>e DEF RecordsTypes
<1>l. /\ recLock = Name(w) /\ recPc["reader"] = "lock"
      /\ \A t \in RecordThread : recPc'[t] = "lock"
  BY <1>a, <1>e, <1>n, <1>p DEF RecLockInv, RecordThread
<1>f. Field' = Field /\ Employees' = Employees BY <1>e DEF Field, Employees
<1>t. turn' \in 0 .. 1
  <2>1. turn \in 0 .. 1 BY <1>a DEF RecordsTypes
  <2>2. turn = 0 \/ turn = 1 BY <2>1
  <2>q. QED BY <1>e, <2>2
<1>1. RecordsTypes' BY <1>a, <1>e, <1>f, <1>t DEF RecordsTypes
<1>2. RecLockInv' BY <1>e, <1>l DEF RecLockInv, RecordThread, NoThread
<1>3. WholeInv'
  <2>1. IsWhole(temp)
    <3>1. \A f \in Field : temp[f] = Source(w) BY <1>a, <1>e, <1>n DEF WholeInv
    <3>2. DOMAIN temp = Field BY <1>a DEF RecordsTypes
    <3>q. QED BY <3>1, <3>2 DEF IsWhole
  <2>2. \A u \in {1, 2} : recPc'[Name(u)] = "lock" BY <1>l, RecordNames
  <2>q. QED BY <1>e, <2>1, <2>2 DEF WholeInv, IsWhole
<1>4. ReaderInv'
  <2>1. recPc'["reader"] = "lock" BY <1>l DEF RecordThread
  <2>q. QED BY <1>a, <1>e, <1>f, <1>l, <2>1 DEF ReaderInv, IsWhole
<1>q. QED BY <1>1, <1>2, <1>3, <1>4 DEF RecordsIInv

\* main() copies what it compares.
LEMMA ReaderStep ==
  ASSUME RecordsIInv, read
  PROVE  RecordsIInv'
<1>a. RecordsTypes /\ RecLockInv /\ WholeInv /\ ReaderInv BY DEF RecordsIInv
<1>d. DOMAIN recPc = RecordThread /\ "reader" \in RecordThread BY <1>a
                                                               DEF RecordsTypes, RecordThread
<1>k. kept' = kept /\ temp' = temp /\ todo' = todo /\ turn' = turn
  BY DEF read, ReaderLock, Compare, CopyStudent, ReaderUnlock
<1>f. Field' = Field /\ Employees' = Employees /\ \A u : Source(u)' = Source(u)
  BY <1>k DEF Field, Employees, Source
<1>1. CASE ReaderLock
  <2>e. /\ recPc["reader"] = "lock" /\ recLock = NoThread /\ recLock' = "reader"
        /\ recPc' = [recPc EXCEPT !["reader"] = "look"] /\ recK' = 0 /\ local' = local
        /\ recP' = IF Employees THEN temp["number"] ELSE recP
    BY <1>1 DEF ReaderLock, RecordsTakes, Lock, RecordsGo
  <2>p. \A t \in RecordThread : recPc'[t] = IF t = "reader" THEN "look" ELSE recPc[t]
    BY <1>d, <2>e
  <2>1. RecordsTypes' BY <1>a, <1>f, <1>k, <2>e DEF RecordsTypes
  <2>2. RecLockInv' BY <1>a, <1>f, <2>e, <2>p DEF RecLockInv, RecordThread, NoThread
  <2>3. \A w \in {1, 2} : recPc'[Name(w)] = recPc[Name(w)] BY <2>p, RecordNames
  <2>4. WholeInv' BY <1>a, <1>f, <1>k, <2>3, <2>e DEF WholeInv, IsWhole
  <2>5. recPc'["reader"] = "look" BY <1>d, <2>p
  <2>6. ReaderInv' BY <1>a, <1>f, <1>k, <2>5, <2>e DEF ReaderInv, IsWhole
  <2>q. QED BY <2>1, <2>2, <2>4, <2>6 DEF RecordsIInv
<1>2. CASE Compare
  <2>1. Employees /\ recPc["reader"] = "look" /\ recK < Len(Checked) /\ recK \in Nat
    BY <1>2, <1>a DEF Compare, RecordsTypes
  <2>2. recLock = "reader" BY <1>a, <1>d, <2>1 DEF RecLockInv
  <2>3. temp[Checked[recK + 1]] = recP
    <3>1. IsWhole(temp) /\ recP = temp["number"] BY <1>a, <2>1, <2>2 DEF WholeInv, ReaderInv
    <3>2. recK + 1 \in 1 .. Len(Checked) BY <2>1, RecordsAssumption
    <3>3. DOMAIN temp = Field BY <1>a DEF RecordsTypes
    <3>4. Checked[recK + 1] \in Field /\ "number" \in Field BY <2>1, <3>2, RecordFields
    <3>q. QED BY <3>1, <3>3, <3>4 DEF IsWhole
  <2>e. recLock' = recLock /\ recPc' = recPc /\ recK' = recK + 1 /\ recP' = recP /\ local' = local
    BY <1>2, <2>3 DEF Compare
  <2>4. RecordsTypes' BY <1>a, <1>f, <1>k, <2>1, <2>e DEF RecordsTypes
  <2>5. RecLockInv' BY <1>a, <1>f, <2>e DEF RecLockInv
  <2>6. WholeInv' BY <1>a, <1>f, <1>k, <2>e DEF WholeInv
  <2>7. ReaderInv' BY <1>a, <1>f, <1>k, <2>1, <2>e DEF ReaderInv
  <2>q. QED BY <2>4, <2>5, <2>6, <2>7 DEF RecordsIInv
<1>3. CASE CopyStudent
  <2>e. /\ ~Employees /\ recPc["reader"] = "look" /\ recK < 3 /\ recK' = recK + 1
        /\ local' = [local EXCEPT ![StudentField[recK + 1]] = temp[StudentField[recK + 1]]]
        /\ recLock' = recLock /\ recPc' = recPc /\ recP' = recP
    BY <1>3 DEF CopyStudent, StudentField
  <2>1. recK \in 0 .. 2 /\ recK + 1 \in 1 .. 3 BY <1>a, <2>e DEF RecordsTypes
  <2>2. PICK f \in Field : f = StudentField[recK + 1] BY <2>1, <2>e, RecordFields
  <2>3. local' = [local EXCEPT ![f] = temp[f]] BY <2>2, <2>e
  <2>4. RecordsTypes'
    <3>1. local' \in [Field -> 0 .. 2] BY <1>a, <2>3 DEF RecordsTypes
    <3>q. QED BY <1>a, <1>f, <1>k, <2>1, <2>e, <3>1 DEF RecordsTypes
  <2>5. RecLockInv' BY <1>a, <1>f, <2>e DEF RecLockInv
  <2>6. WholeInv' BY <1>a, <1>f, <1>k, <2>e DEF WholeInv
  <2>7. ReaderInv'
    <3>1. ASSUME NEW j \in 1 .. recK + 1 PROVE local'[StudentField[j]] = temp[StudentField[j]]
      <4>1. j \in 1 .. 3 BY <2>1
      <4>2. StudentField[j] \in Field BY <2>e, <4>1, RecordFields
      <4>3. CASE StudentField[j] = f BY <1>a, <2>3, <4>2, <4>3 DEF RecordsTypes
      <4>4. CASE StudentField[j] # f
        <5>1. j \in 1 .. recK BY <2>1, <2>2, <4>4
        <5>q. QED BY <1>a, <2>3, <2>e, <4>2, <4>4, <5>1 DEF RecordsTypes, ReaderInv
      <4>q. QED BY <4>3, <4>4
    <3>q. QED BY <1>f, <1>k, <2>1, <2>e, <3>1 DEF ReaderInv
  <2>q. QED BY <2>4, <2>5, <2>6, <2>7 DEF RecordsIInv
<1>4. CASE ReaderUnlock
  <2>e. /\ recPc["reader"] = "look" /\ recK = (IF Employees THEN Len(Checked) ELSE 3)
        /\ recLock' = NoThread /\ recPc' = [recPc EXCEPT !["reader"] = "lock"]
        /\ recK' = recK /\ recP' = recP /\ local' = local
    BY <1>4 DEF ReaderUnlock, Unlock, RecordsGo
  <2>p. \A t \in RecordThread : recPc'[t] = IF t = "reader" THEN "lock" ELSE recPc[t]
    BY <1>d, <2>e
  <2>1. recLock = "reader" /\ IsWhole(temp) BY <1>a, <1>d, <2>e DEF RecLockInv, WholeInv
  <2>2. RecordsTypes' BY <1>a, <1>f, <1>k, <2>e DEF RecordsTypes
  <2>3. RecLockInv' BY <1>a, <1>f, <2>1, <2>e, <2>p DEF RecLockInv, RecordThread, NoThread
  <2>4. \A w \in {1, 2} : recPc'[Name(w)] = recPc[Name(w)] BY <2>p, RecordNames
  <2>5. WholeInv' BY <1>a, <1>f, <1>k, <2>1, <2>4, <2>e DEF WholeInv, IsWhole
  <2>6. IsWhole(local)
    <3>1. CASE Employees BY <1>a, <3>1 DEF ReaderInv
    <3>2. CASE ~Employees
      <4>1. \A j \in 1 .. 3 : local[StudentField[j]] = temp[StudentField[j]]
        BY <1>a, <2>e, <3>2 DEF ReaderInv
      <4>2. \A f \in Field : local[f] = temp[f] BY <3>2, <4>1, RecordFields
      <4>3. DOMAIN local = Field /\ DOMAIN temp = Field BY <1>a DEF RecordsTypes
      <4>q. QED BY <2>1, <4>2, <4>3 DEF IsWhole
    <3>q. QED BY <3>1, <3>2
  <2>7. recPc'["reader"] = "lock" BY <1>d, <2>p
  <2>8. ReaderInv' BY <1>f, <2>6, <2>7, <2>e DEF ReaderInv, IsWhole
  <2>q. QED BY <2>2, <2>3, <2>5, <2>8 DEF RecordsIInv
<1>q. QED BY <1>1, <1>2, <1>3, <1>4 DEF read

\* RecordsInv is an invariant of employee_with_mutex.c, whichever fields main() compares,
\* and of 023_sync_mutex.c: nobody finds a record half written.
THEOREM RecordsAreWhole == RecordsSpec => []RecordsInv
<1>1. RecordsInit => RecordsIInv BY RecordsStart
<1>2. RecordsIInv /\ [RecordsNext]_recordVars => RecordsIInv'
  <2>1. SUFFICES ASSUME RecordsIInv, [RecordsNext]_recordVars PROVE RecordsIInv' OBVIOUS
  <2>2. CASE read BY <2>1, <2>2, ReaderStep
  <2>3. ASSUME NEW w \in Writer, write(w) PROVE RecordsIInv'
    <3>1. CASE WriterLock(w) BY <2>1, <3>1, WriterLockStep
    <3>2. CASE Copy(w) BY <2>1, <3>2, CopyStep
    <3>3. CASE WriterUnlock(w) BY <2>1, <3>3, WriterUnlockStep
    <3>q. QED BY <2>3, <3>1, <3>2, <3>3 DEF write
  <2>4. CASE UNCHANGED recordVars
    BY SMTT(30), <2>1, <2>4
    DEF recordVars, RecordsIInv, RecordsTypes, RecLockInv, WholeInv, ReaderInv, IsWhole, Field,
        Employees, Source
  <2>q. QED BY <2>1, <2>2, <2>3, <2>4 DEF RecordsNext
<1>3. RecordsIInv => RecordsInv
  <2>1. SUFFICES ASSUME RecordsIInv PROVE RecordsInv OBVIOUS
  <2>2. recPc["reader"] # "mismatching" BY <2>1 DEF RecordsIInv, RecordsTypes, RecordThread
  <2>3. RecordsTypeOK BY <2>1
                      DEF RecordsIInv, RecordsTypes, RecLockInv, RecordsTypeOK, RecordThread
  <2>4. ReadsAreWhole BY <2>1, <2>2 DEF RecordsIInv, ReadsAreWhole, WholeInv, ReaderInv, Exited
  <2>q. QED BY <2>3, <2>4 DEF RecordsInv
<1>q. QED BY <1>1, <1>2, <1>3, PTL DEF RecordsSpec

-----------------------------------------------------------------------------
(***************************************************************************)
(* mode_extra.c: a button that was lit has been hit, has expired or still  *)
(* is lit, since the mutex is held from what is worked out to its count.   *)
(***************************************************************************)

ModeTypes ==
  /\ answer \in SUBSET Buttons /\ rest_time \in [Buttons -> Int]
  /\ correct \in SUBSET Buttons /\ incorrect \in SUBSET Buttons
  /\ score \in Nat /\ lit \in Nat /\ hit \in Nat /\ expired \in Nat
  /\ modeMutex \in {"main", "worker", NoThread}
  /\ workerPc \in {"loop", "lock", "light", "done"} /\ mainPc \in {"game", "count", "join", "done"}
  /\ \A b \in answer : rest_time[b] \in 0 .. MaxRest

\* The mutex is held by the one that counts; what is right is among what is lit until then.
GameInv ==
  /\ mainPc = "count" <=> modeMutex = "main"
  /\ workerPc = "light" <=> modeMutex = "worker"
  /\ mainPc = "count" => correct \subseteq answer
  /\ isFree => workerPc = "done" /\ mainPc = "done"

ModeIInv == ModeTypes /\ GameInv /\ EachIsHitOrExpires /\ ScoreIsEarned

\* Some of the buttons are finitely many, and those that are put out no longer count.
LEMMA ButtonsAreCounted ==
  ASSUME NEW S \in SUBSET Buttons
  PROVE  /\ IsFiniteSet(S) /\ Cardinality(S) \in Nat
         /\ \A T \in SUBSET S : Cardinality(S \ T) = Cardinality(S) - Cardinality(T)
         /\ \A b \in Buttons \ S : Cardinality(S \cup {b}) = Cardinality(S) + 1
<1>1. IsFiniteSet(S) BY ModeExtraAssumption, FS_Subset
<1>2. Cardinality(S) \in Nat BY <1>1, FS_CardinalityType
<1>3. ASSUME NEW T \in SUBSET S PROVE Cardinality(S \ T) = Cardinality(S) - Cardinality(T)
  <2>1. S \cap T = T BY <1>3
  <2>q. QED BY <1>1, <2>1, FS_Difference
<1>4. ASSUME NEW b \in Buttons \ S PROVE Cardinality(S \cup {b}) = Cardinality(S) + 1
  BY <1>1, <1>4, FS_AddElement
<1>q. QED BY <1>1, <1>2, <1>3, <1>4

\* The start of mode_extra.c.
LEMMA ModeStart ==
  ASSUME ModeInit
  PROVE  ModeIInv
<1>1. ModeTypes BY ModeExtraAssumption DEF ModeInit, ModeTypes
<1>2. GameInv BY DEF ModeInit, GameInv, NoThread
<1>3. EachIsHitOrExpires /\ ScoreIsEarned
  BY FS_EmptySet DEF ModeInit, EachIsHitOrExpires, ScoreIsEarned
<1>q. QED BY <1>1, <1>2, <1>3 DEF ModeIInv

\* The player presses buttons, and main() counts the hits.
LEMMA SwitchStep ==
  ASSUME ModeIInv, mode_extra_switch
  PROVE  ModeIInv'
<1>a. ModeTypes /\ GameInv /\ EachIsHitOrExpires /\ ScoreIsEarned BY DEF ModeIInv
<1>1. CASE SwitchLock
  <2>e. /\ mainPc = "game" /\ modeMutex = NoThread /\ modeMutex' = "main" /\ mainPc' = "count"
        /\ answer' = answer /\ rest_time' = rest_time /\ score' = score /\ workerPc' = workerPc
        /\ isFree' = isFree /\ lit' = lit /\ hit' = hit /\ expired' = expired
    BY <1>1 DEF SwitchLock, Lock
  <2>1. PICK data \in SUBSET Buttons : correct' = answer \cap data /\ incorrect' = data \ answer
    BY <1>1 DEF SwitchLock
  <2>2. ModeTypes' BY <1>a, <2>1, <2>e DEF ModeTypes
  <2>3. GameInv' BY <1>a, <2>1, <2>e DEF GameInv, NoThread
  <2>4. EachIsHitOrExpires' /\ ScoreIsEarned' BY <1>a, <2>e
                                              DEF EachIsHitOrExpires, ScoreIsEarned
  <2>q. QED BY <2>2, <2>3, <2>4 DEF ModeIInv
<1>2. CASE SwitchCount
  <2>e. /\ mainPc = "count" /\ mainPc' = "game" /\ modeMutex' = NoThread
        /\ answer' = (answer \ correct) \cup (correct \ answer)
        /\ score' = NotBelowZero(score + Cardinality(correct) - Cardinality(incorrect))
        /\ hit' = hit + Cardinality(correct)
        /\ rest_time' = rest_time /\ workerPc' = workerPc /\ correct' = correct
        /\ incorrect' = incorrect /\ isFree' = isFree /\ lit' = lit /\ expired' = expired
    BY <1>2 DEF SwitchCount, Unlock
  <2>1. correct \subseteq answer /\ answer' = answer \ correct BY <1>a, <2>e DEF GameInv
  <2>2. PICK c \in Nat : c = Cardinality(correct) BY <1>a, ButtonsAreCounted DEF ModeTypes
  <2>3. PICK d \in Nat : d = Cardinality(incorrect) BY <1>a, ButtonsAreCounted DEF ModeTypes
  <2>4. PICK l \in Nat : l = Cardinality(answer) BY <1>a, ButtonsAreCounted DEF ModeTypes
  <2>5. Cardinality(answer') = l - c BY <1>a, <2>1, <2>2, <2>4, ButtonsAreCounted DEF ModeTypes
  <2>6. score \in Nat /\ hit \in Nat /\ expired \in Nat /\ lit \in Nat BY <1>a DEF ModeTypes
  <2>7. score' = (IF score + c - d < 0 THEN 0 ELSE score + c - d) /\ hit' = hit + c
    BY <2>2, <2>3, <2>e DEF NotBelowZero
  <2>8. score' \in Nat /\ hit' \in Nat BY <2>6, <2>7
  <2>9. ModeTypes' BY <1>a, <2>1, <2>8, <2>e DEF ModeTypes
  <2>10. GameInv' BY <1>a, <2>e DEF GameInv, NoThread
  <2>11. EachIsHitOrExpires' BY <1>a, <2>4, <2>5, <2>6, <2>7, <2>e DEF EachIsHitOrExpires
  <2>12. ScoreIsEarned' BY <1>a, <2>6, <2>7 DEF ScoreIsEarned
  <2>q. QED BY <2>9, <2>10, <2>11, <2>12 DEF ModeIInv
<1>q. QED BY <1>1, <1>2 DEF mode_extra_switch

\* main() tells the thread to stop and frees the state; or nothing happens.
LEMMA DestroyStep ==
  ASSUME ModeIInv, mode_extra_destroy \/ Rest \/ UNCHANGED modeVars
  PROVE  ModeIInv'
<1>a. ModeTypes /\ GameInv /\ EachIsHitOrExpires /\ ScoreIsEarned BY DEF ModeIInv
<1>1. CASE Terminate
  <2>e. /\ mainPc = "game" /\ mainPc' = "join" /\ modeMutex' = modeMutex
        /\ answer' = answer /\ rest_time' = rest_time /\ score' = score /\ workerPc' = workerPc
        /\ correct' = correct /\ incorrect' = incorrect
        /\ isFree' = isFree /\ lit' = lit /\ hit' = hit /\ expired' = expired
    BY <1>1 DEF Terminate
  <2>q. QED BY <1>a, <2>e DEF ModeIInv, ModeTypes, GameInv, EachIsHitOrExpires, ScoreIsEarned
<1>2. CASE Destroy
  <2>e. /\ mainPc = "join" /\ workerPc = "done" /\ mainPc' = "done" /\ modeMutex' = modeMutex
        /\ answer' = answer /\ rest_time' = rest_time /\ score' = score /\ workerPc' = workerPc
        /\ correct' = correct /\ incorrect' = incorrect
        /\ lit' = lit /\ hit' = hit /\ expired' = expired
    BY <1>2 DEF Destroy, ModeJoined
  <2>q. QED BY <1>a, <2>e DEF ModeIInv, ModeTypes, GameInv, EachIsHitOrExpires, ScoreIsEarned
<1>3. CASE Rest \/ UNCHANGED modeVars
  <2>e. /\ mainPc' = mainPc /\ workerPc' = workerPc /\ modeMutex' = modeMutex
        /\ answer' = answer /\ rest_time' = rest_time /\ score' = score
        /\ correct' = correct /\ incorrect' = incorrect
        /\ isFree' = isFree /\ lit' = lit /\ hit' = hit /\ expired' = expired
    BY <1>3 DEF Rest, modeVars
  <2>q. QED BY <1>a, <2>e DEF ModeIInv, ModeTypes, GameInv, EachIsHitOrExpires, ScoreIsEarned
<1>q. QED BY <1>1, <1>2, <1>3 DEF mode_extra_destroy

\* The thread takes the mutex, and what is lit grows older or expires.
LEMMA AgeStep ==
  ASSUME ModeIInv, Age
  PROVE  ModeIInv'
<1>a. ModeTypes /\ GameInv /\ EachIsHitOrExpires /\ ScoreIsEarned BY DEF ModeIInv
<1>e. /\ workerPc = "lock" /\ modeMutex = NoThread /\ modeMutex' = "worker" /\ workerPc' = "light"
      /\ mainPc' = mainPc /\ correct' = correct /\ incorrect' = incorrect
      /\ isFree' = isFree /\ lit' = lit /\ hit' = hit
  BY DEF Age, WorkerTakes, Lock
<1>g. PICK gap \in 1 .. 2 :
       /\ rest_time' = [b \in Buttons |-> IF b \in answer THEN rest_time[b] - gap ELSE rest_time[b]]
       /\ answer' = answer \ Over(gap)
       /\ score' = NotBelowZero(score - Cardinality(Over(gap)))
       /\ expired' = expired + Cardinality(Over(gap))
  BY DEF Age
<1>o. Over(gap) \subseteq answer BY DEF Over
<1>2. PICK o \in Nat : o = Cardinality(Over(gap)) BY <1>a, <1>o, ButtonsAreCounted DEF ModeTypes
<1>4. PICK l \in Nat : l = Cardinality(answer) BY <1>a, ButtonsAreCounted DEF ModeTypes
<1>5. Cardinality(answer') = l - o
  BY <1>a, <1>g, <1>o, <1>2, <1>4, ButtonsAreCounted DEF ModeTypes
<1>6. score \in Nat /\ hit \in Nat /\ expired \in Nat /\ lit \in Nat BY <1>a DEF ModeTypes
<1>7. score' = (IF score - o < 0 THEN 0 ELSE score - o) /\ expired' = expired + o
  BY <1>2, <1>g DEF NotBelowZero
<1>8. score' \in Nat /\ expired' \in Nat BY <1>6, <1>7
<1>r. rest_time' \in [Buttons -> Int] /\ \A b \in answer' : rest_time'[b] \in 0 .. MaxRest
  <2>1. \A b \in Buttons : rest_time[b] \in Int BY <1>a DEF ModeTypes
  <2>2. \A b \in Buttons : rest_time[b] - gap \in Int BY <2>1
  <2>3. rest_time' \in [Buttons -> Int] BY <1>g, <2>1, <2>2
  <2>4. ASSUME NEW b \in answer' PROVE rest_time'[b] \in 0 .. MaxRest
    <3>1. b \in answer /\ b \in Buttons /\ ~ (rest_time[b] - gap < 0) BY <1>a, <1>g, <2>4
                                                                      DEF Over, ModeTypes
    <3>2. rest_time[b] \in 0 .. MaxRest BY <1>a, <3>1 DEF ModeTypes
    <3>3. rest_time'[b] = rest_time[b] - gap BY <1>g, <3>1
    <3>q. QED BY <3>1, <3>2, <3>3, ModeExtraAssumption
  <2>q. QED BY <2>3, <2>4
<1>9. ModeTypes' BY <1>a, <1>8, <1>e, <1>g, <1>r DEF ModeTypes
<1>10. GameInv' BY <1>a, <1>e DEF GameInv, NoThread
<1>11. EachIsHitOrExpires' BY <1>a, <1>4, <1>5, <1>6, <1>7, <1>e DEF EachIsHitOrExpires
<1>12. ScoreIsEarned' BY <1>a, <1>6, <1>7, <1>e DEF ScoreIsEarned
<1>q. QED BY <1>9, <1>10, <1>11, <1>12 DEF ModeIInv

\* The thread lights a button.
LEMMA LightStep ==
  ASSUME ModeIInv, Light
  PROVE  ModeIInv'
<1>a. ModeTypes /\ GameInv /\ EachIsHitOrExpires /\ ScoreIsEarned BY DEF ModeIInv
<1>e. /\ workerPc = "light" /\ modeMutex' = NoThread /\ workerPc' = "loop"
      /\ mainPc' = mainPc /\ correct' = correct /\ incorrect' = incorrect
      /\ isFree' = isFree /\ hit' = hit /\ expired' = expired /\ score' = score
  BY DEF Light, Unlock
<1>0. GameInv'
  <2>1. modeMutex = "worker" BY <1>a, <1>e DEF GameInv
  <2>q. QED BY <1>a, <1>e, <2>1 DEF GameInv, NoThread
<1>s. ScoreIsEarned' BY <1>a, <1>e DEF ScoreIsEarned
<1>1. CASE answer' = answer /\ rest_time' = rest_time /\ lit' = lit
  <2>1. ModeTypes' BY <1>a, <1>e, <1>1 DEF ModeTypes
  <2>2. EachIsHitOrExpires' BY <1>a, <1>e, <1>1 DEF EachIsHitOrExpires
  <2>q. QED BY <1>0, <1>s, <2>1, <2>2 DEF ModeIInv
<1>2. ASSUME NEW no \in Buttons, NEW rest \in 1 .. MaxRest,
             rest_time' = [rest_time EXCEPT ![no] = rest], answer' = answer \cup {no},
             lit' = IF no \in answer THEN lit ELSE lit + 1
      PROVE  ModeIInv'
  <2>1. PICK l \in Nat : l = Cardinality(answer) BY <1>a, ButtonsAreCounted DEF ModeTypes
  <2>2. hit \in Nat /\ expired \in Nat /\ lit \in Nat BY <1>a DEF ModeTypes
  <2>3. rest \in Int /\ rest \in 0 .. MaxRest BY ModeExtraAssumption
  <2>4. \A b \in Buttons : rest_time'[b] = IF b = no THEN rest ELSE rest_time[b]
    BY <1>a, <1>2 DEF ModeTypes
  <2>5. rest_time' \in [Buttons -> Int] BY <1>a, <1>2, <2>3 DEF ModeTypes
  <2>6. answer' \in SUBSET Buttons BY <1>a, <1>2 DEF ModeTypes
  <2>7. \A b \in answer' : rest_time'[b] \in 0 .. MaxRest BY <1>a, <1>2, <2>3, <2>4, <2>6
                                                          DEF ModeTypes
  <2>8. ModeTypes' BY <1>a, <1>e, <1>2, <2>2, <2>5, <2>6, <2>7 DEF ModeTypes
  <2>9. EachIsHitOrExpires'
    <3>1. CASE no \in answer
      <4>1. answer' = answer /\ lit' = lit BY <1>2, <3>1
      <4>q. QED BY <1>a, <1>e, <4>1 DEF EachIsHitOrExpires
    <3>2. CASE no \notin answer
      <4>1. Cardinality(answer') = l + 1 BY <1>a, <1>2, <2>1, <3>2, ButtonsAreCounted
                                         DEF ModeTypes
      <4>q. QED BY <1>a, <1>e, <1>2, <2>1, <2>2, <3>2, <4>1 DEF EachIsHitOrExpires
    <3>q. QED BY <3>1, <3>2
  <2>q. QED BY <1>0, <1>s, <2>8, <2>9 DEF ModeIInv
<1>q. QED BY <1>1, <1>2 DEF Light

\* ModeExtraInv is an invariant of mode_extra.c, for any buttons and times: a lit button is
\* put out once, the score is earned, and the state is freed when nobody uses it.
THEOREM GameIsFair == ModeSpec => []ModeExtraInv
<1>1. ModeInit => ModeIInv BY ModeStart
<1>2. ModeIInv /\ [ModeNext]_modeVars => ModeIInv'
  <2>1. SUFFICES ASSUME ModeIInv, [ModeNext]_modeVars PROVE ModeIInv' OBVIOUS
  <2>2. CASE mode_extra_switch BY <2>1, <2>2, SwitchStep
  <2>3. CASE mode_extra_destroy \/ Rest \/ UNCHANGED modeVars BY <2>1, <2>3, DestroyStep
  <2>4. CASE WorkerTest
    <3>e. /\ workerPc = "loop" /\ workerPc' \in {"done", "lock"} /\ mainPc' = mainPc
          /\ modeMutex' = modeMutex /\ answer' = answer /\ rest_time' = rest_time
          /\ score' = score /\ correct' = correct /\ incorrect' = incorrect
          /\ isFree' = isFree /\ lit' = lit /\ hit' = hit /\ expired' = expired
      BY <2>4 DEF WorkerTest
    <3>q. QED BY <2>1, <3>e DEF ModeIInv, ModeTypes, GameInv, EachIsHitOrExpires, ScoreIsEarned
  <2>5. CASE Age BY <2>1, <2>5, AgeStep
  <2>6. CASE Light BY <2>1, <2>6, LightStep
  <2>q. QED BY <2>1, <2>2, <2>3, <2>4, <2>5, <2>6 DEF ModeNext, background_worker_main
<1>3. ModeIInv => ModeExtraInv
  BY DEF ModeIInv, ModeTypes, GameInv, ModeExtraInv, ModeTypeOK, FreedUnused
<1>q. QED BY <1>1, <1>2, <1>3, PTL DEF ModeSpec
-----------------------------------------------------------------------------
(***************************************************************************)
(* dns-discovery.c.  A thread copies the list, or writes about a name, if  *)
(* and only if it has the mutex.  The copy of the holder is the list up to *)
(* the position of the FILE, and the last line of the output is that of    *)
(* the thread that writes.  What has been written about each name follows  *)
(* from the line a thread has come to.                                     *)
(***************************************************************************)
WordsTypes ==
  /\ addresses \in [1 .. Words -> 0 .. MaxAddresses] /\ position \in 0 .. Words
  /\ local_wordlist \in [WordsThreads -> Seq(1 .. Words)]
  /\ wordPc \in [WordsThreads -> {"start", "copy", "lookup", "write", "done"}]
  /\ line \in [WordsThreads -> 1 .. Words + 1] /\ ai \in [WordsThreads -> 0 .. MaxAddresses]
  /\ mutexsum \in WordsThreads \cup {0}
  /\ output \in Seq(WordsThreads \X (1 .. Words) \X (0 .. MaxAddresses))

UpTo(p) == [w \in 1 .. p |-> w]

\* The thread that has the mutex copies or writes, and no other does.
HolderInv == \A t \in WordsThreads : wordPc[t] \in {"copy", "write"} <=> mutexsum = t

\* What is in the copy of t.
CopyInv(t) ==
  /\ wordPc[t] = "start" => local_wordlist[t] = <<>>
  /\ wordPc[t] = "copy" => local_wordlist[t] = UpTo(position)
  /\ wordPc[t] \notin {"start", "copy"} => local_wordlist[t] = UpTo(Words)

\* Where t is in its copy, and in the addresses of the name it writes about.
LineInv(t) ==
  /\ wordPc[t] \in {"start", "copy"} => line[t] = 1
  /\ wordPc[t] = "write" =>
       /\ line[t] <= Words /\ ai[t] <= addresses[line[t]] /\ 0 < addresses[line[t]]
       /\ output # <<>> /\ output[Len(output)] = <<t, line[t], ai[t]>>
  /\ wordPc[t] = "done" => line[t] = Words + 1

\* When nobody writes, the last block is complete.
LastInv ==
  (\A t \in WordsThreads : wordPc[t] # "write") /\ output # <<>> =>
    output[Len(output)][3] = addresses[output[Len(output)][2]]

BlockInv ==
  \A k \in 1 .. Len(output) - 1 :
    output[k][3] < addresses[output[k][2]] =>
      output[k + 1] = <<output[k][1], output[k][2], output[k][3] + 1>>

\* Thread t has written line a about word w.
IsWritten(t, w, a) ==
  /\ 0 < addresses[w] /\ a <= addresses[w]
  /\ \/ w < line[t]
     \/ wordPc[t] = "write" /\ w = line[t] /\ a <= ai[t]

WrittenInv ==
  \A t \in WordsThreads, w \in 1 .. Words, a \in 0 .. MaxAddresses :
    IsWritten(t, w, a) <=> \E k \in 1 .. Len(output) : output[k] = <<t, w, a>>

OnceInv == \A j, k \in 1 .. Len(output) : output[j] = output[k] => j = k

WordsIInv ==
  /\ WordsTypes /\ HolderInv /\ LastInv /\ BlockInv /\ WrittenInv /\ OnceInv
  /\ \A t \in WordsThreads : CopyInv(t) /\ LineInv(t)

\* The words up to one.
LEMMA UpToIs ==
  ASSUME NEW p \in Nat
  PROVE  /\ UpTo(p) \in Seq(Nat) /\ Len(UpTo(p)) = p /\ \A w \in 1 .. p : UpTo(p)[w] = w
         /\ Append(UpTo(p), p + 1) = UpTo(p + 1) /\ UpTo(0) = <<>>
<1>1. UpTo(p) \in Seq(Nat) /\ Len(UpTo(p)) = p /\ \A w \in 1 .. p : UpTo(p)[w] = w BY DEF UpTo
<1>2. UpTo(p + 1) \in Seq(Nat) /\ Len(UpTo(p + 1)) = p + 1
      /\ \A w \in 1 .. p + 1 : UpTo(p + 1)[w] = w BY DEF UpTo
<1>3. Append(UpTo(p), p + 1) = UpTo(p + 1) BY <1>1, <1>2
<1>4. UpTo(0) = <<>> BY DEF UpTo
<1>q. QED BY <1>1, <1>3, <1>4

\* The word a thread has come to has the number of its line.
LEMMA WordIsItsLine ==
  ASSUME WordsIInv, NEW t \in WordsThreads, wordPc[t] \in {"lookup", "write"}
  PROVE  /\ Words \in Nat /\ Len(local_wordlist[t]) = Words /\ line[t] \in 1 .. Words + 1
         /\ line[t] <= Words => /\ Word(t) = line[t] /\ line[t] \in 1 .. Words
                                /\ addresses[line[t]] \in 0 .. MaxAddresses
<1>1. Words \in Nat /\ MaxAddresses \in Nat BY WordListsAssumption
<1>2. local_wordlist[t] = UpTo(Words) BY DEF WordsIInv, CopyInv
<1>3. line[t] \in 1 .. Words + 1 BY DEF WordsIInv, WordsTypes
<1>6. Len(UpTo(Words)) = Words /\ \A w \in 1 .. Words : UpTo(Words)[w] = w BY <1>1, UpToIs
<1>7. line[t] <= Words => line[t] \in 1 .. Words BY <1>1, <1>3
<1>4. line[t] <= Words => line[t] \in 1 .. Words /\ Word(t) = line[t]
  BY <1>2, <1>6, <1>7 DEF Word
<1>5. line[t] \in 1 .. Words => addresses[line[t]] \in 0 .. MaxAddresses
  BY DEF WordsIInv, WordsTypes
<1>q. QED BY <1>1, <1>2, <1>3, <1>4, <1>5, <1>6

\* The start of dns-discovery.c.
LEMMA WordsStart == WordsInit => WordsIInv
<1> SUFFICES ASSUME WordsInit PROVE WordsIInv OBVIOUS
<1>1. Words \in Nat /\ MaxAddresses \in Nat /\ nthreads \in Nat BY WordListsAssumption
<1>2. WordsTypes BY <1>1 DEF WordsInit, WordsTypes
<1>3. HolderInv BY <1>1 DEF WordsInit, HolderInv, WordsThreads
<1>4. \A t \in WordsThreads : CopyInv(t) /\ LineInv(t) BY DEF WordsInit, CopyInv, LineInv
<1>5. output = <<>> /\ Len(output) = 0 BY DEF WordsInit
<1>6. LastInv BY <1>5 DEF LastInv
<1>7. BlockInv /\ OnceInv BY <1>5 DEF BlockInv, OnceInv
<1>8. WrittenInv BY <1>5 DEF WrittenInv, IsWritten, WordsInit
<1>q. QED BY <1>2, <1>3, <1>4, <1>6, <1>7, <1>8 DEF WordsIInv

\* A step that writes nothing keeps the output as it is described, if what is said of the
\* lines of its thread does not change.
LEMMA SilentStep ==
  ASSUME WordsIInv, UNCHANGED <<addresses, output, ai>>, NEW t \in WordsThreads,
         wordPc' = [wordPc EXCEPT ![t] = wordPc'[t]], line' = [line EXCEPT ![t] = line'[t]],
         \A w \in 1 .. Words, a \in 0 .. MaxAddresses : IsWritten(t, w, a)' <=> IsWritten(t, w, a)
  PROVE  BlockInv' /\ OnceInv' /\ WrittenInv'
<1>1. BlockInv' /\ OnceInv' BY DEF WordsIInv, BlockInv, OnceInv
<1>2. SUFFICES ASSUME NEW u \in WordsThreads, NEW w \in 1 .. Words, NEW a \in 0 .. MaxAddresses
               PROVE  IsWritten(u, w, a)' <=> IsWritten(u, w, a)
  BY <1>1 DEF WordsIInv, WrittenInv
<1>3. CASE u = t BY <1>3
<1>4. CASE u # t
  <2>1. wordPc'[u] = wordPc[u] /\ line'[u] = line[u] BY <1>4 DEF WordsIInv, WordsTypes
  <2>q. QED BY <2>1 DEF IsWritten
<1>q. QED BY <1>3, <1>4

\* What a step that writes nothing and moves thread t has to keep.
LEMMA QuietStep ==
  ASSUME WordsIInv, NEW t \in WordsThreads, UNCHANGED <<addresses, output, ai>>,
         wordPc' = [wordPc EXCEPT ![t] = wordPc'[t]], line' = [line EXCEPT ![t] = line'[t]],
         position' \in 0 .. Words,
         \A u \in WordsThreads \ {t} : wordPc[u] = "copy" => position' = position,
         local_wordlist' \in [WordsThreads -> Seq(1 .. Words)],
         \A u \in WordsThreads \ {t} : local_wordlist'[u] = local_wordlist[u],
         wordPc'[t] \in {"copy", "lookup", "write", "done"}, line'[t] \in 1 .. Words + 1,
         mutexsum' \in WordsThreads \cup {0},
         \A u \in WordsThreads \ {t} : mutexsum' = u <=> mutexsum = u,
         wordPc'[t] \in {"copy", "write"} <=> mutexsum' = t,
         CopyInv(t)', LineInv(t)', LastInv',
         \A w \in 1 .. Words, a \in 0 .. MaxAddresses : IsWritten(t, w, a)' <=> IsWritten(t, w, a)
  PROVE  WordsIInv'
<1>1. WordsTypes BY DEF WordsIInv
<1>2. WordsTypes' BY ZenonT(60), <1>1 DEF WordsTypes
<1>3. \A u \in WordsThreads \ {t} : wordPc'[u] = wordPc[u] /\ line'[u] = line[u]
  BY <1>1 DEF WordsTypes
<1>4. HolderInv' BY <1>3 DEF WordsIInv, HolderInv
<1>5. BlockInv' /\ OnceInv' /\ WrittenInv' BY SilentStep
<1>6. ASSUME NEW u \in WordsThreads PROVE CopyInv(u)' /\ LineInv(u)'
  <2>1. CASE u = t BY <2>1
  <2>2. CASE u # t
    <3>1. CopyInv(u) /\ LineInv(u) BY DEF WordsIInv
    <3>2. CopyInv(u)' BY <1>3, <2>2, <3>1 DEF CopyInv
    <3>3. LineInv(u)' BY <1>3, <2>2, <3>1 DEF LineInv
    <3>q. QED BY <3>2, <3>3
  <2>q. QED BY <2>1, <2>2
<1>q. QED BY <1>2, <1>4, <1>5, <1>6 DEF WordsIInv

\* A thread goes back to the first word of the file.
LEMMA RewindKeeps ==
  ASSUME WordsIInv, NEW t \in WordsThreads, Rewind(t)
  PROVE  WordsIInv'
<1>a. WordsTypes /\ HolderInv /\ LastInv /\ CopyInv(t) /\ LineInv(t) BY DEF WordsIInv
<1>n. Words \in Nat BY WordListsAssumption
<1>e. /\ wordPc[t] = "start" /\ mutexsum = 0 /\ mutexsum' = t /\ position' = 0
      /\ wordPc' = [wordPc EXCEPT ![t] = "copy"]
      /\ UNCHANGED <<addresses, local_wordlist, line, ai, output>>
  BY DEF Rewind, WordsTakes, WordsGo
<1>p. wordPc'[t] = "copy" /\ \A u \in WordsThreads : u # t => wordPc'[u] = wordPc[u]
  BY <1>a, <1>e DEF WordsTypes
<1>0. 0 \notin WordsThreads BY DEF WordsThreads
<1>1. \A u \in WordsThreads \ {t} : wordPc[u] = "copy" => position' = position
  BY <1>0, <1>a, <1>e DEF HolderInv
<1>2. CopyInv(t)' BY <1>a, <1>e, <1>p, UpToIs DEF CopyInv
<1>3. LineInv(t)' BY <1>a, <1>e, <1>p DEF LineInv
<1>4. LastInv' BY <1>a, <1>e, <1>p DEF LastInv
<1>5. \A w \in 1 .. Words, a \in 0 .. MaxAddresses : IsWritten(t, w, a)' <=> IsWritten(t, w, a)
  BY <1>e, <1>p DEF IsWritten
<1>6. line[t] \in 1 .. Words + 1 /\ local_wordlist \in [WordsThreads -> Seq(1 .. Words)]
      /\ wordPc' = [wordPc EXCEPT ![t] = wordPc'[t]] /\ line' = [line EXCEPT ![t] = line'[t]]
      /\ position' \in 0 .. Words
  BY <1>a, <1>e, <1>n, <1>p DEF WordsTypes
<1>7. \A u \in WordsThreads \ {t} : mutexsum' = u <=> mutexsum = u BY <1>0, <1>e
<1>q. QED BY <1>1, <1>2, <1>3, <1>4, <1>5, <1>6, <1>7, <1>e, <1>p, QuietStep

\* A thread copies the next word.
LEMMA CopyWordKeeps ==
  ASSUME WordsIInv, NEW t \in WordsThreads, CopyWord(t)
  PROVE  WordsIInv'
<1>a. WordsTypes /\ HolderInv /\ LastInv /\ CopyInv(t) /\ LineInv(t) BY DEF WordsIInv
<1>n. Words \in Nat BY WordListsAssumption
<1>e. /\ wordPc[t] = "copy" /\ position < Words /\ position' = position + 1
      /\ local_wordlist' = [local_wordlist EXCEPT ![t] = Append(local_wordlist[t], position')]
      /\ UNCHANGED <<addresses, wordPc, line, ai, mutexsum, output>>
  BY DEF CopyWord
<1>0. position \in Nat /\ position' \in 1 .. Words BY <1>a, <1>e, <1>n DEF WordsTypes
<1>1. \A u \in WordsThreads \ {t} : wordPc[u] = "copy" => position' = position
  BY <1>a, <1>e DEF HolderInv
<1>2. CopyInv(t)'
  <2>1. local_wordlist'[t] = Append(UpTo(position), position + 1)
    BY <1>a, <1>e DEF CopyInv, WordsTypes
  <2>2. local_wordlist'[t] = UpTo(position') BY <1>0, <1>e, <2>1, UpToIs
  <2>q. QED BY <1>e, <2>2 DEF CopyInv
<1>3. LineInv(t)' BY <1>a, <1>e DEF LineInv
<1>4. LastInv' BY <1>a, <1>e DEF LastInv
<1>5. \A w \in 1 .. Words, a \in 0 .. MaxAddresses : IsWritten(t, w, a)' <=> IsWritten(t, w, a)
  BY <1>e DEF IsWritten
<1>6. line[t] \in 1 .. Words + 1 /\ mutexsum \in WordsThreads \cup {0}
      /\ wordPc' = [wordPc EXCEPT ![t] = wordPc'[t]] /\ line' = [line EXCEPT ![t] = line'[t]]
      /\ (wordPc'[t] \in {"copy", "write"} <=> mutexsum' = t)
  BY <1>a, <1>e DEF WordsTypes, HolderInv
<1>7. local_wordlist' \in [WordsThreads -> Seq(1 .. Words)]
  <2>1. local_wordlist[t] \in Seq(1 .. Words) BY <1>a DEF WordsTypes
  <2>2. Append(local_wordlist[t], position') \in Seq(1 .. Words) BY <1>0, <2>1
  <2>q. QED BY <1>a, <1>e, <2>2 DEF WordsTypes
<1>8. \A u \in WordsThreads \ {t} : local_wordlist'[u] = local_wordlist[u]
  BY <1>a, <1>e DEF WordsTypes
<1>9. position' \in 0 .. Words BY <1>0
<1>q. QED BY <1>1, <1>2, <1>3, <1>4, <1>5, <1>6, <1>7, <1>8, <1>9, <1>e, QuietStep

\* A thread has copied all words.
LEMMA CopiedKeeps ==
  ASSUME WordsIInv, NEW t \in WordsThreads, Copied(t)
  PROVE  WordsIInv'
<1>a. WordsTypes /\ HolderInv /\ LastInv /\ CopyInv(t) /\ LineInv(t) BY DEF WordsIInv
<1>n. Words \in Nat BY WordListsAssumption
<1>e. /\ wordPc[t] = "copy" /\ position = Words /\ mutexsum' = 0
      /\ wordPc' = [wordPc EXCEPT ![t] = "lookup"]
      /\ UNCHANGED <<addresses, position, local_wordlist, line, ai, output>>
  BY DEF Copied, WordsGo
<1>p. wordPc'[t] = "lookup" /\ \A u \in WordsThreads : u # t => wordPc'[u] = wordPc[u]
  BY <1>a, <1>e DEF WordsTypes
<1>0. 0 \notin WordsThreads /\ mutexsum = t BY <1>a, <1>e DEF WordsThreads, HolderInv
<1>2. CopyInv(t)' BY <1>a, <1>e, <1>p DEF CopyInv
<1>3. LineInv(t)' BY <1>p DEF LineInv
<1>4. LastInv' BY <1>a, <1>e, <1>p DEF LastInv
<1>5. \A w \in 1 .. Words, a \in 0 .. MaxAddresses : IsWritten(t, w, a)' <=> IsWritten(t, w, a)
  BY <1>e, <1>p DEF IsWritten
<1>6. line[t] \in 1 .. Words + 1 /\ local_wordlist \in [WordsThreads -> Seq(1 .. Words)]
      /\ wordPc' = [wordPc EXCEPT ![t] = wordPc'[t]] /\ line' = [line EXCEPT ![t] = line'[t]]
      /\ position' \in 0 .. Words
  BY <1>a, <1>e, <1>n, <1>p DEF WordsTypes
<1>7. \A u \in WordsThreads \ {t} : mutexsum' = u <=> mutexsum = u BY <1>0, <1>e
<1>q. QED BY <1>0, <1>2, <1>3, <1>4, <1>5, <1>6, <1>7, <1>e, <1>p, QuietStep

\* A name that was not found has no lines.
LEMMA NotFoundKeeps ==
  ASSUME WordsIInv, NEW t \in WordsThreads, NotFound(t)
  PROVE  WordsIInv'
<1>a. WordsTypes /\ HolderInv /\ LastInv /\ CopyInv(t) /\ LineInv(t) BY DEF WordsIInv
<1>n. Words \in Nat BY WordListsAssumption
<1>e. /\ wordPc[t] = "lookup" /\ line[t] <= Len(local_wordlist[t]) /\ addresses[Word(t)] = 0
      /\ line' = [line EXCEPT ![t] = line[t] + 1]
      /\ UNCHANGED <<addresses, position, local_wordlist, wordPc, ai, mutexsum, output>>
  BY DEF NotFound
<1>0. line[t] \in 1 .. Words /\ addresses[line[t]] = 0 /\ line'[t] = line[t] + 1
  <2>1. line[t] <= Words /\ line[t] \in 1 .. Words /\ Word(t) = line[t]
    BY <1>e, WordIsItsLine
  <2>q. QED BY <1>a, <1>e, <2>1 DEF WordsTypes
<1>2. CopyInv(t)' BY <1>a, <1>e DEF CopyInv
<1>3. LineInv(t)' BY <1>e DEF LineInv
<1>4. LastInv' BY <1>a, <1>e DEF LastInv
<1>5. \A w \in 1 .. Words, a \in 0 .. MaxAddresses : IsWritten(t, w, a)' <=> IsWritten(t, w, a)
  <2>1. ASSUME NEW w \in 1 .. Words PROVE addresses[w] > 0 => (w < line[t] + 1 <=> w < line[t])
    BY <1>0
  <2>q. QED BY <1>0, <1>e, <2>1 DEF IsWritten
<1>6. wordPc' = [wordPc EXCEPT ![t] = wordPc'[t]] /\ line' = [line EXCEPT ![t] = line'[t]]
  BY <1>0, <1>a, <1>e DEF WordsTypes
<1>7. /\ line'[t] \in 1 .. Words + 1 /\ local_wordlist \in [WordsThreads -> Seq(1 .. Words)]
      /\ position' \in 0 .. Words /\ mutexsum \in WordsThreads \cup {0}
  BY SMTT(30), <1>0, <1>a, <1>e, <1>n DEF WordsTypes
<1>8. wordPc'[t] \in {"copy", "write"} <=> mutexsum' = t BY <1>a, <1>e DEF HolderInv
<1>q. QED BY <1>7, <1>8, <1>2, <1>3, <1>4, <1>5, <1>6, <1>e, QuietStep

\* The block of the name is complete.
LEMMA WrittenKeeps ==
  ASSUME WordsIInv, NEW t \in WordsThreads, Written(t)
  PROVE  WordsIInv'
<1>a. WordsTypes /\ HolderInv /\ LastInv /\ CopyInv(t) /\ LineInv(t) BY DEF WordsIInv
<1>n. Words \in Nat BY WordListsAssumption
<1>e. /\ wordPc[t] = "write" /\ ai[t] = addresses[Word(t)] /\ mutexsum' = 0
      /\ wordPc' = [wordPc EXCEPT ![t] = "lookup"] /\ line' = [line EXCEPT ![t] = line[t] + 1]
      /\ UNCHANGED <<addresses, position, local_wordlist, ai, output>>
  BY DEF Written, WordsGo
<1>p. wordPc'[t] = "lookup" /\ \A u \in WordsThreads : u # t => wordPc'[u] = wordPc[u]
  BY <1>a, <1>e DEF WordsTypes
<1>0. /\ line[t] \in 1 .. Words /\ ai[t] = addresses[line[t]] /\ line'[t] = line[t] + 1
      /\ 0 < addresses[line[t]] /\ addresses[line[t]] \in Int
  <2>1. line[t] <= Words BY <1>a, <1>e DEF LineInv
  <2>2. line[t] \in 1 .. Words /\ Word(t) = line[t] /\ addresses[line[t]] \in 0 .. MaxAddresses
    BY <1>e, <2>1, WordIsItsLine
  <2>q. QED BY <1>a, <1>e, <2>1, <2>2 DEF WordsTypes, LineInv
<1>h. 0 \notin WordsThreads /\ mutexsum = t BY <1>a, <1>e DEF WordsThreads, HolderInv
<1>2. CopyInv(t)' BY <1>a, <1>e, <1>p DEF CopyInv
<1>3. LineInv(t)' BY <1>p DEF LineInv
<1>4. LastInv'
  <2>1. output[Len(output)] = <<t, line[t], ai[t]>> BY <1>a, <1>e DEF LineInv
  <2>2. output[Len(output)][2] = line[t] /\ output[Len(output)][3] = addresses[line[t]]
    BY <1>0, <2>1
  <2>q. QED BY <1>e, <2>2 DEF LastInv
<1>5. ASSUME NEW w \in 1 .. Words, NEW a \in 0 .. MaxAddresses
      PROVE  IsWritten(t, w, a)' <=> IsWritten(t, w, a)
  <2>1. CASE w = line[t]
    <3>1. w < line'[t] /\ (a <= addresses[w] => a <= ai[t]) BY <1>0, <2>1
    <3>q. QED BY <1>e, <2>1, <3>1 DEF IsWritten
  <2>2. CASE w # line[t]
    <3>1. w < line[t] + 1 <=> w < line[t] BY <1>0, <2>2
    <3>q. QED BY <1>0, <1>e, <1>p, <2>2, <3>1 DEF IsWritten
  <2>q. QED BY <2>1, <2>2
<1>6. line'[t] \in 1 .. Words + 1 /\ local_wordlist \in [WordsThreads -> Seq(1 .. Words)]
      /\ wordPc' = [wordPc EXCEPT ![t] = wordPc'[t]] /\ line' = [line EXCEPT ![t] = line'[t]]
      /\ position' \in 0 .. Words
  BY <1>0, <1>a, <1>e, <1>n, <1>p DEF WordsTypes
<1>7. \A u \in WordsThreads \ {t} : mutexsum' = u <=> mutexsum = u BY <1>e, <1>h
<1>q. QED BY <1>2, <1>3, <1>4, <1>5, <1>6, <1>7, <1>e, <1>h, <1>p, QuietStep

\* A thread has looked up its last word.
LEMMA LastWordKeeps ==
  ASSUME WordsIInv, NEW t \in WordsThreads, LastWord(t)
  PROVE  WordsIInv'
<1>a. WordsTypes /\ HolderInv /\ LastInv /\ CopyInv(t) /\ LineInv(t) BY DEF WordsIInv
<1>n. Words \in Nat BY WordListsAssumption
<1>e. /\ wordPc[t] = "lookup" /\ line[t] > Len(local_wordlist[t])
      /\ wordPc' = [wordPc EXCEPT ![t] = "done"]
      /\ UNCHANGED <<addresses, position, local_wordlist, line, ai, mutexsum, output>>
  BY DEF LastWord, WordsGo
<1>p. wordPc'[t] = "done" /\ \A u \in WordsThreads : u # t => wordPc'[u] = wordPc[u]
  BY <1>a, <1>e DEF WordsTypes
<1>0. line[t] = Words + 1
  <2>1. Len(local_wordlist[t]) = Words /\ line[t] \in 1 .. Words + 1 BY <1>e, WordIsItsLine
  <2>q. QED BY <1>e, <1>n, <2>1
<1>2. CopyInv(t)' BY <1>a, <1>e, <1>p DEF CopyInv
<1>3. LineInv(t)' BY <1>0, <1>e, <1>p DEF LineInv
<1>4. LastInv' BY <1>a, <1>e, <1>p DEF LastInv
<1>5. \A w \in 1 .. Words, a \in 0 .. MaxAddresses : IsWritten(t, w, a)' <=> IsWritten(t, w, a)
  BY <1>e, <1>p DEF IsWritten
<1>6. line[t] \in 1 .. Words + 1 /\ local_wordlist \in [WordsThreads -> Seq(1 .. Words)]
      /\ wordPc' = [wordPc EXCEPT ![t] = wordPc'[t]] /\ line' = [line EXCEPT ![t] = line'[t]]
      /\ position' \in 0 .. Words /\ mutexsum \in WordsThreads \cup {0}
      /\ (wordPc'[t] \in {"copy", "write"} <=> mutexsum' = t)
  BY <1>0, <1>a, <1>e, <1>n, <1>p DEF WordsTypes, HolderInv
<1>q. QED BY <1>2, <1>3, <1>4, <1>5, <1>6, <1>e, <1>p, QuietStep

\* A sequence with a length has an element.
LEMMA NotEmpty ==
  ASSUME NEW T, NEW s \in Seq(T), Len(s) # 0
  PROVE  s # <<>>
OBVIOUS

\* The next line of a block, or the first of a new one.
LEMMA WriteStep ==
  ASSUME WordsIInv, NEW t \in WordsThreads, NEW w \in 1 .. Words, NEW a \in 0 .. MaxAddresses,
         w = line[t], 0 < addresses[w], a <= addresses[w], output' = Append(output, <<t, w, a>>),
         wordPc[t] \in {"lookup", "write"}, mutexsum \in {0, t}, mutexsum' = t,
         wordPc[t] = "write" => ai[t] = a - 1, wordPc[t] = "lookup" => a = 0 /\ mutexsum = 0,
         wordPc' = [wordPc EXCEPT ![t] = "write"], ai' = [ai EXCEPT ![t] = a],
         UNCHANGED <<addresses, position, local_wordlist, line>>
  PROVE  WordsIInv'
<1>a. /\ WordsTypes /\ HolderInv /\ LastInv /\ BlockInv /\ WrittenInv /\ OnceInv
      /\ CopyInv(t) /\ LineInv(t) /\ \A u \in WordsThreads : CopyInv(u) /\ LineInv(u)
  BY DEF WordsIInv
<1>n. Words \in Nat /\ MaxAddresses \in Nat /\ nthreads \in Nat BY WordListsAssumption
<1>p. /\ wordPc'[t] = "write" /\ \A u \in WordsThreads : u # t => wordPc'[u] = wordPc[u]
      /\ ai'[t] = a /\ \A u \in WordsThreads : u # t => ai'[u] = ai[u]
  BY <1>a DEF WordsTypes
<1>o. \A u \in WordsThreads : u # t => wordPc[u] \notin {"copy", "write"}
  BY <1>a DEF HolderInv, WordsThreads
<1>t. /\ <<t, w, a>> \in WordsThreads \X (1 .. Words) \X (0 .. MaxAddresses)
      /\ output \in Seq(WordsThreads \X (1 .. Words) \X (0 .. MaxAddresses))
  BY <1>a DEF WordsTypes
<1>l. PICK len \in Nat : len = Len(output) BY <1>t
<1>s. /\ Len(output') = len + 1 /\ output'[len + 1] = <<t, w, a>>
      /\ \A k \in 1 .. len : output'[k] = output[k]
      /\ output' \in Seq(WordsThreads \X (1 .. Words) \X (0 .. MaxAddresses))
  BY <1>l, <1>t
<1>w. WrittenInv BY <1>a
<1>1. WordsTypes' BY <1>a, <1>s DEF WordsTypes
<1>2. HolderInv' BY <1>o, <1>p DEF HolderInv
<1>3. ASSUME NEW u \in WordsThreads PROVE CopyInv(u)' /\ LineInv(u)'
  <2>1. CASE u = t
    <3>1. CopyInv(t)' BY <1>a, <1>p DEF CopyInv
    <3>2. output' # <<>> /\ Len(output') = len + 1
      <4>1. len + 1 # 0 OBVIOUS
      <4>2. Len(output') = len + 1 BY <1>s
      <4>3. output' \in Seq(WordsThreads \X (1 .. Words) \X (0 .. MaxAddresses)) BY <1>s
      <4>q. QED BY <4>1, <4>2, <4>3, NotEmpty
    <3>3. /\ line'[t] = w /\ w <= Words /\ ai'[t] = a
          /\ a <= addresses'[w] /\ 0 < addresses'[w]
      BY <1>p
    <3>4. output'[Len(output')] = <<t, w, a>> BY <1>s
    <3>5. LineInv(t)' BY <1>p, <3>2, <3>3, <3>4, Zenon DEF LineInv
    <3>q. QED BY <2>1, <3>1, <3>5
  <2>2. CASE u # t
    <3>1. CopyInv(u) /\ LineInv(u) /\ wordPc'[u] = wordPc[u] /\ wordPc[u] # "write"
      BY <1>a, <1>o, <1>p, <2>2
    <3>2. CopyInv(u)' BY <3>1 DEF CopyInv
    <3>3. LineInv(u)' BY <3>1 DEF LineInv
    <3>q. QED BY <3>2, <3>3
  <2>q. QED BY <2>1, <2>2
<1>4. LastInv' BY <1>p DEF LastInv
<1>5. BlockInv'
  <2>0. Len(output') - 1 = len BY <1>l, <1>s
  <2>1. SUFFICES ASSUME NEW k \in 1 .. len, output[k][3] < addresses[output[k][2]]
                 PROVE  output'[k + 1] = <<output[k][1], output[k][2], output[k][3] + 1>>
    BY <1>s, <2>0 DEF BlockInv
  <2>2. CASE k < len
    <3>1. k \in 1 .. Len(output) - 1 /\ k + 1 \in 1 .. len BY <1>l, <2>2
    <3>2. output[k + 1] = <<output[k][1], output[k][2], output[k][3] + 1>>
      BY <1>a, <2>1, <3>1 DEF BlockInv
    <3>q. QED BY <1>s, <3>1, <3>2
  <2>3. CASE k = len
    <3>1. output # <<>> BY <1>l, <2>3
    <3>2. CASE wordPc[t] = "lookup"
      <4>1. \A u \in WordsThreads : wordPc[u] # "write" BY <1>o, <3>2
      <4>2. output[len][3] = addresses[output[len][2]] BY <1>a, <1>l, <3>1, <4>1 DEF LastInv
      <4>3. output[len] \in WordsThreads \X (1 .. Words) \X (0 .. MaxAddresses) BY <1>t, <1>l,
                                                                                   <2>3
      <4>q. QED BY <2>1, <2>3, <4>2, <4>3
    <3>3. CASE wordPc[t] = "write"
      <4>1. output[len] = <<t, w, ai[t]>> BY <1>a, <1>l, <3>3 DEF LineInv
      <4>2. output[len][1] = t /\ output[len][2] = w /\ output[len][3] + 1 = a
        BY <1>n, <3>3, <4>1
      <4>q. QED BY <1>s, <2>3, <4>2
    <3>q. QED BY <3>2, <3>3
  <2>q. QED BY <1>l, <2>2, <2>3
<1>6. ~IsWritten(t, w, a)
  <2>1. CASE wordPc[t] = "lookup" BY <2>1 DEF IsWritten
  <2>2. CASE wordPc[t] = "write" BY <2>2 DEF IsWritten
  <2>q. QED BY <2>1, <2>2
<1>7. OnceInv'
  <2>1. \A k \in 1 .. len : output[k] # <<t, w, a>> BY <1>6, <1>a, <1>l DEF WrittenInv
  <2>2. \A j, k \in 1 .. len : output'[j] = output'[k] => j = k BY <1>a, <1>l, <1>s DEF OnceInv
  <2>3. \A k \in 1 .. len + 1 : k \in 1 .. len \/ k = len + 1 BY <1>l
  <2>4. ASSUME NEW j \in 1 .. len + 1, NEW k \in 1 .. len + 1, output'[j] = output'[k]
        PROVE  j = k
    <3>1. CASE j \in 1 .. len /\ k \in 1 .. len BY <2>2, <2>4, <3>1
    <3>2. CASE j \notin 1 .. len \/ k \notin 1 .. len BY <1>s, <2>1, <2>3, <2>4, <3>2
    <3>q. QED BY <3>1, <3>2
  <2>5. Len(output') = len + 1 BY <1>s
  <2>q. QED BY <2>4, <2>5 DEF OnceInv
<1>8. ASSUME NEW u \in WordsThreads, NEW z \in 1 .. Words, NEW b \in 0 .. MaxAddresses
      PROVE  IsWritten(u, z, b)' <=> IsWritten(u, z, b) \/ <<u, z, b>> = <<t, w, a>>
  <2>1. CASE u # t BY <1>p, <2>1 DEF IsWritten
  <2>2. CASE u = t /\ z # w BY <1>p, <2>2 DEF IsWritten
  <2>3. CASE u = t /\ z = w
    <3>d. addresses[w] \in Int /\ a <= addresses[w] BY <1>a, <1>n DEF WordsTypes
    <3>0. addresses[w] \in Int /\ (b <= a => b <= addresses[w]) BY <1>n, <3>d
    <3>1. IsWritten(t, w, b)' <=> b <= a BY <1>p, <3>0 DEF IsWritten
    <3>2. CASE wordPc[t] = "lookup"
      <4>1. ~IsWritten(t, w, b) BY <3>2 DEF IsWritten
      <4>2. b <= a <=> b = a BY <1>n, <3>2
      <4>q. QED BY <2>3, <3>1, <4>1, <4>2
    <3>3. CASE wordPc[t] = "write"
      <4>1. IsWritten(t, w, b) <=> b <= a - 1
        <5>1. addresses[w] \in Int /\ ai[t] = a - 1 BY <1>a, <3>3 DEF WordsTypes
        <5>2. b <= a - 1 => b <= addresses[w] BY <5>1
        <5>q. QED BY <3>3, <5>1, <5>2 DEF IsWritten
      <4>2. b <= a <=> b <= a - 1 \/ b = a OBVIOUS
      <4>q. QED BY <2>3, <3>1, <4>1, <4>2
    <3>q. QED BY <3>2, <3>3
  <2>q. QED BY <2>1, <2>2, <2>3
<1>9. WrittenInv'
  <2>1. SUFFICES ASSUME NEW u \in WordsThreads, NEW z \in 1 .. Words, NEW b \in 0 .. MaxAddresses
                 PROVE  IsWritten(u, z, b)' <=> \E k \in 1 .. len + 1 : output'[k] = <<u, z, b>>
    BY <1>s DEF WrittenInv
  <2>2. IsWritten(u, z, b) <=> \E k \in 1 .. len : output'[k] = <<u, z, b>>
    <3>1. IsWritten(u, z, b) <=> \E k \in 1 .. len : output[k] = <<u, z, b>>
      BY <1>l, <1>w DEF WrittenInv
    <3>2. \A k \in 1 .. len : output'[k] = output[k] BY <1>s
    <3>q. QED BY <3>1, <3>2
  <2>3. \A k \in 1 .. len + 1 : k \in 1 .. len \/ k = len + 1 BY <1>l
  <2>4. len + 1 \in 1 .. len + 1 /\ 1 .. len \subseteq 1 .. len + 1 BY <1>l
  <2>5. (\E k \in 1 .. len + 1 : output'[k] = <<u, z, b>>)
          <=> (\E k \in 1 .. len : output'[k] = <<u, z, b>>) \/ <<t, w, a>> = <<u, z, b>>
    BY <1>s, <2>3, <2>4
  <2>q. QED BY <1>8, <2>2, <2>5
<1>q. QED BY <1>1, <1>2, <1>3, <1>4, <1>5, <1>7, <1>9 DEF WordsIInv

\* A thread has found a name, and writes it when nobody else writes.
LEMMA NameFoundKeeps ==
  ASSUME WordsIInv, NEW t \in WordsThreads, NameFound(t)
  PROVE  WordsIInv'
<1>a. WordsTypes BY DEF WordsIInv
<1>e. /\ wordPc[t] = "lookup" /\ line[t] <= Len(local_wordlist[t]) /\ addresses[Word(t)] > 0
      /\ mutexsum = 0 /\ mutexsum' = t
      /\ wordPc' = [wordPc EXCEPT ![t] = "write"] /\ ai' = [ai EXCEPT ![t] = 0]
      /\ output' = Append(output, <<t, Word(t), 0>>)
      /\ UNCHANGED <<addresses, position, local_wordlist, line>>
  BY DEF NameFound, WordsGo, WordsTakes
<1>1. /\ line[t] \in 1 .. Words /\ Word(t) = line[t] /\ addresses[line[t]] \in 0 .. MaxAddresses
      /\ Words \in Nat
  BY <1>e, WordIsItsLine
<1>2. 0 \in 0 .. MaxAddresses /\ 0 < addresses[line[t]] /\ 0 <= addresses[line[t]]
  BY <1>1, <1>e, WordListsAssumption
<1>3. output' = Append(output, <<t, line[t], 0>>) BY <1>1, <1>e
<1>q. QED BY <1>1, <1>2, <1>3, <1>e, WriteStep

\* A thread writes an address.
LEMMA WriteAddressKeeps ==
  ASSUME WordsIInv, NEW t \in WordsThreads, WriteAddress(t)
  PROVE  WordsIInv'
<1>a. WordsTypes /\ HolderInv /\ LineInv(t) BY DEF WordsIInv
<1>e. /\ wordPc[t] = "write" /\ ai[t] < addresses[Word(t)] /\ ai' = [ai EXCEPT ![t] = ai[t] + 1]
      /\ output' = Append(output, <<t, Word(t), ai'[t]>>)
      /\ UNCHANGED <<addresses, position, local_wordlist, wordPc, line, mutexsum>>
  BY DEF WriteAddress
<1>1. line[t] <= Words BY <1>a, <1>e DEF LineInv
<1>2. /\ line[t] \in 1 .. Words /\ Word(t) = line[t] /\ addresses[line[t]] \in 0 .. MaxAddresses
      /\ Words \in Nat
  BY <1>1, <1>e, WordIsItsLine
<1>3. PICK a : a = ai[t] + 1 OBVIOUS
<1>4. ai[t] \in 0 .. MaxAddresses /\ ai'[t] = a BY <1>3, <1>a, <1>e DEF WordsTypes
<1>5. a \in 0 .. MaxAddresses /\ ai[t] = a - 1 /\ 0 < addresses[line[t]] /\ a <= addresses[line[t]]
  BY <1>2, <1>3, <1>4, <1>e, WordListsAssumption
<1>6. output' = Append(output, <<t, line[t], a>>) /\ ai' = [ai EXCEPT ![t] = a]
  BY <1>2, <1>3, <1>4, <1>e
<1>7. wordPc' = [wordPc EXCEPT ![t] = "write"] BY <1>a, <1>e DEF WordsTypes
<1>8. mutexsum = t BY <1>a, <1>e DEF HolderInv
<1>q. QED BY <1>2, <1>5, <1>6, <1>7, <1>8, <1>e, WriteStep

\* Every step of dns-discovery.c keeps the invariant.
LEMMA WordsStep == WordsIInv /\ [WordsNext]_wordVars => WordsIInv'
<1> SUFFICES ASSUME WordsIInv, [WordsNext]_wordVars PROVE WordsIInv' OBVIOUS
<1>1. ASSUME NEW t \in WordsThreads, dns_discovery_thread(t) PROVE WordsIInv'
  BY <1>1, RewindKeeps, CopyWordKeeps, CopiedKeeps, NotFoundKeeps, NameFoundKeeps,
     WriteAddressKeeps, WrittenKeeps, LastWordKeeps DEF dns_discovery_thread, resolve_lookup
<1>2. CASE UNCHANGED wordVars
  <2>1. WordsTypes' /\ HolderInv' BY <1>2 DEF wordVars, WordsIInv, WordsTypes, HolderInv
  <2>2. LastInv' /\ BlockInv' /\ OnceInv'
    BY <1>2 DEF wordVars, WordsIInv, LastInv, BlockInv, OnceInv
  <2>3. WrittenInv' BY <1>2 DEF wordVars, WordsIInv, WrittenInv, IsWritten
  <2>4. \A t \in WordsThreads : CopyInv(t)' /\ LineInv(t)'
    BY <1>2 DEF wordVars, WordsIInv, CopyInv, LineInv
  <2>q. QED BY <2>1, <2>2, <2>3, <2>4 DEF WordsIInv
<1>q. QED BY <1>1, <1>2 DEF WordsNext, WordsTerminated

\* When all are done each has written about all the names that were found.
LEMMA WordsAreWhole == WordsIInv => WordListsInv
<1> SUFFICES ASSUME WordsIInv PROVE WordListsInv OBVIOUS
<1>a. /\ WordsTypes /\ BlockInv /\ WrittenInv /\ OnceInv
      /\ \A t \in WordsThreads : CopyInv(t) /\ LineInv(t)
  BY DEF WordsIInv
<1>n. Words \in Nat /\ MaxAddresses \in Nat BY WordListsAssumption
<1>1. WordsTypeOK BY <1>a DEF WordsTypes, WordsTypeOK
<1>2. CopiesAreWhole BY <1>a DEF CopyInv, CopiesAreWhole, UpTo
<1>3. ASSUME NEW k \in 1 .. Len(output) - 1
      PROVE  LET l == output[k] IN
               l[3] < addresses[l[2]] => output[k + 1] = <<l[1], l[2], l[3] + 1>>
  BY <1>a DEF BlockInv
<1>4. ASSUME WordsAllDone
      PROVE  /\ Range(output) = {l \in WordsThreads \X (1 .. Words) \X (0 .. MaxAddresses) :
                                   addresses[l[2]] > 0 /\ l[3] <= addresses[l[2]]}
             /\ IsInjective(output)
  <2>1. DOMAIN output = 1 .. Len(output) BY <1>a DEF WordsTypes
  <2>2. IsInjective(output) BY <1>a, <2>1 DEF OnceInv, IsInjective
  <2>3. ASSUME NEW t \in WordsThreads, NEW w \in 1 .. Words, NEW a \in 0 .. MaxAddresses
        PROVE  <<t, w, a>> \in Range(output) <=> addresses[w] > 0 /\ a <= addresses[w]
    <3>1. wordPc[t] = "done" /\ line[t] = Words + 1 BY <1>4, <1>a DEF WordsAllDone, LineInv
    <3>2. w < line[t] BY <1>n, <3>1
    <3>3. <<t, w, a>> \in Range(output) <=> IsWritten(t, w, a)
      BY <1>a, <2>1 DEF Range, WrittenInv
    <3>4. addresses[w] \in Int BY <1>a, <1>n DEF WordsTypes
    <3>q. QED BY <3>2, <3>3, <3>4 DEF IsWritten
  <2>4. Range(output) \subseteq WordsThreads \X (1 .. Words) \X (0 .. MaxAddresses)
    BY <1>a, <2>1 DEF Range, WordsTypes
  <2>5. ASSUME NEW l \in WordsThreads \X (1 .. Words) \X (0 .. MaxAddresses)
        PROVE  l \in Range(output) <=> addresses[l[2]] > 0 /\ l[3] <= addresses[l[2]]
    <3>1. l = <<l[1], l[2], l[3]>> /\ l[1] \in WordsThreads /\ l[2] \in 1 .. Words
          /\ l[3] \in 0 .. MaxAddresses OBVIOUS
    <3>2. <<l[1], l[2], l[3]>> \in Range(output) <=> addresses[l[2]] > 0 /\ l[3] <= addresses[l[2]]
      BY <2>3, <3>1
    <3>q. QED BY <3>1, <3>2
  <2>q. QED BY <2>2, <2>4, <2>5
<1>5. BlocksAreWhole BY <1>3, <1>4 DEF BlocksAreWhole
<1>q. QED BY <1>1, <1>2, <1>5 DEF WordListsInv

\* The threads of dns-discovery.c copy the whole list, and the lines about a name stand
\* together: each block is written once, by each thread, in order.
THEOREM BlocksAreKept == WordsSpec => []WordListsInv
<1>1. WordsIInv /\ [WordsNext]_wordVars => WordsIInv' BY WordsStep
<1>q. QED BY <1>1, WordsStart, WordsAreWhole, PTL DEF WordsSpec
-----------------------------------------------------------------------------
(***************************************************************************)
(* parallel_mutex.c.  A thread between the load and the store of the head  *)
(* has the lock of that bucket, and the node it has made points to the     *)
(* head.  A node that is linked points to one of its own bucket that is,   *)
(* so the linked nodes of a bucket are closed, and every closed set has    *)
(* them.  The positions a thread comes to are those it is for.             *)
(***************************************************************************)
TableTypes ==
  /\ keys \in [Position -> 0 .. MaxKey]
  /\ table \in [0 .. NUM_BUCKETS - 1 -> Position \cup {NULL}]
  /\ next_ \in [Position -> Position \cup {NULL}]
  /\ key_ \in [Position -> Int] /\ val \in [Position -> Int]
  /\ bucketLock \in [0 .. NUM_BUCKETS - 1 -> SUBSET TableThreads]
  /\ tabPc \in [TableThreads -> {"put", "link", "put_done", "get", "done"}]
  /\ key \in [TableThreads -> Nat] /\ lostKeys = [t \in TableThreads |-> 0]

\* The linked nodes of bucket b.
InsertedOf(b) == {j \in Inserted : Bucket(keys[j]) = b}

\* The position t has come to is its own, and so are the lock and the node it links.
PutInv(t) ==
  /\ key[t] % num_threads = t
  /\ tabPc[t] = "link" =>
       /\ key[t] < NUM_KEYS /\ bucketLock[Bucket(keys[key[t]])] = {t}
       /\ next_[key[t]] = table[Bucket(keys[key[t]])]
       /\ key_[key[t]] = keys[key[t]] /\ val[key[t]] = t
  /\ tabPc[t] \in {"get", "done"} =>
       \A u \in TableThreads : tabPc[u] \in {"get", "done"}

\* Who has the lock of bucket b links a node there.
BucketLockInv(b) ==
  \A t \in bucketLock[b] : tabPc[t] = "link" /\ Bucket(keys[key[t]]) = b

\* The linked nodes of bucket b are closed, and every closed set has them.
ChainInv(b) ==
  /\ Closed(b, InsertedOf(b))
  /\ \A S \in SUBSET Position : Closed(b, S) => InsertedOf(b) \subseteq S

NodeInv(j) == key_[j] = keys[j] /\ val[j] = j % num_threads

TableIInv ==
  /\ TableTypes /\ \A t \in TableThreads : PutInv(t)
  /\ \A b \in 0 .. NUM_BUCKETS - 1 : BucketLockInv(b) /\ ChainInv(b)
  /\ \A j \in Inserted : NodeInv(j)

\* A number with that quotient and that remainder.
LEMMA RemainderOf ==
  ASSUME NEW d \in Nat \ {0}, NEW q \in Nat, NEW r \in 0 .. d - 1
  PROVE  (q * d + r) % d = r
<1>1. q * d = d * q OBVIOUS
<1>2. (d * q + r) % d = r BY SMTT(60)
<1>q. QED BY <1>1, <1>2

\* Of the numbers with one remainder, d lies between two that follow each other.
LEMMA NextOfThread ==
  ASSUME NEW d \in Nat \ {0}, NEW a \in Nat, NEW b \in Nat, a % d = b % d
  PROVE  (a + d) % d = a % d /\ (b < a + d <=> b < a \/ b = a)
<1>1. PICK q \in Nat, r \in 0 .. d - 1 : a = q * d + r /\ r = a % d BY RemainderIs
<1>2. PICK p \in Nat : b = p * d + r BY <1>1, RemainderIs
<1>3. PICK z \in Nat : z = q * d BY SMTT(60)
<1>4. PICK h \in Nat : h = p * d BY SMTT(60)
<1>5. (q + 1) * d = z + d
  <2>1. (q + 1) * d = q * d + d BY SMTT(60)
  <2>q. QED BY <1>3, <2>1
<1>6. (a + d) % d = r
  <2>1. a + d = (q + 1) * d + r
    <3>1. a = z + r BY <1>1, <1>3
    <3>q. QED BY <1>5, <3>1
  <2>2. q + 1 \in Nat OBVIOUS
  <2>3. ((q + 1) * d + r) % d = r BY <2>2, RemainderOf
  <2>q. QED BY <2>1, <2>3
<1>7. p <= q => h <= z
  <2>1. p <= q => p * d <= q * d BY SMTT(60)
  <2>q. QED BY <1>3, <1>4, <2>1
<1>8. p > q => h >= z + d
  <2>1. p >= q + 1 => p * d >= (q + 1) * d BY SMTT(60)
  <2>2. p > q => p >= q + 1 OBVIOUS
  <2>q. QED BY <1>4, <1>5, <2>1, <2>2
<1>9. p = q => h = z BY <1>3, <1>4
<1>10. p < q => h + d <= z
  <2>1. p + 1 <= q => (p + 1) * d <= q * d BY SMTT(60)
  <2>2. (p + 1) * d = p * d + d BY SMTT(60)
  <2>3. p < q => p + 1 <= q OBVIOUS
  <2>q. QED BY <1>3, <1>4, <2>1, <2>2, <2>3
<1>11. a = z + r /\ b = h + r BY <1>1, <1>2, <1>3, <1>4
<1>12. b < a + d <=> b < a \/ b = a BY <1>7, <1>8, <1>9, <1>10, <1>11
<1>q. QED BY <1>1, <1>6, <1>12

\* What the constants are, and which threads and buckets positions belong to.
LEMMA TableConstants ==
  /\ num_threads \in Nat \ {0} /\ NUM_BUCKETS \in Nat \ {0} /\ NUM_KEYS \in Nat /\ MaxKey \in Nat
  /\ NULL \notin Position /\ Position \subseteq Nat
  /\ \A j \in Position : j % num_threads \in TableThreads
  /\ \A t \in TableThreads : t \in Nat /\ t % num_threads = t
<1>1. num_threads \in Nat \ {0} /\ NUM_BUCKETS \in Nat \ {0} /\ NUM_KEYS \in Nat /\ MaxKey \in Nat
  BY HashTableAssumption
<1>2. NULL \notin Position /\ Position \subseteq Nat BY DEF NULL, Position
<1>3. \A j \in Position : j % num_threads \in TableThreads
  BY <1>1, <1>2, RemainderIs DEF TableThreads
<1>4. ASSUME NEW t \in TableThreads PROVE t \in Nat /\ t % num_threads = t
  <2>1. t \in 0 .. num_threads - 1 /\ 0 \in Nat BY DEF TableThreads
  <2>2. (0 * num_threads + t) % num_threads = t BY <1>1, <2>1, RemainderOf
  <2>3. 0 * num_threads + t = t BY <1>1, <2>1
  <2>q. QED BY <2>1, <2>2, <2>3
<1>q. QED BY <1>1, <1>2, <1>3, <1>4

\* A key belongs to one bucket.
LEMMA BucketOf ==
  ASSUME TableTypes, NEW j \in Position
  PROVE  Bucket(keys[j]) \in 0 .. NUM_BUCKETS - 1 /\ keys[j] \in Nat
<1>1. keys[j] \in Nat
  <2>1. keys[j] \in 0 .. MaxKey BY DEF TableTypes
  <2>2. MaxKey \in Nat BY TableConstants
  <2>q. QED BY <2>1, <2>2
<1>q. QED BY <1>1, TableConstants, RemainderIs DEF Bucket

\* The positions of the keys, and whose they are.
LEMMA PositionIs ==
  ASSUME NEW j \in Nat
  PROVE  j \in Position <=> j < NUM_KEYS
<1>1. NUM_KEYS \in Nat BY TableConstants
<1>q. QED BY <1>1 DEF Position

\* A position is inserted if its thread is past it.
LEMMA InsertedIs ==
  ASSUME NEW j \in Position
  PROVE  /\ j \in Inserted <=> \/ tabPc[j % num_threads] \notin {"put", "link"}
                               \/ j < key[j % num_threads]
         /\ j \in Inserted' <=> \/ tabPc'[j % num_threads] \notin {"put", "link"}
                                \/ j < key'[j % num_threads]
<1>1. j % num_threads \in TableThreads BY TableConstants
<1>q. QED BY <1>1 DEF Inserted

\* Where the head of a bucket and a linked node point to.
LEMMA PointsToLinked ==
  ASSUME TableIInv
  PROVE  /\ \A b \in 0 .. NUM_BUCKETS - 1 : table[b] \in InsertedOf(b) \cup {NULL}
         /\ \A b \in 0 .. NUM_BUCKETS - 1 :
              \A j \in InsertedOf(b) : next_[j] \in InsertedOf(b) \cup {NULL}
         /\ \A j \in Inserted : next_[j] \in Inserted \cup {NULL}
<1>1. \A b \in 0 .. NUM_BUCKETS - 1 : Closed(b, InsertedOf(b)) BY DEF TableIInv, ChainInv
<1>2. \A b \in 0 .. NUM_BUCKETS - 1 : table[b] \in InsertedOf(b) \cup {NULL} BY <1>1 DEF Closed
<1>3. \A b \in 0 .. NUM_BUCKETS - 1 :
        \A j \in InsertedOf(b) : next_[j] \in InsertedOf(b) \cup {NULL}
  BY <1>1 DEF Closed
<1>4. ASSUME NEW j \in Inserted PROVE next_[j] \in Inserted \cup {NULL}
  <2>1. j \in Position BY DEF Inserted
  <2>2. Bucket(keys[j]) \in 0 .. NUM_BUCKETS - 1 BY <2>1, BucketOf DEF TableIInv
  <2>3. j \in InsertedOf(Bucket(keys[j])) BY DEF InsertedOf
  <2>q. QED BY <1>3, <2>2, <2>3 DEF InsertedOf
<1>q. QED BY <1>2, <1>3, <1>4

\* The start of parallel_mutex.c.
LEMMA TableStart == TableInit => TableIInv
<1> SUFFICES ASSUME TableInit PROVE TableIInv OBVIOUS
<1>1. TableTypes
  <2>1. \A t \in TableThreads : t \in Nat BY TableConstants
  <2>2. NULL \in Int BY DEF NULL
  <2>q. QED BY <2>1, <2>2 DEF TableInit, TableTypes
<1>2. Inserted = {}
  <2>1. ASSUME NEW j \in Position PROVE j \notin Inserted
    <3>1. PICK t : t = j % num_threads OBVIOUS
    <3>2. t \in TableThreads BY <3>1, TableConstants
    <3>3. tabPc[t] = "put" /\ key[t] = t BY <3>2 DEF TableInit
    <3>4. ~(j < t)
      <4>1. j \in Nat BY TableConstants
      <4>2. j % num_threads <= j
        <5>1. PICK q \in Nat, r \in 0 .. num_threads - 1 :
                j = q * num_threads + r /\ r = j % num_threads
          BY <4>1, RemainderIs, TableConstants
        <5>2. PICK z \in Nat : z = q * num_threads BY TableConstants, SMTT(60)
        <5>q. QED BY <5>1, <5>2, TableConstants
      <4>q. QED BY <3>1, <3>2, <4>1, <4>2, TableConstants
    <3>q. QED BY <3>1, <3>3, <3>4, InsertedIs
  <2>q. QED BY <2>1 DEF Inserted
<1>3. \A t \in TableThreads : PutInv(t) BY TableConstants DEF TableInit, PutInv
<1>4. ASSUME NEW b \in 0 .. NUM_BUCKETS - 1 PROVE BucketLockInv(b) /\ ChainInv(b)
  <2>1. bucketLock[b] = {} /\ table[b] = NULL BY DEF TableInit
  <2>2. InsertedOf(b) = {} BY <1>2 DEF InsertedOf
  <2>q. QED BY <2>1, <2>2 DEF BucketLockInv, ChainInv, Closed
<1>q. QED BY <1>1, <1>2, <1>3, <1>4 DEF TableIInv

\* A thread fills in its node and loads the head of the bucket.
LEMMA InsertLoadKeeps ==
  ASSUME TableIInv, NEW t \in TableThreads, InsertLoad(t)
  PROVE  TableIInv'
<1>a. /\ TableTypes /\ \A u \in TableThreads : PutInv(u)
      /\ \A b \in 0 .. NUM_BUCKETS - 1 : BucketLockInv(b) /\ ChainInv(b)
      /\ \A j \in Inserted : NodeInv(j)
  BY DEF TableIInv
<1>j. PICK j : j = key[t] OBVIOUS
<1>b. PICK b : b = Bucket(keys[j]) OBVIOUS
<1>e. /\ tabPc[t] = "put" /\ j < NUM_KEYS /\ bucketLock[b] = {}
      /\ bucketLock' = [bucketLock EXCEPT ![b] = bucketLock[b] \cup {t}]
      /\ next_' = [next_ EXCEPT ![j] = table[b]] /\ key_' = [key_ EXCEPT ![j] = keys[j]]
      /\ val' = [val EXCEPT ![j] = t] /\ tabPc' = [tabPc EXCEPT ![t] = "link"]
      /\ UNCHANGED <<keys, table, key, lostKeys>>
  BY <1>b, <1>j DEF InsertLoad, Free
<1>0. /\ j \in Position /\ b \in 0 .. NUM_BUCKETS - 1 /\ keys[j] \in Int /\ t \in Nat
      /\ j % num_threads = t
  <2>1. j \in Position /\ t \in Nat
    <3>1. j \in Nat BY <1>a, <1>j DEF TableTypes
    <3>q. QED BY <1>e, <3>1, PositionIs, TableConstants
  <2>q. QED BY <1>a, <1>b, <1>j, <2>1, BucketOf, TableConstants DEF PutInv
<1>p. /\ tabPc'[t] = "link" /\ \A u \in TableThreads : u # t => tabPc'[u] = tabPc[u]
      /\ bucketLock'[b] = {t}
      /\ \A c \in 0 .. NUM_BUCKETS - 1 : c # b => bucketLock'[c] = bucketLock[c]
      /\ next_'[j] = table[b] /\ \A i \in Position : i # j => next_'[i] = next_[i]
      /\ key_'[j] = keys[j] /\ \A i \in Position : i # j => key_'[i] = key_[i]
      /\ val'[j] = t /\ \A i \in Position : i # j => val'[i] = val[i]
  BY <1>0, <1>a, <1>e DEF TableTypes
<1>1. TableTypes'
  <2>1. bucketLock' \in [0 .. NUM_BUCKETS - 1 -> SUBSET TableThreads] BY <1>0, <1>a, <1>e
                                                                      DEF TableTypes
  <2>2. next_' \in [Position -> Position \cup {NULL}] BY <1>0, <1>a, <1>e DEF TableTypes
  <2>3. key_' \in [Position -> Int] BY <1>0, <1>a, <1>e DEF TableTypes
  <2>4. t \in Int BY <1>0
  <2>5. val' \in [Position -> Int] BY <1>a, <1>e, <2>4 DEF TableTypes
  <2>q. QED BY <1>a, <1>e, <2>1, <2>2, <2>3, <2>5 DEF TableTypes
<1>2. j \notin Inserted /\ Inserted' = Inserted
  <2>1. j \notin Inserted
    <3>1. ~(j < key[t]) BY <1>0, <1>j, TableConstants
    <3>q. QED BY <1>0, <1>e, <3>1, InsertedIs
  <2>2. ASSUME NEW i \in Position PROVE i \in Inserted' <=> i \in Inserted
    <3>1. i % num_threads \in TableThreads BY TableConstants
    <3>2. tabPc'[i % num_threads] \in {"put", "link"} <=> tabPc[i % num_threads] \in {"put", "link"}
      BY <1>e, <1>p, <3>1
    <3>q. QED BY <1>e, <3>2, InsertedIs
  <2>q. QED BY <2>1, <2>2 DEF Inserted
<1>i. Inserted \subseteq Position BY DEF Inserted
<1>3. ASSUME NEW u \in TableThreads PROVE PutInv(u)'
  <2>1. key'[u] % num_threads = u BY <1>a, <1>e DEF PutInv
  <2>2. tabPc[u] \notin {"get", "done"} BY <1>a, <1>e DEF PutInv
  <2>3. CASE u = t BY <1>e, <1>b, <1>j, <1>p, <1>0, <2>1, <2>3 DEF PutInv
  <2>4. CASE u # t
    <3>1. tabPc'[u] = tabPc[u] BY <1>p, <2>4
    <3>2. ASSUME tabPc[u] = "link"
          PROVE  /\ key[u] \in Position /\ key[u] # j
                 /\ Bucket(keys[key[u]]) \in 0 .. NUM_BUCKETS - 1
                 /\ Bucket(keys[key[u]]) # b /\ PutInv(u)
      <4>1. PutInv(u) /\ PutInv(t) BY <1>a
      <4>2. key[u] \in Position
        <5>1. key[u] \in Nat /\ key[u] < NUM_KEYS BY <1>a, <3>2, <4>1 DEF TableTypes, PutInv
        <5>q. QED BY <5>1, PositionIs
      <4>3. key[u] # j BY <1>0, <2>4, <4>1 DEF PutInv
      <4>4. Bucket(keys[key[u]]) # b BY <1>e, <3>2, <4>1 DEF PutInv
      <4>q. QED BY <1>a, <4>1, <4>2, <4>3, <4>4, BucketOf
    <3>q. QED BY <1>e, <1>p, <2>1, <2>2, <3>1, <3>2 DEF PutInv
  <2>q. QED BY <2>3, <2>4
<1>4. ASSUME NEW c \in 0 .. NUM_BUCKETS - 1 PROVE BucketLockInv(c)'
  <2>1. CASE c = b BY <1>b, <1>e, <1>j, <1>p, <2>1 DEF BucketLockInv
  <2>2. CASE c # b
    <3>1. ASSUME NEW u \in bucketLock[c] PROVE tabPc'[u] = "link" /\ Bucket(keys[key[u]]) = c
      <4>1. u \in TableThreads BY <1>a DEF TableTypes
      <4>q. QED BY <1>a, <1>e, <1>p, <4>1 DEF BucketLockInv
    <3>q. QED BY <1>e, <1>p, <2>2, <3>1 DEF BucketLockInv
  <2>q. QED BY <2>1, <2>2
<1>5. ASSUME NEW c \in 0 .. NUM_BUCKETS - 1 PROVE ChainInv(c)'
  <2>1. InsertedOf(c)' = InsertedOf(c) BY <1>2, <1>e DEF InsertedOf
  <2>2. \A i \in Inserted : next_'[i] = next_[i] BY <1>2, <1>i, <1>p
  <2>3. Closed(c, InsertedOf(c))'
    <3>1. Closed(c, InsertedOf(c)) BY <1>a DEF ChainInv
    <3>2. \A i \in InsertedOf(c) : next_'[i] = next_[i] BY <2>2 DEF InsertedOf
    <3>q. QED BY <1>e, <2>1, <3>1, <3>2 DEF Closed
  <2>4. ASSUME NEW S \in SUBSET Position, Closed(c, S)' PROVE InsertedOf(c) \subseteq S
    <3>1. \A i \in S \cap Inserted : next_[i] \in (S \cap Inserted) \cup {NULL}
      BY <2>2, <2>4, PointsToLinked DEF Closed
    <3>2. table[c] \in (S \cap Inserted) \cup {NULL}
      BY <1>e, <2>4, PointsToLinked DEF Closed, InsertedOf
    <3>3. Closed(c, S \cap Inserted) BY <3>1, <3>2 DEF Closed
    <3>4. S \cap Inserted \in SUBSET Position OBVIOUS
    <3>q. QED BY <1>a, <3>3, <3>4 DEF ChainInv
  <2>q. QED BY <2>1, <2>3, <2>4 DEF ChainInv
<1>6. ASSUME NEW i \in Inserted PROVE NodeInv(i)'
  <2>1. i \in Position /\ i # j BY <1>2, <1>i
  <2>q. QED BY <1>a, <1>e, <1>p, <2>1 DEF NodeInv
<1>q. QED BY <1>1, <1>2, <1>3, <1>4, <1>5, <1>6 DEF TableIInv

\* A thread links its node.
LEMMA InsertLinkKeeps ==
  ASSUME TableIInv, NEW t \in TableThreads, InsertLink(t)
  PROVE  TableIInv'
<1>a. /\ TableTypes /\ \A u \in TableThreads : PutInv(u)
      /\ \A b \in 0 .. NUM_BUCKETS - 1 : BucketLockInv(b) /\ ChainInv(b)
      /\ \A j \in Inserted : NodeInv(j)
  BY DEF TableIInv
<1>j. PICK j : j = key[t] OBVIOUS
<1>b. PICK b : b = Bucket(keys[j]) OBVIOUS
<1>e. /\ tabPc[t] = "link" /\ table' = [table EXCEPT ![b] = j]
      /\ bucketLock' = [bucketLock EXCEPT ![b] = bucketLock[b] \ {t}]
      /\ tabPc' = [tabPc EXCEPT ![t] = "put"] /\ key' = [key EXCEPT ![t] = key[t] + num_threads]
      /\ UNCHANGED <<keys, key_, val, next_, lostKeys>>
  BY <1>b, <1>j DEF InsertLink
<1>0. /\ j \in Position /\ b \in 0 .. NUM_BUCKETS - 1 /\ t \in Nat /\ j \in Nat
      /\ j % num_threads = t /\ bucketLock[b] = {t} /\ next_[j] = table[b]
      /\ key_[j] = keys[j] /\ val[j] = t /\ num_threads \in Nat \ {0} /\ j # NULL
  <2>1. j \in Nat /\ j < NUM_KEYS BY <1>a, <1>e, <1>j DEF TableTypes, PutInv
  <2>2. j \in Position BY <2>1, PositionIs
  <2>3. b \in 0 .. NUM_BUCKETS - 1 BY <1>a, <1>b, <2>2, BucketOf
  <2>q. QED BY <1>a, <1>b, <1>e, <1>j, <2>1, <2>2, <2>3, TableConstants DEF PutInv
<1>p. /\ tabPc'[t] = "put" /\ \A u \in TableThreads : u # t => tabPc'[u] = tabPc[u]
      /\ key'[t] = j + num_threads /\ \A u \in TableThreads : u # t => key'[u] = key[u]
      /\ bucketLock'[b] = {}
      /\ \A c \in 0 .. NUM_BUCKETS - 1 : c # b => bucketLock'[c] = bucketLock[c]
      /\ table'[b] = j /\ \A c \in 0 .. NUM_BUCKETS - 1 : c # b => table'[c] = table[c]
  BY <1>0, <1>a, <1>e, <1>j DEF TableTypes
<1>1. TableTypes'
  <2>1. bucketLock' \in [0 .. NUM_BUCKETS - 1 -> SUBSET TableThreads] BY <1>0, <1>a, <1>e
                                                                      DEF TableTypes
  <2>2. table' \in [0 .. NUM_BUCKETS - 1 -> Position \cup {NULL}] BY <1>0, <1>a, <1>e
                                                                  DEF TableTypes
  <2>3. key[t] + num_threads \in Nat BY <1>0, <1>j
  <2>4. key' \in [TableThreads -> Nat] BY <1>a, <1>e, <2>3 DEF TableTypes
  <2>q. QED BY <1>a, <1>e, <2>1, <2>2, <2>4 DEF TableTypes
<1>2. Inserted' = Inserted \cup {j}
  <2>1. ASSUME NEW i \in Position PROVE i \in Inserted' <=> i \in Inserted \/ i = j
    <3>1. i % num_threads \in TableThreads /\ i \in Nat BY TableConstants
    <3>2. CASE i % num_threads # t
      <4>1. /\ tabPc'[i % num_threads] = tabPc[i % num_threads]
            /\ key'[i % num_threads] = key[i % num_threads]
        BY <1>p, <3>1, <3>2
      <4>q. QED BY <1>0, <3>2, <4>1, InsertedIs
    <3>3. CASE i % num_threads = t
      <4>1. i < j + num_threads <=> i < j \/ i = j BY <1>0, <3>1, <3>3, NextOfThread
      <4>q. QED BY <1>e, <1>j, <1>p, <3>3, <4>1, InsertedIs
    <3>q. QED BY <3>2, <3>3
  <2>q. QED BY <1>0, <2>1 DEF Inserted
<1>3. ASSUME NEW u \in TableThreads PROVE PutInv(u)'
  <2>2. PutInv(u) /\ tabPc[u] \notin {"get", "done"} BY <1>a, <1>e DEF PutInv
  <2>3. CASE u = t
    <3>1. (j + num_threads) % num_threads = t BY <1>0, NextOfThread
    <3>q. QED BY <1>p, <2>3, <3>1 DEF PutInv
  <2>4. CASE u # t
    <3>1. tabPc'[u] = tabPc[u] /\ key'[u] = key[u] BY <1>p, <2>4
    <3>2. ASSUME tabPc[u] = "link"
          PROVE  /\ Bucket(keys[key[u]]) \in 0 .. NUM_BUCKETS - 1 /\ Bucket(keys[key[u]]) # b
      <4>1. key[u] \in Nat /\ key[u] < NUM_KEYS /\ bucketLock[Bucket(keys[key[u]])] = {u}
        BY <1>a, <2>2, <3>2 DEF TableTypes, PutInv
      <4>2. key[u] \in Position BY <4>1, PositionIs
      <4>q. QED BY <1>0, <1>a, <2>4, <4>1, <4>2, BucketOf
    <3>q. QED BY <1>e, <1>p, <2>2, <3>1, <3>2 DEF PutInv
  <2>q. QED BY <2>3, <2>4
<1>4. ASSUME NEW c \in 0 .. NUM_BUCKETS - 1 PROVE BucketLockInv(c)'
  <2>1. CASE c = b BY <1>p, <2>1 DEF BucketLockInv
  <2>2. CASE c # b
    <3>1. ASSUME NEW u \in bucketLock[c] PROVE tabPc'[u] = "link" /\ Bucket(keys[key'[u]]) = c
      <4>1. u \in TableThreads /\ tabPc[u] = "link" /\ Bucket(keys[key[u]]) = c
        BY <1>a DEF TableTypes, BucketLockInv
      <4>2. u # t BY <1>b, <1>j, <2>2, <4>1
      <4>q. QED BY <1>p, <4>1, <4>2
    <3>q. QED BY <1>e, <1>p, <2>2, <3>1 DEF BucketLockInv
  <2>q. QED BY <2>1, <2>2
<1>5. ASSUME NEW c \in 0 .. NUM_BUCKETS - 1 PROVE ChainInv(c)'
  <2>0. /\ Closed(c, InsertedOf(c))
        /\ \A S \in SUBSET Position : Closed(c, S) => InsertedOf(c) \subseteq S
    BY <1>a DEF ChainInv
  <2>1. CASE c = b
    <3>1. InsertedOf(c)' = InsertedOf(b) \cup {j} BY <1>2, <1>b, <1>e, <2>1 DEF InsertedOf
    <3>2. Closed(c, InsertedOf(c))'
      <4>1. Closed(b, InsertedOf(b)) BY <2>0, <2>1
      <4>2. next_[j] \in InsertedOf(b) \cup {NULL} BY <1>0, <4>1 DEF Closed
      <4>q. QED BY <1>e, <1>p, <2>1, <3>1, <4>1, <4>2 DEF Closed
    <3>3. ASSUME NEW S \in SUBSET Position, Closed(c, S)' PROVE InsertedOf(b) \cup {j} \subseteq S
      <4>1. j \in S BY <1>0, <1>p, <2>1, <3>3 DEF Closed
      <4>2. \A i \in S : next_[i] \in S \cup {NULL} BY <1>e, <3>3 DEF Closed
      <4>3. table[b] \in S \cup {NULL} BY <1>0, <4>1, <4>2
      <4>4. Closed(b, S) BY <4>2, <4>3 DEF Closed
      <4>q. QED BY <2>0, <2>1, <4>1, <4>4
    <3>q. QED BY <3>1, <3>2, <3>3 DEF ChainInv
  <2>2. CASE c # b
    <3>1. InsertedOf(c)' = InsertedOf(c) BY <1>2, <1>b, <1>e, <2>2 DEF InsertedOf
    <3>2. table'[c] = table[c] BY <1>p, <2>2
    <3>3. Closed(c, InsertedOf(c))' BY <1>e, <2>0, <3>1, <3>2 DEF Closed
    <3>4. ASSUME NEW S \in SUBSET Position, Closed(c, S)' PROVE InsertedOf(c) \subseteq S
      <4>1. Closed(c, S) BY <1>e, <3>2, <3>4 DEF Closed
      <4>q. QED BY <2>0, <4>1
    <3>q. QED BY <3>1, <3>3, <3>4 DEF ChainInv
  <2>q. QED BY <2>1, <2>2
<1>6. ASSUME NEW i \in Inserted' PROVE NodeInv(i)'
  <2>1. CASE i \in Inserted BY <1>a, <1>e, <2>1 DEF NodeInv
  <2>2. CASE i = j BY <1>0, <1>e, <2>2 DEF NodeInv
  <2>q. QED BY <1>2, <2>1, <2>2
<1>q. QED BY <1>1, <1>2, <1>3, <1>4, <1>5, <1>6 DEF TableIInv

\* A step that leaves the table as it is, and what has been inserted.
LEMMA TableRests ==
  ASSUME TableIInv, UNCHANGED <<keys, table, key_, val, next_, bucketLock>>, TableTypes',
         Inserted' = Inserted, \A u \in TableThreads : PutInv(u)',
         \A u \in TableThreads : tabPc[u] = "link" => tabPc'[u] = "link" /\ key'[u] = key[u]
  PROVE  TableIInv'
<1>a. /\ TableTypes /\ \A b \in 0 .. NUM_BUCKETS - 1 : BucketLockInv(b) /\ ChainInv(b)
      /\ \A j \in Inserted : NodeInv(j)
  BY DEF TableIInv
<1>1. ASSUME NEW b \in 0 .. NUM_BUCKETS - 1 PROVE BucketLockInv(b)' /\ ChainInv(b)'
  <2>1. BucketLockInv(b)'
    <3>1. \A u \in bucketLock[b] :
            u \in TableThreads /\ tabPc[u] = "link" /\ Bucket(keys[key[u]]) = b
      BY <1>a DEF TableTypes, BucketLockInv
    <3>q. QED BY <3>1 DEF BucketLockInv
  <2>2. InsertedOf(b)' = InsertedOf(b) BY DEF InsertedOf
  <2>3. \A S : Closed(b, S)' <=> Closed(b, S) BY DEF Closed
  <2>4. ChainInv(b) BY <1>a
  <2>5. Closed(b, InsertedOf(b))' BY <2>2, <2>4 DEF ChainInv, Closed
  <2>6. ASSUME NEW S \in SUBSET Position, Closed(b, S)' PROVE InsertedOf(b)' \subseteq S
    BY <2>2, <2>3, <2>4, <2>6 DEF ChainInv
  <2>q. QED BY <2>1, <2>5, <2>6 DEF ChainInv
<1>2. \A j \in Inserted' : NodeInv(j)' BY <1>a DEF NodeInv
<1>q. QED BY <1>1, <1>2 DEF TableIInv

\* A thread has put all of its keys.
LEMMA PutDoneKeeps ==
  ASSUME TableIInv, NEW t \in TableThreads, tabPc[t] = "put", key[t] >= NUM_KEYS,
         tabPc' = [tabPc EXCEPT ![t] = "put_done"],
         UNCHANGED <<keys, table, key_, val, next_, bucketLock, key, lostKeys>>
  PROVE  TableIInv'
<1>a. TableTypes /\ \A u \in TableThreads : PutInv(u) BY DEF TableIInv
<1>p. tabPc'[t] = "put_done" /\ \A u \in TableThreads : u # t => tabPc'[u] = tabPc[u]
  BY <1>a DEF TableTypes
<1>1. TableTypes' BY <1>a DEF TableTypes
<1>2. Inserted' = Inserted
  <2>1. ASSUME NEW i \in Position PROVE i \in Inserted' <=> i \in Inserted
    <3>1. i % num_threads \in TableThreads /\ i \in Nat BY TableConstants
    <3>2. CASE i % num_threads # t BY <1>p, <3>1, <3>2, InsertedIs
    <3>3. CASE i % num_threads = t
      <4>1. i < key[t]
        <5>1. PICK n : n = key[t] OBVIOUS
        <5>2. n \in Nat /\ n >= NUM_KEYS BY <1>a, <5>1 DEF TableTypes
        <5>3. i \in Nat /\ i < NUM_KEYS BY <3>1, PositionIs
        <5>4. NUM_KEYS \in Nat BY TableConstants
        <5>q. QED BY ONLY <5>1, <5>2, <5>3, <5>4
      <4>q. QED BY <1>p, <3>3, <4>1, InsertedIs
    <3>q. QED BY <3>2, <3>3
  <2>q. QED BY <2>1 DEF Inserted
<1>3. ASSUME NEW u \in TableThreads PROVE PutInv(u)'
  <2>1. PutInv(u) /\ tabPc[u] \notin {"get", "done"} BY <1>a DEF PutInv
  <2>2. CASE u = t BY <1>p, <2>1, <2>2 DEF PutInv
  <2>3. CASE u # t BY <1>p, <2>1, <2>3 DEF PutInv
  <2>q. QED BY <2>2, <2>3
<1>4. \A u \in TableThreads : tabPc[u] = "link" => tabPc'[u] = "link" /\ key'[u] = key[u]
  BY <1>p
<1>q. QED BY <1>1, <1>2, <1>3, <1>4, TableRests

\* main() starts the threads that look the keys up.
LEMMA SecondPhaseKeeps ==
  ASSUME TableIInv, SecondPhase
  PROVE  TableIInv'
<1>a. TableTypes BY DEF TableIInv
<1>e. /\ \A u \in TableThreads : tabPc[u] = "put_done"
      /\ tabPc' = [u \in TableThreads |-> "get"] /\ key' = [u \in TableThreads |-> u]
      /\ UNCHANGED <<keys, table, key_, val, next_, bucketLock, lostKeys>>
  BY DEF SecondPhase
<1>1. TableTypes' BY <1>a, <1>e, TableConstants DEF TableTypes
<1>2. Inserted' = Inserted
  <2>1. ASSUME NEW i \in Position PROVE i \in Inserted' /\ i \in Inserted
    BY <1>e, InsertedIs, TableConstants
  <2>q. QED BY <2>1 DEF Inserted
<1>3. ASSUME NEW u \in TableThreads PROVE PutInv(u)' BY <1>e, TableConstants DEF PutInv
<1>4. \A u \in TableThreads : tabPc[u] = "link" => tabPc'[u] = "link" /\ key'[u] = key[u]
  BY <1>e
<1>q. QED BY <1>1, <1>2, <1>3, <1>4, <1>e, TableRests

\* The nodes of a bucket are those that were inserted into it.
LEMMA ChainIsInserted ==
  ASSUME TableIInv, NEW b \in 0 .. NUM_BUCKETS - 1
  PROVE  Chain(b) = InsertedOf(b)
<1>1. ChainInv(b) BY DEF TableIInv
<1>2. InsertedOf(b) \in SUBSET Position BY DEF InsertedOf, Inserted
<1>3. Chain(b) \subseteq InsertedOf(b) BY <1>1, <1>2 DEF ChainInv, Chain
<1>4. InsertedOf(b) \subseteq Chain(b) BY <1>1, <1>2 DEF ChainInv, Chain
<1>q. QED BY <1>3, <1>4

\* A thread looks a key up.
LEMMA GetPhaseKeeps ==
  ASSUME TableIInv, NEW t \in TableThreads, get_phase(t)
  PROVE  TableIInv'
<1>a. TableTypes /\ \A u \in TableThreads : PutInv(u) BY DEF TableIInv
<1>e. tabPc[t] = "get" /\ UNCHANGED <<keys, table, key_, val, next_, bucketLock>>
  BY DEF get_phase
<1>g. \A u \in TableThreads : tabPc[u] \in {"get", "done"} BY <1>a, <1>e DEF PutInv
<1>k. key[t] \in Nat /\ num_threads \in Nat \ {0} /\ key[t] % num_threads = t
  BY <1>a, TableConstants DEF TableTypes, PutInv
<1>i. ASSUME NEW i \in Position PROVE i \in Inserted
  BY <1>g, InsertedIs, TableConstants
<1>f. ASSUME key[t] < NUM_KEYS PROVE retrieve(keys[key[t]])
  <2>1. PICK j \in Position : j = key[t] BY <1>f, <1>k, PositionIs
  <2>2. Bucket(keys[j]) \in 0 .. NUM_BUCKETS - 1 BY <1>a, BucketOf
  <2>3. j \in Inserted /\ key_[j] = keys[j] BY <1>i DEF TableIInv, NodeInv
  <2>4. j \in Chain(Bucket(keys[j])) BY <2>2, <2>3, ChainIsInserted DEF InsertedOf
  <2>q. QED BY <2>1, <2>3, <2>4 DEF retrieve
<1>s. /\ tabPc'[t] \in {"get", "done"} /\ lostKeys' = lostKeys
      /\ tabPc' \in [TableThreads -> {"put", "link", "put_done", "get", "done"}]
      /\ \A u \in TableThreads : u # t => tabPc'[u] = tabPc[u] /\ key'[u] = key[u]
      /\ key'[t] \in {key[t], key[t] + num_threads} /\ key' \in [TableThreads -> Nat]
  <2>1. CASE key[t] < NUM_KEYS
    <3>1. /\ key' = [key EXCEPT ![t] = key[t] + num_threads] /\ UNCHANGED tabPc
          /\ lostKeys' = [lostKeys EXCEPT ![t] = lostKeys[t] + 0]
      BY <1>e, <1>f, <2>1 DEF get_phase
    <3>4. lostKeys = [u \in TableThreads |-> 0] BY <1>a DEF TableTypes
    <3>5. lostKeys[t] = 0 BY <3>4
    <3>0. lostKeys[t] + 0 = 0 BY <3>5
    <3>2. lostKeys' = lostKeys BY <3>0, <3>1, <3>4
    <3>3. key[t] + num_threads \in Nat BY <1>k
    <3>q. QED BY <1>a, <1>e, <3>1, <3>2, <3>3 DEF TableTypes
  <2>2. CASE ~(key[t] < NUM_KEYS)
    <3>1. tabPc' = [tabPc EXCEPT ![t] = "done"] /\ UNCHANGED <<key, lostKeys>>
      BY <1>e, <2>2 DEF get_phase
    <3>q. QED BY <1>a, <1>e, <3>1 DEF TableTypes
  <2>q. QED BY <2>1, <2>2
<1>1. TableTypes' BY <1>a, <1>e, <1>s DEF TableTypes
<1>h. \A u \in TableThreads : tabPc'[u] \in {"get", "done"} BY <1>g, <1>s
<1>2. Inserted' = Inserted
  <2>1. ASSUME NEW i \in Position PROVE i \in Inserted' /\ i \in Inserted
    BY <1>i, <1>h, InsertedIs, TableConstants
  <2>q. QED BY <2>1 DEF Inserted
<1>3. ASSUME NEW u \in TableThreads PROVE PutInv(u)'
  <2>1. key'[u] % num_threads = u
    <3>1. (key[t] + num_threads) % num_threads = t BY <1>k, NextOfThread
    <3>2. key[u] % num_threads = u BY <1>a DEF PutInv
    <3>q. QED BY <1>s, <3>1, <3>2
  <2>q. QED BY <1>h, <2>1 DEF PutInv
<1>4. \A u \in TableThreads : tabPc[u] = "link" => tabPc'[u] = "link" /\ key'[u] = key[u]
  BY <1>g
<1>q. QED BY <1>1, <1>2, <1>3, <1>4, <1>e, TableRests

\* Every step of parallel_mutex.c keeps the invariant.
LEMMA TableStep == TableIInv /\ [TableNext]_tableVars => TableIInv'
<1> SUFFICES ASSUME TableIInv, [TableNext]_tableVars PROVE TableIInv' OBVIOUS
<1>1. ASSUME NEW t \in TableThreads, put_phase(t) PROVE TableIInv'
  BY <1>1, InsertLoadKeeps, InsertLinkKeeps, PutDoneKeeps DEF put_phase
<1>2. ASSUME NEW t \in TableThreads, get_phase(t) PROVE TableIInv' BY <1>2, GetPhaseKeeps
<1>3. CASE SecondPhase BY <1>3, SecondPhaseKeeps
<1>4. CASE UNCHANGED tableVars
  <2>1. Inserted' = Inserted BY <1>4 DEF tableVars, Inserted
  <2>2. TableTypes' BY <1>4 DEF tableVars, TableIInv, TableTypes
  <2>3. \A u \in TableThreads : PutInv(u)' BY <1>4 DEF tableVars, TableIInv, PutInv
  <2>q. QED BY <1>4, <2>1, <2>2, <2>3, TableRests DEF tableVars
<1>q. QED BY <1>1, <1>2, <1>3, <1>4 DEF TableNext, TableTerminated

\* The invariant is enough for what get_phase() promises.
LEMMA TableIsSafe == TableIInv => HashTableInv
<1> SUFFICES ASSUME TableIInv PROVE HashTableInv OBVIOUS
<1>a. TableTypes BY DEF TableIInv
<1>1. TableTypeOK
  <2>1. \A t \in TableThreads : lostKeys[t] = 0 BY <1>a DEF TableTypes
  <2>2. 0 \in 0 .. NUM_KEYS BY TableConstants
  <2>3. lostKeys \in [TableThreads -> 0 .. NUM_KEYS] BY <1>a, <2>2 DEF TableTypes
  <2>q. QED BY <1>a, <2>3 DEF TableTypes, TableTypeOK
<1>2. BucketsAreComplete
  <2>1. DOMAIN table = 0 .. NUM_BUCKETS - 1 BY <1>a DEF TableTypes
  <2>q. QED BY <2>1, ChainIsInserted DEF BucketsAreComplete, InsertedOf
<1>3. NoKeyIsLost
  <2>1. \A t \in TableThreads : lostKeys[t] = 0 BY <1>a DEF TableTypes
  <2>q. QED BY <2>1 DEF NoKeyIsLost, TableIInv, NodeInv
<1>q. QED BY <1>1, <1>2, <1>3 DEF HashTableInv

\* Each bucket of parallel_mutex.c holds the nodes that were inserted into it, and no key
\* that was inserted is missed.
THEOREM NoKeyIsMissed == TableSpec => []HashTableInv
<1>1. TableIInv /\ [TableNext]_tableVars => TableIInv' BY TableStep
<1>q. QED BY <1>1, TableStart, TableIsSafe, PTL DEF TableSpec

-----------------------------------------------------------------------------
(***************************************************************************)
(* The programs that say numbers in turns.                                 *)
(***************************************************************************)
TellingTypes ==
  /\ telling \in Tellings /\ tickets \in Int /\ i_gloabl_n \in Nat
  /\ said \in Seq(Teller \X Int) /\ teller \in Teller \cup {0}
  /\ turnPc \in [Teller -> {"out", "in", "load", "store", "done"}]
  /\ iSaid \in [Teller -> Nat] /\ count \in [Teller -> Int]

\* PThread-synchronization.c: the tickets that are left are those that were not sold.
SaleInv ==
  telling = "tickets" =>
    /\ \A t \in Teller : turnPc[t] \in {"out", "done"} /\ (turnPc[t] = "done" => tickets = 0)
    /\ tickets = Tickets - Len(said) /\ tickets >= 0
    /\ \A k \in 1 .. Len(said) : said[k][2] = Tickets + 1 - k

\* Ticket v has been sold.
IsSold(v) == \E k \in 1 .. Len(said) : said[k][2] = v

\* What is between 0 and the tickets on sale, and all above it is sold.
AboveIsSold(a) == a <= Tickets /\ \A v \in 1 .. Tickets : v > a => IsSold(v)

\* The tickets seller t has seen, with u anywhere.
SellerInv(t, u) ==
  /\ turnPc[t] = "load" => tickets >= IF turnPc[u] \in {"load", "store"} THEN 1 ELSE 0
  /\ turnPc[t] = "store" =>
       /\ AboveIsSold(count[t])
       /\ count[t] >= IF turnPc[u] \in {"load", "store"} \/ tickets > 0 THEN 1 ELSE 0

UnlockedSaleInv ==
  telling = "tickets_unlocked" =>
    /\ AboveIsSold(tickets) /\ \A t, u \in Teller : t # u => SellerInv(t, u)
    /\ \A t \in Teller : turnPc[t] # "in"
    /\ \A k \in 1 .. Len(said) : said[k][2] \in 0 .. Tickets
    /\ TellingAllDone => tickets <= 0

\* The numbers thread t of 02test.c has said.
SaidInTurn(t) == IF turnPc[t] = "done" THEN Numbers ELSE iSaid[t]

\* Who has the mutex has its turn, and is in the middle of it.
TurnInv(t, whole) ==
  /\ turnPc[t] \in {"out", "in", "done"} /\ (turnPc[t] = "in" <=> teller = t)
  /\ iSaid[t] < whole /\ (turnPc[t] # "in" => iSaid[t] = 0)
  /\ iSaid[t] > 0 => said # <<>> /\ said[Len(said)][1] = t

CountInv ==
  telling = "02test.c" =>
    /\ \A t \in Teller : TurnInv(t, Numbers)
    /\ i_gloabl_n = Len(said) /\ Len(said) = SaidInTurn(1) + SaidInTurn(2)
    /\ \A k \in 1 .. Len(said) : said[k][2] = k
    /\ \A k \in 1 .. Len(said) : said[k][1] = said[IF k <= Numbers THEN 1 ELSE Numbers + 1][1]

\* The messages of thread t are count[t] - 1, some turns of t and a part of one.
MessageInv(t) ==
  /\ TurnInv(t, t) /\ count[t] = Cardinality(SaidBy(t)) + 1
  /\ \E q \in 0 .. Turns : /\ count[t] = q * t + iSaid[t] + 1
                           /\ turnPc[t] = "in" => q < Turns
                           /\ turnPc[t] = "done" => q = Turns

MessagesInv ==
  telling = "threadsAndMutexes.c" =>
    /\ \A t \in Teller : MessageInv(t)
    /\ \A k \in 1 .. Len(said) : said[k][2] = Cardinality({j \in SaidBy(said[k][1]) : j <= k})
    /\ \A k \in 1 .. Len(said) :
         said[k][2] % said[k][1] # 0 =>
           IF k = Len(said) THEN teller = said[k][1] /\ count[teller] = said[k][2] + 1
                            ELSE said[k + 1] = <<said[k][1], said[k][2] + 1>>

TellingIInv == TellingTypes /\ SaleInv /\ UnlockedSaleInv /\ CountInv /\ MessagesInv

\* The numbers of threads and of what they say.
LEMMA TellingConstants ==
  /\ Tickets \in Nat \ {0} /\ Numbers \in Nat \ {0} /\ Talkers \in Nat \ {0} /\ Turns \in Nat \ {0}
  /\ Teller \subseteq Nat \ {0} /\ 0 \notin Teller
  /\ telling # "threadsAndMutexes.c" => Teller = 1 .. 2 /\ 1 \in Teller /\ 2 \in Teller
  /\ telling = "threadsAndMutexes.c" => Teller = 1 .. Talkers
<1>1. Tickets \in Nat \ {0} /\ Numbers \in Nat \ {0} /\ Talkers \in Nat \ {0} /\ Turns \in Nat \ {0}
  BY AnnouncementsAssumption
<1>q. QED BY <1>1 DEF Teller

\* One more number is said.
LEMMA OneMore ==
  ASSUME TellingTypes, NEW t \in Teller, NEW v \in Int, Say(t, v), telling' = telling
  PROVE  /\ Len(said) \in Nat /\ Len(said') = Len(said) + 1 /\ said'[Len(said) + 1] = <<t, v>>
         /\ \A k \in 1 .. Len(said) : said'[k] = said[k]
         /\ said' # <<>> /\ Teller' = Teller /\ said' \in Seq(Teller' \X Int)
         /\ \A k \in 1 .. Len(said') : k \in 1 .. Len(said) \/ k = Len(said) + 1
<1>1. Teller' = Teller BY DEF Teller
<1>2. said \in Seq(Teller \X Int) /\ <<t, v>> \in Teller \X Int BY DEF TellingTypes
<1>3. said' = Append(said, <<t, v>>) BY DEF Say
<1>4. Len(said) \in Nat /\ Len(said') = Len(said) + 1 /\ said'[Len(said) + 1] = <<t, v>>
      /\ said' \in Seq(Teller \X Int)
  BY <1>2, <1>3
<1>5. \A k \in 1 .. Len(said) : said'[k] = said[k] BY <1>2, <1>3
<1>6. said' # <<>> BY <1>2, <1>3
<1>7. \A k \in 1 .. Len(said') : k \in 1 .. Len(said) \/ k = Len(said) + 1 BY <1>4
<1>q. QED BY <1>1, <1>4, <1>5, <1>6, <1>7

\* The start of the three programs that say things.
LEMMA TellingStart == TellingInit => TellingIInv
<1> SUFFICES ASSUME TellingInit PROVE TellingIInv OBVIOUS
<1>e. /\ telling \in Tellings /\ tickets = Tickets /\ i_gloabl_n = 0 /\ said = <<>> /\ teller = 0
      /\ \A t \in Teller : turnPc[t] = "out" /\ iSaid[t] = 0 /\ count[t] = 1
  BY DEF TellingInit
<1>l. Len(said) = 0 /\ \A k \in 1 .. Len(said) : FALSE BY <1>e
<1>1. TellingTypes BY <1>e, TellingConstants DEF TellingInit, TellingTypes
<1>2. SaleInv BY <1>e, <1>l, TellingConstants DEF SaleInv
<1>3. UnlockedSaleInv
  <2>1. AboveIsSold(tickets) BY <1>e, TellingConstants DEF AboveIsSold
  <2>2. \A t, u \in Teller : SellerInv(t, u) BY <1>e DEF SellerInv
  <2>3. telling = "tickets_unlocked" => ~TellingAllDone
    BY <1>e, TellingConstants DEF TellingAllDone
  <2>q. QED BY <1>e, <1>l, <2>1, <2>2, <2>3 DEF UnlockedSaleInv
<1>4. CountInv
  <2>1. ASSUME NEW t \in Teller PROVE TurnInv(t, Numbers)
    BY <1>e, TellingConstants DEF TurnInv
  <2>2. telling = "02test.c" => SaidInTurn(1) = 0 /\ SaidInTurn(2) = 0
    BY <1>e, TellingConstants DEF SaidInTurn
  <2>q. QED BY <1>e, <1>l, <2>1, <2>2 DEF CountInv
<1>5. MessagesInv
  <2>1. ASSUME NEW t \in Teller PROVE MessageInv(t)
    <3>1. t \in Nat \ {0} /\ Turns \in Nat \ {0} BY TellingConstants
    <3>2. TurnInv(t, t) BY <1>e, <3>1, TellingConstants DEF TurnInv
    <3>3. SaidBy(t) = {} BY <1>l DEF SaidBy
    <3>4. count[t] = Cardinality(SaidBy(t)) + 1 BY <1>e, <3>3, FS_EmptySet
    <3>5. 0 \in 0 .. Turns /\ 0 * t = 0 BY <3>1
    <3>6. count[t] = 0 * t + iSaid[t] + 1 BY <1>e, <3>5
    <3>7. turnPc[t] = "out" BY <1>e
    <3>q. QED BY <3>2, <3>4, <3>5, <3>6, <3>7 DEF MessageInv
  <2>q. QED BY <1>l, <2>1 DEF MessagesInv
<1>q. QED BY <1>1, <1>2, <1>3, <1>4, <1>5 DEF TellingIInv

\* The program that is run does not change, and what is said of the others holds of none.
LEMMA OtherPrograms ==
  ASSUME telling' = telling
  PROVE  /\ telling # "tickets" => SaleInv'
         /\ telling # "tickets_unlocked" => UnlockedSaleInv'
         /\ telling # "02test.c" => CountInv'
         /\ telling # "threadsAndMutexes.c" => MessagesInv'
  BY DEF SaleInv, UnlockedSaleInv, CountInv, MessagesInv

\* A ticket is sold under the lock.
LEMMA SaleKeeps ==
  ASSUME TellingIInv, NEW t \in Teller, mythread(t)
  PROVE  TellingIInv'
<1>a. TellingTypes /\ SaleInv BY DEF TellingIInv
<1>e. /\ telling = "tickets" /\ turnPc[t] = "out"
      /\ UNCHANGED <<telling, i_gloabl_n, teller, iSaid, count>>
  BY DEF mythread
<1>s. /\ \A u \in Teller : turnPc[u] \in {"out", "done"} /\ (turnPc[u] = "done" => tickets = 0)
      /\ tickets = Tickets - Len(said) /\ tickets >= 0 /\ tickets \in Int /\ Tickets \in Nat
      /\ \A k \in 1 .. Len(said) : said[k][2] = Tickets + 1 - k
  BY <1>a, <1>e, TellingConstants DEF SaleInv, TellingTypes
<1>t. Teller' = Teller BY <1>e DEF Teller
<1>1. CASE tickets > 0
  <2>1. Say(t, tickets) /\ tickets' = tickets - 1 /\ UNCHANGED turnPc BY <1>1 DEF mythread
  <2>2. /\ Len(said) \in Nat /\ Len(said') = Len(said) + 1 /\ said'[Len(said) + 1] = <<t, tickets>>
        /\ \A k \in 1 .. Len(said) : said'[k] = said[k] /\ said' \in Seq(Teller' \X Int)
        /\ \A k \in 1 .. Len(said') : k \in 1 .. Len(said) \/ k = Len(said) + 1
        /\ said' \in Seq(Teller' \X Int)
    BY <1>a, <1>e, <1>s, <2>1, OneMore
  <2>3. TellingTypes' BY <1>a, <1>e, <1>t, <1>s, <2>1, <2>2 DEF TellingTypes
  <2>4. tickets' = Tickets - Len(said') /\ tickets' >= 0 BY <1>s, <1>1, <2>1, <2>2
  <2>5. \A u \in Teller : turnPc[u] = "out" BY <1>1, <1>s
  <2>6. ASSUME NEW k \in 1 .. Len(said') PROVE said'[k][2] = Tickets + 1 - k
    <3>1. CASE k \in 1 .. Len(said) BY <1>s, <2>2, <3>1
    <3>2. CASE k = Len(said) + 1 BY <1>s, <2>2, <3>2
    <3>q. QED BY <2>2, <3>1, <3>2
  <2>7. SaleInv' BY <1>t, <2>1, <2>4, <2>5, <2>6 DEF SaleInv
  <2>q. QED BY <1>e, <2>3, <2>7, OtherPrograms DEF TellingIInv
<1>2. CASE ~(tickets > 0)
  <2>1. turnPc' = [turnPc EXCEPT ![t] = "done"] /\ UNCHANGED <<tickets, said>> BY <1>2
                                                                               DEF mythread
  <2>2. TellingTypes' BY <1>a, <1>e, <1>t, <2>1 DEF TellingTypes
  <2>3. tickets = 0 BY <1>2, <1>s
  <2>4. \A u \in Teller : turnPc'[u] \in {"out", "done"} BY <1>a, <1>s, <2>1 DEF TellingTypes
  <2>5. SaleInv' BY <1>s, <1>t, <2>1, <2>3, <2>4 DEF SaleInv
  <2>q. QED BY <1>e, <2>2, <2>5, OtherPrograms DEF TellingIInv
<1>q. QED BY <1>1, <1>2

\* The three steps of a seller without the lock: the test of tickets, its load and its store.
SellerTests(t) ==
  /\ telling = "tickets_unlocked" /\ turnPc[t] = "out"
  /\ turnPc' = [turnPc EXCEPT ![t] = IF tickets > 0 THEN "load" ELSE "done"]
  /\ UNCHANGED <<telling, tickets, i_gloabl_n, said, teller, iSaid, count>>
SellerLoads(t) ==
  /\ telling = "tickets_unlocked" /\ turnPc[t] = "load"
  /\ turnPc' = [turnPc EXCEPT ![t] = "store"] /\ count' = [count EXCEPT ![t] = tickets]
  /\ UNCHANGED <<telling, tickets, i_gloabl_n, said, teller, iSaid>>
SellerStores(t) ==
  /\ telling = "tickets_unlocked" /\ turnPc[t] = "store"
  /\ turnPc' = [turnPc EXCEPT ![t] = "out"] /\ tickets' = count[t] - 1 /\ Say(t, count[t])
  /\ UNCHANGED <<telling, i_gloabl_n, teller, iSaid, count>>

\* A seller that tests, with the other anywhere.
LEMMA SellerTestKeeps ==
  ASSUME TellingIInv, NEW t \in Teller, SellerTests(t)
  PROVE  TellingIInv'
<1>e. turnPc' = [turnPc EXCEPT ![t] = IF tickets > 0 THEN "load" ELSE "done"]
  BY DEF SellerTests
<1>f. /\ telling = "tickets_unlocked" /\ turnPc[t] = "out"
      /\ UNCHANGED <<telling, tickets, i_gloabl_n, said, teller, iSaid, count>>
  BY DEF SellerTests
<1>a. TellingTypes /\ UnlockedSaleInv BY <1>f DEF TellingIInv
<1>t. Teller' = Teller BY <1>f DEF Teller
<1>i. tickets \in Int BY <1>a DEF TellingTypes
<1>s. /\ AboveIsSold(tickets) /\ \A r, u \in Teller : r # u => SellerInv(r, u)
      /\ \A r \in Teller : turnPc[r] # "in"
      /\ \A k \in 1 .. Len(said) : said[k][2] \in 0 .. Tickets
  BY <1>f, <1>a DEF UnlockedSaleInv
<1>p. /\ turnPc'[t] = IF tickets > 0 THEN "load" ELSE "done"
      /\ \A u \in Teller : u # t => turnPc'[u] = turnPc[u]
  BY <1>e, <1>a DEF TellingTypes
<1>1. TellingTypes' BY <1>e, <1>f, <1>a, <1>t DEF TellingTypes
<1>2. AboveIsSold(tickets)' BY <1>f, <1>s DEF AboveIsSold, IsSold
<1>3. ASSUME NEW r \in Teller, NEW u \in Teller, r # u PROVE SellerInv(r, u)'
  <2>0. SellerInv(r, u) BY <1>f, <1>3, <1>s
  <2>2. \A a : AboveIsSold(a)' <=> AboveIsSold(a) BY <1>f DEF AboveIsSold, IsSold
  <2>1. CASE r = t
    <3>1. turnPc'[r] = "load" => tickets >= 1 BY <1>f, <1>p, <1>i, <2>1
    <3>2. turnPc'[r] # "store" BY <1>p, <2>1
    <3>3. tickets >= 1 => tickets >= 0 BY <1>i
    <3>q. QED BY <1>f, <3>1, <3>2, <3>3 DEF SellerInv
  <2>3. CASE r # t /\ u = t
    <3>1. turnPc'[r] = turnPc[r] /\ count[r] \in Int BY <1>f, <1>a, <1>p, <2>3 DEF TellingTypes
    <3>2. CASE tickets > 0
      <4>1. turnPc[r] = "store" => count[r] >= 1 BY <1>f, <2>0, <3>2 DEF SellerInv
      <4>2. tickets >= 1 BY <1>i, <3>2
      <4>q. QED BY <1>f, <1>i, <2>0, <2>2, <3>1, <4>1, <4>2 DEF SellerInv
    <3>3. CASE ~(tickets > 0)
      <4>1. turnPc[u] = "out" /\ turnPc'[u] = "done" BY <1>f, <1>p, <2>3, <3>3
      <4>q. QED BY <1>f, <2>0, <2>2, <3>1, <4>1 DEF SellerInv
    <3>q. QED BY <1>f, <3>2, <3>3
  <2>4. CASE r # t /\ u # t
    <3>1. turnPc'[r] = turnPc[r] /\ turnPc'[u] = turnPc[u] BY <1>f, <1>p, <2>4
    <3>q. QED BY <1>f, <2>0, <2>2, <3>1 DEF SellerInv
  <2>q. QED BY <1>f, <2>1, <2>3, <2>4
<1>4. TellingAllDone' => tickets <= 0
  <2>1. TellingAllDone' => turnPc'[t] = "done" BY <1>f, <1>t DEF TellingAllDone
  <2>q. QED BY <1>f, <1>p, <1>i, <2>1
<1>5. \A r \in Teller : turnPc'[r] # "in" BY <1>f, <1>p, <1>s
<1>6. UnlockedSaleInv' BY <1>f, <1>2, <1>3, <1>4, <1>5, <1>s, <1>t DEF UnlockedSaleInv
<1>q. QED BY <1>f, <1>1, <1>6, OtherPrograms DEF TellingIInv

\* A seller without the lock loads the number of tickets.
LEMMA SellerLoadKeeps ==
  ASSUME TellingIInv, NEW t \in Teller, SellerLoads(t)
  PROVE  TellingIInv'
<1>e. turnPc' = [turnPc EXCEPT ![t] = "store"] /\ count' = [count EXCEPT ![t] = tickets]
  BY DEF SellerLoads
<1>f. /\ telling = "tickets_unlocked" /\ turnPc[t] = "load"
      /\ UNCHANGED <<telling, tickets, i_gloabl_n, said, teller, iSaid>>
  BY DEF SellerLoads
<1>a. TellingTypes /\ UnlockedSaleInv BY <1>f DEF TellingIInv
<1>t. Teller' = Teller BY <1>f DEF Teller
<1>i. tickets \in Int BY <1>a DEF TellingTypes
<1>s. /\ AboveIsSold(tickets) /\ \A r, u \in Teller : r # u => SellerInv(r, u)
      /\ \A r \in Teller : turnPc[r] # "in"
      /\ \A k \in 1 .. Len(said) : said[k][2] \in 0 .. Tickets
  BY <1>f, <1>a DEF UnlockedSaleInv
<1>p. /\ turnPc'[t] = "store" /\ count'[t] = tickets
      /\ \A u \in Teller : u # t => turnPc'[u] = turnPc[u] /\ count'[u] = count[u]
  BY <1>e, <1>a DEF TellingTypes
<1>1. TellingTypes' BY <1>e, <1>f, <1>a, <1>t DEF TellingTypes
<1>2. \A a : AboveIsSold(a)' <=> AboveIsSold(a) BY <1>f DEF AboveIsSold, IsSold
<1>3. ASSUME NEW r \in Teller, NEW u \in Teller, r # u PROVE SellerInv(r, u)'
  <2>0. SellerInv(r, u) BY <1>f, <1>3, <1>s
  <2>x. PICK z : z = count'[r] OBVIOUS
  <2>1. CASE r = t
    <3>1. turnPc[u] \in {"load", "store"} => tickets >= 1 BY <1>f, <2>0, <2>1 DEF SellerInv
    <3>2. tickets >= 0 BY <1>f, <1>i, <2>0, <2>1, <3>1 DEF SellerInv
    <3>3. turnPc'[u] = turnPc[u] BY <1>f, <1>3, <1>p, <2>1
    <3>4. z = tickets BY <1>f, <1>p, <2>1, <2>x
    <3>5. AboveIsSold(z)' BY <1>f, <1>2, <1>s, <3>4
    <3>6. z >= IF turnPc'[u] \in {"load", "store"} \/ tickets > 0 THEN 1 ELSE 0
      BY <1>f, <1>i, <3>1, <3>2, <3>3, <3>4
    <3>7. turnPc'[r] = "store" BY <1>f, <1>p, <2>1
    <3>q. QED BY <1>f, <2>x, <3>5, <3>6, <3>7 DEF SellerInv, AboveIsSold, IsSold
  <2>2. CASE r # t
    <3>1. turnPc'[r] = turnPc[r] /\ count'[r] = count[r] BY <1>f, <1>p, <2>2
    <3>2. turnPc[u] \in {"load", "store"} <=> turnPc'[u] \in {"load", "store"} BY <1>f, <1>p
    <3>3. AboveIsSold(count[r]) <=> AboveIsSold(count[r])' BY <1>f, <3>1 DEF AboveIsSold, IsSold
    <3>q. QED BY <1>f, <2>0, <3>1, <3>2, <3>3 DEF SellerInv
  <2>q. QED BY <1>f, <2>1, <2>2
<1>4. ~TellingAllDone' BY <1>f, <1>p, <1>t DEF TellingAllDone
<1>5. \A r \in Teller : turnPc'[r] # "in" BY <1>f, <1>p, <1>s
<1>7. AboveIsSold(tickets)' BY <1>f, <1>s DEF AboveIsSold, IsSold
<1>6. UnlockedSaleInv' BY <1>f, <1>3, <1>4, <1>5, <1>7, <1>s, <1>t DEF UnlockedSaleInv
<1>q. QED BY <1>f, <1>1, <1>6, OtherPrograms DEF TellingIInv

\* The ticket that was loaded is sold; if the other seller is to load or to store as well,
\* there was one to sell.
LEMMA SellerStoreKeeps ==
  ASSUME TellingIInv, NEW t \in Teller, SellerStores(t)
  PROVE  TellingIInv'
<1>e. turnPc' = [turnPc EXCEPT ![t] = "out"] BY DEF SellerStores
<1>f. /\ telling = "tickets_unlocked" /\ turnPc[t] = "store"
      /\ tickets' = count[t] - 1 /\ Say(t, count[t])
      /\ UNCHANGED <<telling, i_gloabl_n, teller, iSaid, count>>
  BY DEF SellerStores
<1>a. TellingTypes /\ UnlockedSaleInv BY <1>f DEF TellingIInv
<1>t. Teller' = Teller BY <1>f DEF Teller
<1>i. tickets \in Int /\ count[t] \in Int /\ Tickets \in Nat
  BY <1>a, TellingConstants DEF TellingTypes
<1>s. /\ AboveIsSold(tickets) /\ \A r, u \in Teller : r # u => SellerInv(r, u)
      /\ \A r \in Teller : turnPc[r] # "in"
      /\ \A k \in 1 .. Len(said) : said[k][2] \in 0 .. Tickets
  BY <1>f, <1>a DEF UnlockedSaleInv
<1>p. turnPc'[t] = "out" /\ \A u \in Teller : u # t => turnPc'[u] = turnPc[u]
  BY <1>e, <1>a DEF TellingTypes
<1>l. /\ Len(said) \in Nat /\ Len(said') = Len(said) + 1 /\ said'[Len(said) + 1] = <<t, count[t]>>
      /\ \A k \in 1 .. Len(said) : said'[k] = said[k]
      /\ \A k \in 1 .. Len(said') : k \in 1 .. Len(said) \/ k = Len(said) + 1
  BY <1>f, <1>a, <1>i, OneMore
<1>m. said' \in Seq(Teller' \X Int) BY <1>f, <1>a, <1>i, OneMore
<1>b. \A r \in Teller : r = 1 \/ r = 2
  <2>1. Teller = 1 .. 2 BY <1>f, TellingConstants
  <2>q. QED BY <2>1
<1>u. PICK u \in Teller : u # t BY <1>b, <1>f, TellingConstants
<1>w. \A r \in Teller : r = t \/ r = u BY <1>b, <1>u
<1>c. /\ AboveIsSold(count[t]) /\ count[t] >= 0
      /\ turnPc[u] \in {"load", "store"} => count[t] >= 1
  <2>1. SellerInv(t, u) BY <1>f, <1>s, <1>u
  <2>q. QED BY <1>f, <1>i, <2>1 DEF SellerInv
<1>1. TellingTypes'
  <2>1. tickets' \in Int BY <1>e, <1>f, <1>i
  <2>q. QED BY <1>e, <1>f, <1>a, <1>m, <1>t, <2>1 DEF TellingTypes
<1>2. \A v \in 1 .. Tickets : IsSold(v) \/ v = count[t] => IsSold(v)'
  <2>1. ASSUME NEW v \in 1 .. Tickets, IsSold(v) PROVE IsSold(v)'
    <3>1. PICK k \in 1 .. Len(said) : said[k][2] = v BY <2>1 DEF IsSold
    <3>2. k \in 1 .. Len(said') /\ said'[k][2] = v BY <1>f, <1>l, <3>1
    <3>q. QED BY <1>f, <3>2 DEF IsSold
  <2>2. ASSUME NEW v \in 1 .. Tickets, v = count[t] PROVE IsSold(v)'
    <3>1. Len(said) + 1 \in 1 .. Len(said') /\ said'[Len(said) + 1][2] = v BY <1>f, <1>l, <2>2
    <3>q. QED BY <1>f, <3>1 DEF IsSold
  <2>q. QED BY <1>f, <2>1, <2>2
<1>3. \A a \in Int : AboveIsSold(a) => AboveIsSold(a)'
  BY <1>f, <1>2 DEF AboveIsSold
<1>4. AboveIsSold(tickets)'
  <2>1. tickets' <= Tickets BY <1>f, <1>c, <1>i DEF AboveIsSold
  <2>2. ASSUME NEW v \in 1 .. Tickets, v > tickets' PROVE IsSold(v)'
    <3>1. v > count[t] \/ v = count[t] BY <1>f, <1>i, <2>2
    <3>q. QED BY <1>f, <1>2, <1>c, <3>1 DEF AboveIsSold
  <2>q. QED BY <1>f, <2>1, <2>2 DEF AboveIsSold, IsSold
<1>5. SellerInv(t, u)' BY <1>f, <1>p DEF SellerInv
<1>6. SellerInv(u, t)'
  <2>1. SellerInv(u, t) /\ turnPc'[u] = turnPc[u] /\ count[u] \in Int
    BY <1>f, <1>a, <1>p, <1>s, <1>u DEF TellingTypes
  <2>2. turnPc[u] = "load" => tickets' >= 0 BY <1>f, <1>c, <1>i
  <2>3. turnPc[u] = "store" => count[u] >= 1 BY <1>f, <2>1 DEF SellerInv
  <2>4. turnPc[u] = "store" => AboveIsSold(count[u])'
    <3>1. turnPc[u] = "store" => AboveIsSold(count[u]) BY <1>f, <2>1 DEF SellerInv
    <3>2. PICK a \in Int : a = count[u] BY <2>1
    <3>3. AboveIsSold(count[u]) => AboveIsSold(a) BY <1>f, <3>2
    <3>4. AboveIsSold(a)' => AboveIsSold(count[u])' BY <1>f, <3>2 DEF AboveIsSold
    <3>q. QED BY <1>f, <1>3, <3>1, <3>3, <3>4
  <2>5. count[u] >= 1 => count[u] >= 0 BY <2>1
  <2>q. QED BY <1>f, <1>p, <2>1, <2>2, <2>3, <2>4, <2>5 DEF SellerInv
<1>7. ~TellingAllDone' BY <1>f, <1>p, <1>t DEF TellingAllDone
<1>8. \A r \in Teller : turnPc'[r] # "in" BY <1>f, <1>p, <1>s
<1>9. \A k \in 1 .. Len(said') : said'[k][2] \in 0 .. Tickets
  <2>1. count[t] \in 0 .. Tickets BY <1>f, <1>c, <1>i DEF AboveIsSold
  <2>2. said'[Len(said) + 1][2] \in 0 .. Tickets BY <1>f, <1>l, <2>1
  <2>q. QED BY <1>f, <1>l, <1>s, <2>2
<1>10. \A r, z \in Teller : r # z => SellerInv(r, z)' BY <1>f, <1>5, <1>6, <1>w
<1>11. UnlockedSaleInv' BY <1>f, <1>4, <1>7, <1>8, <1>9, <1>10, <1>t DEF UnlockedSaleInv
<1>q. QED BY <1>f, <1>1, <1>11, OtherPrograms DEF TellingIInv

\* A seller without the lock stores the number it has loaded, less one.
LEMMA UnlockedSaleKeeps ==
  ASSUME TellingIInv, NEW t \in Teller, mythread_unlocked(t)
  PROVE  TellingIInv'
<1>1. SellerTests(t) \/ SellerLoads(t) \/ SellerStores(t)
  BY DEF mythread_unlocked, SellerTests, SellerLoads, SellerStores
<1>q. QED BY <1>1, SellerTestKeeps, SellerLoadKeeps, SellerStoreKeeps

\* After a number of its turn, t goes on or its turn is over.
LEMMA TurnGoesOn ==
  ASSUME TellingTypes, NEW t \in Teller, NEW whole \in Nat \ {0}, NEW label \in {"out", "done"},
         turnPc[t] = "in", teller = t, iSaid[t] < whole, EndOfTurn(t, whole, label)
  PROVE  /\ \A r \in Teller : r # t => turnPc'[r] = turnPc[r] /\ iSaid'[r] = iSaid[r]
         /\ \/ turnPc'[t] = "in" /\ teller' = t /\ iSaid'[t] = iSaid[t] + 1 /\ iSaid'[t] < whole
            \/ turnPc'[t] = label /\ teller' = 0 /\ iSaid'[t] = 0 /\ iSaid[t] + 1 = whole
         /\ teller' \in Teller \cup {0} /\ iSaid' \in [Teller -> Nat]
         /\ turnPc' \in [Teller -> {"out", "in", "load", "store", "done"}]
<1>n. iSaid[t] \in Nat BY DEF TellingTypes
<1>1. CASE Stays(t, whole)
  <2>1. iSaid' = [iSaid EXCEPT ![t] = iSaid[t] + 1] /\ UNCHANGED <<teller, turnPc>>
    BY <1>1 DEF EndOfTurn
  <2>2. iSaid[t] + 1 < whole BY <1>1 DEF Stays
  <2>3. iSaid[t] + 1 \in Nat BY <1>n
  <2>4. /\ iSaid' \in [Teller -> Nat] /\ iSaid'[t] = iSaid[t] + 1
        /\ \A r \in Teller : r # t => iSaid'[r] = iSaid[r]
    BY <2>1, <2>3 DEF TellingTypes
  <2>q. QED BY <2>1, <2>2, <2>4 DEF TellingTypes
<1>2. CASE ~Stays(t, whole)
  <2>1. iSaid' = [iSaid EXCEPT ![t] = 0] /\ teller' = 0 /\ turnPc' = [turnPc EXCEPT ![t] = label]
    BY <1>2 DEF EndOfTurn
  <2>2. iSaid[t] + 1 = whole BY <1>2, <1>n DEF Stays
  <2>3. /\ iSaid' \in [Teller -> Nat] /\ iSaid'[t] = 0
        /\ \A r \in Teller : r # t => iSaid'[r] = iSaid[r]
    BY <2>1 DEF TellingTypes
  <2>4. /\ turnPc' \in [Teller -> {"out", "in", "load", "store", "done"}]
        /\ turnPc'[t] = label /\ \A r \in Teller : r # t => turnPc'[r] = turnPc[r]
    BY <2>1 DEF TellingTypes
  <2>q. QED BY <2>1, <2>2, <2>3, <2>4
<1>q. QED BY <1>1, <1>2

\* The two threads of 02test.c: the numbers said are those of a turn that is over and of
\* the one that goes on.
LEMMA CountKeeps ==
  ASSUME TellingIInv, NEW t \in Teller, thr_demo(t)
  PROVE  TellingIInv'
<1>a. TellingTypes /\ CountInv BY DEF TellingIInv
<1>f. telling = "02test.c" /\ UNCHANGED <<telling, tickets, count>> BY DEF thr_demo
<1>t. Teller' = Teller BY <1>f DEF Teller
<1>b. Teller = 1 .. 2 /\ 0 \notin Teller /\ Numbers \in Nat \ {0} BY <1>f, TellingConstants
<1>u. PICK u \in Teller : u # t BY <1>b
<1>w. \A r \in Teller : r = t \/ r = u BY <1>b, <1>u
<1>i. /\ \A r \in Teller : TurnInv(r, Numbers) /\ iSaid[r] \in Nat
      /\ i_gloabl_n = Len(said) /\ Len(said) = SaidInTurn(t) + SaidInTurn(u) /\ Len(said) \in Nat
      /\ \A k \in 1 .. Len(said) : said[k][2] = k
      /\ \A k \in 1 .. Len(said) : said[k][1] = said[IF k <= Numbers THEN 1 ELSE Numbers + 1][1]
  <2>1. Len(said) = SaidInTurn(1) + SaidInTurn(2) BY <1>a, <1>f DEF CountInv
  <2>2. SaidInTurn(1) \in Nat /\ SaidInTurn(2) \in Nat BY <1>a, <1>b
                                                       DEF TellingTypes, SaidInTurn
  <2>3. Len(said) = SaidInTurn(t) + SaidInTurn(u)
    <3>1. (t = 1 /\ u = 2) \/ (t = 2 /\ u = 1) BY <1>b, <1>u
    <3>q. QED BY <2>1, <2>2, <3>1
  <2>4. \A r \in Teller : iSaid[r] \in Nat BY <1>a DEF TellingTypes
  <2>5. Len(said) \in Nat BY <2>1, <2>2
  <2>q. QED BY <1>a, <1>f, <2>3, <2>4, <2>5 DEF CountInv
<1>1. CASE turnPc[t] = "out"
  <2>1. /\ teller = 0 /\ teller' = t /\ turnPc' = [turnPc EXCEPT ![t] = "in"]
        /\ UNCHANGED <<i_gloabl_n, said, iSaid>>
    BY <1>1 DEF thr_demo, Take
  <2>2. TellingTypes' BY <1>a, <1>f, <1>t, <2>1 DEF TellingTypes
  <2>3. turnPc'[t] = "in" /\ \A r \in Teller : r # t => turnPc'[r] = turnPc[r]
    BY <1>a, <2>1 DEF TellingTypes
  <2>4. ASSUME NEW r \in Teller PROVE TurnInv(r, Numbers)' /\ SaidInTurn(r)' = SaidInTurn(r)
    <3>1. TurnInv(r, Numbers) BY <1>i
    <3>2. CASE r = t BY <1>1, <2>1, <2>3, <3>1, <3>2 DEF TurnInv, SaidInTurn
    <3>3. CASE r # t BY <1>b, <2>1, <2>3, <3>1, <3>3 DEF TurnInv, SaidInTurn
    <3>q. QED BY <3>2, <3>3
  <2>5. SaidInTurn(1)' = SaidInTurn(1) /\ SaidInTurn(2)' = SaidInTurn(2) BY <1>b, <2>4
  <2>7. Len(said') = SaidInTurn(1)' + SaidInTurn(2)' BY <1>a, <1>f, <2>1, <2>5 DEF CountInv
  <2>8. /\ i_gloabl_n' = Len(said') /\ \A k \in 1 .. Len(said') : said'[k][2] = k
        /\ \A k \in 1 .. Len(said') :
             said'[k][1] = said'[IF k <= Numbers THEN 1 ELSE Numbers + 1][1]
    BY <1>i, <2>1
  <2>9. \A r \in Teller : TurnInv(r, Numbers)' BY <2>4
  <2>6. CountInv' BY <1>t, <2>7, <2>8, <2>9 DEF CountInv
  <2>q. QED BY <1>f, <2>2, <2>6, OtherPrograms DEF TellingIInv
<1>2. CASE turnPc[t] = "in"
  <2>1. i_gloabl_n' = i_gloabl_n + 1 /\ Say(t, i_gloabl_n') /\ EndOfTurn(t, Numbers, "done")
    BY <1>2 DEF thr_demo
  <2>n. PICK n \in Nat : n = Len(said) BY <1>i
  <2>2. i_gloabl_n' = n + 1 /\ n + 1 \in Int /\ Say(t, n + 1) BY <1>i, <2>1, <2>n
  <2>l. /\ Len(said') = n + 1 /\ said'[n + 1] = <<t, n + 1>> /\ said' # <<>>
        /\ \A k \in 1 .. n : said'[k] = said[k]
        /\ \A k \in 1 .. Len(said') : k \in 1 .. n \/ k = n + 1
    BY <1>a, <1>f, <2>2, <2>n, OneMore
  <2>m. said' \in Seq(Teller' \X Int) BY <1>a, <1>f, <2>2, OneMore
  <2>h. teller = t /\ turnPc[u] # "in" /\ iSaid[u] = 0 /\ iSaid[t] < Numbers /\ iSaid[t] \in Nat
    <3>1. TurnInv(t, Numbers) /\ TurnInv(u, Numbers) BY <1>i
    <3>q. QED BY <1>2, <1>i, <1>u, <3>1 DEF TurnInv
  <2>d. /\ SaidInTurn(t) = iSaid[t] /\ SaidInTurn(u) \in {0, Numbers}
        /\ n = iSaid[t] + SaidInTurn(u)
    BY <1>2, <1>i, <2>h, <2>n DEF SaidInTurn
  <2>g. /\ \A r \in Teller : r # t => turnPc'[r] = turnPc[r] /\ iSaid'[r] = iSaid[r]
        /\ \/ turnPc'[t] = "in" /\ teller' = t /\ iSaid'[t] = iSaid[t] + 1 /\ iSaid'[t] < Numbers
           \/ turnPc'[t] = "done" /\ teller' = 0 /\ iSaid'[t] = 0 /\ iSaid[t] + 1 = Numbers
        /\ teller' \in Teller \cup {0} /\ iSaid' \in [Teller -> Nat]
        /\ turnPc' \in [Teller -> {"out", "in", "load", "store", "done"}]
    BY <1>2, <1>a, <1>b, <2>1, <2>h, TurnGoesOn
  <2>s. /\ \A r \in Teller : turnPc'[r] \in {"out", "in", "done"} /\ iSaid'[r] \in Nat
        /\ turnPc'[u] = turnPc[u] /\ iSaid'[u] = 0
    <3>1. \A r \in Teller : turnPc[r] \in {"out", "in", "done"} BY <1>i DEF TurnInv
    <3>2. \A r \in Teller : turnPc'[r] \in {"out", "in", "done"} BY <2>g, <3>1
    <3>q. QED BY <1>u, <2>g, <2>h, <3>2
  <2>3. TellingTypes'
    <3>1. i_gloabl_n' \in Nat BY <2>2
    <3>q. QED BY <1>a, <1>f, <1>t, <2>m, <2>g, <2>s, <3>1 DEF TellingTypes
  <2>4. TurnInv(t, Numbers)' /\ TurnInv(u, Numbers)'
    <3>1. said'[Len(said')][1] = t BY <2>l
    <3>2. TurnInv(t, Numbers)' BY <1>b, <2>l, <2>g, <2>s, <3>1 DEF TurnInv
    <3>3. u # 0 BY <1>b
    <3>4. TurnInv(u, Numbers)' BY <1>b, <1>u, <2>h, <2>g, <2>s, <3>3 DEF TurnInv
    <3>q. QED BY <3>2, <3>4
  <2>5. Len(said') = SaidInTurn(1)' + SaidInTurn(2)'
    <3>1. SaidInTurn(u)' = SaidInTurn(u) BY <2>h, <2>g, <2>s DEF SaidInTurn
    <3>2. SaidInTurn(t)' = iSaid[t] + 1 BY <2>g, <2>s DEF SaidInTurn
    <3>3. Len(said') = SaidInTurn(t)' + SaidInTurn(u)' BY <2>d, <2>h, <2>l, <3>1, <3>2, <1>b
    <3>4. (t = 1 /\ u = 2) \/ (t = 2 /\ u = 1) BY <1>b, <1>u
    <3>5. SaidInTurn(t)' \in Nat /\ SaidInTurn(u)' \in Nat BY <1>b, <2>d, <2>h, <3>1, <3>2
    <3>q. QED BY <3>3, <3>4, <3>5
  <2>6. \A k \in 1 .. Len(said') : said'[k][2] = k BY <1>i, <2>l, <2>n
  <2>7. ASSUME NEW k \in 1 .. Len(said')
        PROVE  said'[k][1] = said'[IF k <= Numbers THEN 1 ELSE Numbers + 1][1]
    <3>1. CASE k \in 1 .. n
      <4>1. PICK j : j = IF k <= Numbers THEN 1 ELSE Numbers + 1 OBVIOUS
      <4>2. j \in 1 .. n BY <1>b, <3>1, <4>1
      <4>3. said[k][1] = said[j][1] BY <1>i, <2>n, <3>1, <4>1
      <4>q. QED BY <2>l, <3>1, <4>1, <4>2, <4>3
    <3>2. CASE k = n + 1
      <4>1. said'[k][1] = t BY <2>l, <3>2
      <4>2. CASE n = 0 \/ n = Numbers
        <5>1. k = IF k <= Numbers THEN 1 ELSE Numbers + 1 BY <1>b, <3>2, <4>2
        <5>q. QED BY <5>1
      <4>3. CASE n # 0 /\ n # Numbers
        <5>1. iSaid[t] > 0 BY <1>b, <2>d, <2>h, <4>3
        <5>2. TurnInv(t, Numbers) BY <1>i
        <5>3. said[n][1] = t BY <2>n, <5>1, <5>2 DEF TurnInv
        <5>4. n <= Numbers <=> k <= Numbers BY <1>b, <3>2, <4>3
        <5>5. PICK j : j = IF n <= Numbers THEN 1 ELSE Numbers + 1 OBVIOUS
        <5>6. j \in 1 .. n /\ n \in 1 .. n BY <1>b, <4>3, <5>5
        <5>7. said[n][1] = said[j][1] BY <1>i, <2>n, <5>5, <5>6
        <5>8. said'[j][1] = t BY <2>l, <5>3, <5>6, <5>7
        <5>q. QED BY <4>1, <5>4, <5>5, <5>8
      <4>q. QED BY <4>2, <4>3
    <3>q. QED BY <2>l, <3>1, <3>2
  <2>8. i_gloabl_n' = Len(said') BY <2>2, <2>l
  <2>9. \A r \in Teller : TurnInv(r, Numbers)' BY <1>w, <2>4
  <2>10. CountInv' BY <1>t, <2>5, <2>6, <2>7, <2>8, <2>9 DEF CountInv
  <2>q. QED BY <1>f, <2>3, <2>10, OtherPrograms DEF TellingIInv
<1>q. QED BY <1>1, <1>2 DEF thr_demo

\* What each thread has said, after one more number of t.
LEMMA SaidByGrows ==
  ASSUME TellingTypes, NEW t \in Teller, NEW v \in Int, Say(t, v), telling' = telling
  PROVE  /\ SaidBy(t)' = SaidBy(t) \cup {Len(said) + 1}
         /\ \A r \in Teller : r # t => SaidBy(r)' = SaidBy(r)
         /\ \A r \in Teller : IsFiniteSet(SaidBy(r)) /\ SaidBy(r) \subseteq 1 .. Len(said)
         /\ Cardinality(SaidBy(t)') = Cardinality(SaidBy(t)) + 1
         /\ \A r \in Teller, k \in 1 .. Len(said) :
              {j \in SaidBy(r)' : j <= k} = {j \in SaidBy(r) : j <= k}
<1>l. PICK n \in Nat : n = Len(said) BY OneMore
<1>1. /\ Len(said') = n + 1 /\ said'[n + 1] = <<t, v>> /\ \A k \in 1 .. n : said'[k] = said[k]
      /\ \A k \in 1 .. Len(said') : k \in 1 .. n \/ k = n + 1
  BY <1>l, OneMore
<1>2. 1 .. n + 1 = 1 .. n \cup {n + 1} BY <1>l
<1>3. SaidBy(t)' = SaidBy(t) \cup {n + 1} BY <1>1, <1>2, <1>l DEF SaidBy
<1>4. \A r \in Teller : r # t => SaidBy(r)' = SaidBy(r) BY <1>1, <1>2, <1>l DEF SaidBy
<1>5. \A r \in Teller : SaidBy(r) \subseteq 1 .. n BY <1>l DEF SaidBy
<1>6. IsFiniteSet(1 .. n) BY FS_Interval
<1>7. \A r \in Teller : IsFiniteSet(SaidBy(r)) BY <1>5, <1>6, FS_Subset
<1>8. Cardinality(SaidBy(t)') = Cardinality(SaidBy(t)) + 1
  <2>1. n + 1 \notin SaidBy(t) BY <1>5
  <2>q. QED BY <1>3, <1>7, <2>1, FS_AddElement
<1>9. ASSUME NEW r \in Teller, NEW k \in 1 .. n
      PROVE  {j \in SaidBy(r)' : j <= k} = {j \in SaidBy(r) : j <= k}
  <2>1. ~(n + 1 <= k) BY <1>9
  <2>2. CASE r = t BY <1>3, <2>1, <2>2
  <2>3. CASE r # t BY <1>4, <2>3
  <2>q. QED BY <2>2, <2>3
<1>q. QED BY <1>3, <1>4, <1>5, <1>7, <1>8, <1>9, <1>l

\* q turns of t messages are over, of which there are Turns.
LEMMA TurnsOver ==
  ASSUME NEW t \in Nat \ {0}, NEW q \in 0 .. Turns
  PROVE  /\ q * t \in Nat /\ limit(t) = Turns * t /\ limit(t) \in Nat
         /\ q * t + 1 <= limit(t) <=> q < Turns
         /\ (q + 1) * t = q * t + t
<1>n. Turns \in Nat /\ q \in Nat BY TellingConstants
<1>1. limit(t) = Turns * t /\ Turns * t \in Nat /\ q * t \in Nat BY <1>n, SMTT(60) DEF limit
<1>2. (q + 1) * t = q * t + t BY <1>n, SMTT(60)
<1>3. q + 1 <= Turns => (q + 1) * t <= Turns * t BY <1>n, SMTT(60)
<1>4. PICK z \in Nat : z = q * t BY <1>1
<1>5. PICK h \in Nat : h = Turns * t BY <1>1
<1>6. q < Turns => z + t <= h
  <2>1. q < Turns => q + 1 <= Turns BY <1>n
  <2>q. QED BY <1>2, <1>3, <1>4, <1>5, <2>1
<1>7. q = Turns => z = h BY <1>4, <1>5
<1>8. q < Turns \/ q = Turns BY <1>n
<1>9. z + 1 <= h <=> q < Turns BY <1>6, <1>7, <1>8, <1>n
<1>q. QED BY <1>1, <1>2, <1>4, <1>5, <1>9

\* A step of t leaves the messages of another as they are.
LEMMA OthersKeepTurns ==
  ASSUME NEW t \in Teller, NEW r \in Teller, r # t, MessageInv(r), SaidBy(r)' = SaidBy(r),
         turnPc'[r] = turnPc[r], iSaid'[r] = iSaid[r], count'[r] = count[r],
         teller \in {0, t}, teller' \in {0, t}, said' = said \/ iSaid[r] = 0
  PROVE  MessageInv(r)'
<1>1. r # 0 BY TellingConstants
<1>2. TurnInv(r, r)' BY <1>1, TellingConstants DEF MessageInv, TurnInv
<1>q. QED BY <1>2 DEF MessageInv

\* A talker says a message of its turn.
LEMMA MessagesKeep ==
  ASSUME TellingIInv, NEW t \in Teller, workerThreadFunc(t)
  PROVE  TellingIInv'
<1>a. TellingTypes /\ MessagesInv BY DEF TellingIInv
<1>f. telling = "threadsAndMutexes.c" /\ UNCHANGED <<telling, tickets, i_gloabl_n>>
  BY DEF workerThreadFunc
<1>t. Teller' = Teller BY <1>f DEF Teller
<1>b. /\ t \in Nat \ {0} /\ 0 \notin Teller /\ Turns \in Nat \ {0} /\ count[t] \in Int
      /\ iSaid[t] \in Nat /\ Len(said) \in Nat
  BY <1>a, TellingConstants DEF TellingTypes
<1>s. /\ \A r \in Teller : MessageInv(r)
      /\ \A k \in 1 .. Len(said) : said[k][2] = Cardinality({j \in SaidBy(said[k][1]) : j <= k})
      /\ \A k \in 1 .. Len(said) :
           said[k][2] % said[k][1] # 0 =>
             IF k = Len(said) THEN teller = said[k][1] /\ count[teller] = said[k][2] + 1
                              ELSE said[k + 1] = <<said[k][1], said[k][2] + 1>>
  BY <1>a, <1>f DEF MessagesInv
<1>i. TurnInv(t, t) /\ count[t] = Cardinality(SaidBy(t)) + 1 BY <1>s DEF MessageInv
<1>q1. PICK q \in 0 .. Turns : /\ count[t] = q * t + iSaid[t] + 1
                               /\ turnPc[t] = "in" => q < Turns
                               /\ turnPc[t] = "done" => q = Turns
  BY <1>s DEF MessageInv
<1>x. PICK z \in Nat : z = q * t BY <1>b, TurnsOver
<1>y. /\ count[t] = z + iSaid[t] + 1 /\ (q + 1) * t = z + t
      /\ limit(t) \in Nat /\ (z + 1 <= limit(t) <=> q < Turns)
  BY <1>b, <1>q1, <1>x, TurnsOver
<1>1. CASE turnPc[t] = "out" /\ count[t] <= limit(t)
  <2>1. /\ teller = 0 /\ teller' = t /\ turnPc' = [turnPc EXCEPT ![t] = "in"]
        /\ UNCHANGED <<said, iSaid, count>>
    BY <1>1, <1>y, <1>b DEF workerThreadFunc, Take
  <2>2. TellingTypes' BY <1>a, <1>f, <1>t, <2>1 DEF TellingTypes
  <2>3. turnPc'[t] = "in" /\ \A r \in Teller : r # t => turnPc'[r] = turnPc[r]
    BY <1>a, <2>1 DEF TellingTypes
  <2>4. \A r : SaidBy(r)' = SaidBy(r) BY <2>1 DEF SaidBy
  <2>5. MessageInv(t)'
    <3>1. iSaid[t] = 0 BY <1>1, <1>i DEF TurnInv
    <3>2. q < Turns BY <1>1, <1>b, <1>y, <3>1
    <3>3. TurnInv(t, t)' BY <1>i, <2>1, <2>3, <3>1 DEF TurnInv
    <3>q. QED BY <1>i, <1>q1, <2>1, <2>3, <2>4, <3>2, <3>3 DEF MessageInv
  <2>6. \A r \in Teller : MessageInv(r)' BY <1>s, <2>1, <2>3, <2>4, <2>5, OthersKeepTurns
  <2>7. ASSUME NEW k \in 1 .. Len(said), said[k][2] % said[k][1] # 0
        PROVE  k # Len(said) /\ said[k + 1] = <<said[k][1], said[k][2] + 1>>
    <3>1. said[k][1] # 0
      <4>1. said[k] \in Teller \X Int BY <1>a DEF TellingTypes
      <4>q. QED BY <1>b, <4>1
    <3>q. QED BY <1>s, <2>1, <2>7, <3>1
  <2>8. MessagesInv' BY <1>s, <1>t, <2>1, <2>4, <2>6, <2>7 DEF MessagesInv
  <2>q. QED BY <1>f, <2>2, <2>8, OtherPrograms DEF TellingIInv
<1>2. CASE turnPc[t] = "out" /\ count[t] > limit(t)
  <2>1. turnPc' = [turnPc EXCEPT ![t] = "done"] /\ UNCHANGED <<said, iSaid, count, teller>>
    BY <1>2, <1>y, <1>b DEF workerThreadFunc
  <2>2. TellingTypes' BY <1>a, <1>f, <1>t, <2>1 DEF TellingTypes
  <2>3. turnPc'[t] = "done" /\ \A r \in Teller : r # t => turnPc'[r] = turnPc[r]
    BY <1>a, <2>1 DEF TellingTypes
  <2>4. \A r : SaidBy(r)' = SaidBy(r) BY <2>1 DEF SaidBy
  <2>5. MessageInv(t)'
    <3>1. iSaid[t] = 0 /\ teller # t BY <1>2, <1>i DEF TurnInv
    <3>2. ~(q < Turns) BY <1>2, <1>b, <1>y, <3>1
    <3>3. q = Turns BY <1>b, <3>2
    <3>4. TurnInv(t, t)' BY <1>i, <2>1, <2>3, <3>1 DEF TurnInv
    <3>q. QED BY <1>i, <1>q1, <2>1, <2>3, <2>4, <3>3, <3>4 DEF MessageInv
  <2>6. ASSUME NEW r \in Teller, r # t PROVE MessageInv(r)'
    <3>1. TurnInv(r, r)' BY <1>s, <2>1, <2>3, <2>6 DEF MessageInv, TurnInv
    <3>q. QED BY <1>s, <2>1, <2>3, <2>4, <2>6, <3>1 DEF MessageInv
  <2>7. \A r \in Teller : MessageInv(r)' BY <2>5, <2>6
  <2>8. MessagesInv' BY <1>s, <1>t, <2>1, <2>4, <2>7 DEF MessagesInv
  <2>q. QED BY <1>f, <2>2, <2>8, OtherPrograms DEF TellingIInv
<1>3. CASE turnPc[t] = "in"
  <2>1. /\ Say(t, count[t]) /\ count' = [count EXCEPT ![t] = count[t] + 1]
        /\ EndOfTurn(t, t, "out")
    BY <1>3 DEF workerThreadFunc, grouping
  <2>h. teller = t /\ iSaid[t] < t BY <1>3, <1>i DEF TurnInv
  <2>n. PICK n \in Nat : n = Len(said) BY <1>b
  <2>c. PICK c \in Int : c = count[t] BY <1>b
  <2>l. /\ Len(said') = n + 1 /\ said'[n + 1] = <<t, c>> /\ said' # <<>>
        /\ \A k \in 1 .. n : said'[k] = said[k]
        /\ \A k \in 1 .. Len(said') : k \in 1 .. n \/ k = n + 1
    BY <1>a, <1>b, <1>f, <2>1, <2>c, <2>n, OneMore
  <2>m. said' \in Seq(Teller' \X Int) BY <1>a, <1>b, <1>f, <2>1, OneMore
  <2>k. /\ \A r \in Teller : r # t => SaidBy(r)' = SaidBy(r)
        /\ SaidBy(t)' = SaidBy(t) \cup {n + 1} /\ SaidBy(t) \subseteq 1 .. n
        /\ Cardinality(SaidBy(t)') = Cardinality(SaidBy(t)) + 1
        /\ \A r \in Teller, k \in 1 .. n : {j \in SaidBy(r)' : j <= k} = {j \in SaidBy(r) : j <= k}
    BY <1>a, <1>b, <1>f, <2>1, <2>n, SaidByGrows
  <2>g. /\ \A r \in Teller : r # t => turnPc'[r] = turnPc[r] /\ iSaid'[r] = iSaid[r]
        /\ \/ turnPc'[t] = "in" /\ teller' = t /\ iSaid'[t] = iSaid[t] + 1 /\ iSaid'[t] < t
           \/ turnPc'[t] = "out" /\ teller' = 0 /\ iSaid'[t] = 0 /\ iSaid[t] + 1 = t
        /\ teller' \in Teller \cup {0} /\ iSaid' \in [Teller -> Nat]
        /\ turnPc' \in [Teller -> {"out", "in", "load", "store", "done"}]
    BY <1>3, <1>a, <1>b, <2>1, <2>h, TurnGoesOn
  <2>p. /\ count' \in [Teller -> Int] /\ count'[t] = c + 1
        /\ \A r \in Teller : r # t => count'[r] = count[r]
    <3>1. count' = [count EXCEPT ![t] = c + 1] /\ c + 1 \in Int BY <2>1, <2>c
    <3>q. QED BY <1>a, <3>1 DEF TellingTypes
  <2>2. TellingTypes' BY <1>a, <1>f, <1>t, <2>g, <2>m, <2>p DEF TellingTypes
  <2>3. TurnInv(t, t)'
    <3>1. said'[Len(said')][1] = t BY <2>l
    <3>q. QED BY <1>b, <2>g, <2>l, <3>1 DEF TurnInv
  <2>4. \E p \in 0 .. Turns : /\ c + 1 = p * t + iSaid'[t] + 1
                              /\ turnPc'[t] = "in" => p < Turns
                              /\ turnPc'[t] = "done" => p = Turns
    <3>1. CASE turnPc'[t] = "in"
      <4>1. iSaid'[t] = iSaid[t] + 1 BY <2>g, <3>1
      <4>2. c + 1 = q * t + iSaid'[t] + 1 BY <1>b, <1>x, <1>y, <2>c, <4>1
      <4>q. QED BY <1>3, <1>q1, <3>1, <4>2
    <3>2. CASE turnPc'[t] = "out"
      <4>1. iSaid'[t] = 0 /\ iSaid[t] + 1 = t BY <2>g, <3>2
      <4>2. c + 1 = (q + 1) * t + iSaid'[t] + 1 BY <1>b, <1>x, <1>y, <2>c, <4>1
      <4>3. q + 1 \in 0 .. Turns BY <1>3, <1>b, <1>q1
      <4>q. QED BY <3>2, <4>2, <4>3
    <3>q. QED BY <2>g, <3>1, <3>2
  <2>5. count'[t] = Cardinality(SaidBy(t)') + 1 BY <1>i, <2>c, <2>k, <2>p
  <2>6. MessageInv(t)' BY <2>3, <2>4, <2>5, <2>p DEF MessageInv
  <2>7. ASSUME NEW r \in Teller, r # t PROVE MessageInv(r)'
    <3>1. iSaid[r] = 0 BY <1>s, <2>7, <2>h DEF MessageInv, TurnInv
    <3>2. teller \in {0, t} /\ teller' \in {0, t} BY <2>g, <2>h
    <3>q. QED BY <1>s, <2>7, <2>g, <2>k, <2>p, <3>1, <3>2, OthersKeepTurns
  <2>8. ASSUME NEW k \in 1 .. Len(said')
        PROVE  (said[k][2] = Cardinality({j \in SaidBy(said[k][1]) : j <= k}))'
    <3>1. CASE k \in 1 .. n
      <4>1. PICK r \in Teller : r = said[k][1]
        <5>1. said[k] \in Teller \X Int BY <1>a, <2>n, <3>1 DEF TellingTypes
        <5>q. QED BY <5>1
      <4>2. said'[k] = said[k] BY <2>l, <3>1
      <4>3. said[k][2] = Cardinality({j \in SaidBy(r) : j <= k}) BY <1>s, <2>n, <3>1, <4>1
      <4>4. {j \in SaidBy(r)' : j <= k} = {j \in SaidBy(r) : j <= k} BY <2>k, <3>1
      <4>5. said'[k][2] = Cardinality({j \in SaidBy(r)' : j <= k}) BY <4>2, <4>3, <4>4
      <4>q. QED BY <4>1, <4>2, <4>5 DEF SaidBy
    <3>2. CASE k = n + 1
      <4>1. said'[k][1] = t /\ said'[k][2] = c BY <2>l, <3>2
      <4>2. {j \in SaidBy(t)' : j <= k} = SaidBy(t)' BY <2>k, <3>2
      <4>3. c = Cardinality(SaidBy(t)') BY <1>i, <2>c, <2>k
      <4>4. said'[k][2] = Cardinality({j \in SaidBy(t)' : j <= k}) BY <4>1, <4>2, <4>3
      <4>q. QED BY <4>1, <4>4 DEF SaidBy
    <3>q. QED BY <2>l, <3>1, <3>2
  <2>9. ASSUME NEW k \in 1 .. Len(said'), said'[k][2] % said'[k][1] # 0
        PROVE  IF k = Len(said') THEN teller' = said'[k][1] /\ count'[teller'] = said'[k][2] + 1
                                 ELSE said'[k + 1] = <<said'[k][1], said'[k][2] + 1>>
    <3>1. CASE k = n + 1
      <4>1. said'[k][1] = t /\ said'[k][2] = c BY <2>l, <3>1
      <4>2. turnPc'[t] # "out"
        <5>1. ASSUME turnPc'[t] = "out" PROVE c % t = 0
          <6>1. iSaid[t] + 1 = t BY <2>g, <5>1
          <6>2. c = (q + 1) * t + 0 BY <1>b, <1>y, <2>c, <6>1
          <6>3. q + 1 \in Nat /\ 0 \in 0 .. t - 1 BY <1>b
          <6>4. ((q + 1) * t + 0) % t = 0 BY <1>b, <6>3, RemainderOf
          <6>q. QED BY <6>2, <6>4
        <5>q. QED BY <2>9, <4>1, <5>1
      <4>3. teller' = t BY <2>g, <4>2
      <4>q. QED BY <2>l, <2>p, <3>1, <4>1, <4>3
    <3>2. CASE k \in 1 .. n
      <4>1. said'[k] = said[k] /\ said[k][2] % said[k][1] # 0 BY <2>9, <2>l, <3>2
      <4>2. CASE k = n
        <5>1. teller = said[k][1] /\ count[teller] = said[k][2] + 1 BY <1>s, <2>n, <3>2, <4>1,
                                                                       <4>2
        <5>2. said'[k + 1] = <<said[k][1], said[k][2] + 1>> BY <2>c, <2>h, <2>l, <4>2, <5>1
        <5>q. QED BY <2>l, <4>1, <4>2, <5>2
      <4>3. CASE k # n
        <5>1. said[k + 1] = <<said[k][1], said[k][2] + 1>> BY <1>s, <2>n, <3>2, <4>1, <4>3
        <5>2. k + 1 \in 1 .. n /\ k # n + 1 BY <3>2, <4>3
        <5>q. QED BY <2>l, <4>1, <5>1, <5>2
      <4>q. QED BY <4>2, <4>3
    <3>q. QED BY <2>l, <3>1, <3>2
  <2>10. \A r \in Teller : MessageInv(r)' BY <2>6, <2>7
  <2>11. MessagesInv' BY <1>t, <2>8, <2>9, <2>10 DEF MessagesInv
  <2>q. QED BY <1>f, <2>2, <2>11, OtherPrograms DEF TellingIInv
<1>q. QED BY <1>1, <1>2, <1>3 DEF workerThreadFunc

\* Every step of the three programs keeps the invariant.
LEMMA TellingStep == TellingIInv /\ [TellingNext]_announcementVars => TellingIInv'
<1> SUFFICES ASSUME TellingIInv, [TellingNext]_announcementVars PROVE TellingIInv' OBVIOUS
<1>1. ASSUME NEW t \in Teller, tell(t) PROVE TellingIInv'
  BY <1>1, SaleKeeps, UnlockedSaleKeeps, CountKeeps, MessagesKeep DEF tell
<1>2. CASE UNCHANGED announcementVars
  <2>1. UNCHANGED <<telling, tickets, i_gloabl_n, said, teller, turnPc, iSaid, count>>
    BY <1>2 DEF announcementVars
  <2>2. Teller' = Teller /\ TellingAllDone' = TellingAllDone BY <2>1 DEF Teller, TellingAllDone
  <2>3. \A t : SaidBy(t)' = SaidBy(t) BY <2>1 DEF SaidBy
  <2>4. TellingTypes' BY <2>1, <2>2 DEF TellingIInv, TellingTypes
  <2>5. SaleInv' BY <2>1, <2>2 DEF TellingIInv, SaleInv
  <2>6. UnlockedSaleInv'
    <3>1. \A a : AboveIsSold(a)' <=> AboveIsSold(a) BY <2>1 DEF AboveIsSold, IsSold
    <3>2. \A t, u : SellerInv(t, u) => SellerInv(t, u)' BY <2>1
                                                        DEF SellerInv, AboveIsSold, IsSold
    <3>3. AboveIsSold(tickets) => AboveIsSold(tickets)' BY <2>1 DEF AboveIsSold, IsSold
    <3>q. QED BY <2>1, <2>2, <3>2, <3>3 DEF TellingIInv, UnlockedSaleInv
  <2>7. CountInv'
    <3>1. \A t : TurnInv(t, Numbers) => TurnInv(t, Numbers)' BY <2>1 DEF TurnInv
    <3>2. SaidInTurn(1)' = SaidInTurn(1) /\ SaidInTurn(2)' = SaidInTurn(2)
      BY <2>1 DEF SaidInTurn
    <3>q. QED BY <2>1, <2>2, <3>1, <3>2 DEF TellingIInv, CountInv
  <2>8. MessagesInv'
    <3>1. \A t : MessageInv(t) => MessageInv(t)' BY <2>1, <2>3 DEF MessageInv, TurnInv
    <3>q. QED BY <2>1, <2>2, <2>3, <3>1 DEF TellingIInv, MessagesInv
  <2>q. QED BY <2>4, <2>5, <2>6, <2>7, <2>8 DEF TellingIInv
<1>q. QED BY <1>1, <1>2 DEF TellingNext, TellingTerminated

\* What the programs say, from where they are.
LEMMA AnnouncementsAreRight == TellingIInv => AnnouncementsInv
<1> SUFFICES ASSUME TellingIInv PROVE AnnouncementsInv OBVIOUS
<1>a. TellingTypes /\ SaleInv /\ UnlockedSaleInv /\ CountInv /\ MessagesInv BY DEF TellingIInv
<1>n. Len(said) \in Nat /\ DOMAIN said = 1 .. Len(said) /\ Tickets \in Nat /\ Numbers \in Nat
  BY <1>a, TellingConstants DEF TellingTypes
<1>l. PICK len \in Nat : len = Len(said) BY <1>n
<1>1. TellingTypeOK
  <2>1. \A p \in Range(said) : p[1] \in Teller /\ p[2] \in Int
    <3>1. ASSUME NEW k \in 1 .. Len(said) PROVE said[k][1] \in Teller /\ said[k][2] \in Int
      <4>1. said[k] \in Teller \X Int BY <1>a DEF TellingTypes
      <4>q. QED BY <4>1
    <3>q. QED BY <1>n, <3>1 DEF Range
  <2>q. QED BY <1>a, <2>1 DEF TellingTypes, TellingTypeOK
<1>2. TicketsAreSold
  <2>1. ASSUME telling = "tickets"
        PROVE  /\ Told = [k \in 1 .. Len(said) |-> Tickets + 1 - k]
               /\ TellingAllDone => Len(said) = Tickets
    <3>1. Told = [k \in 1 .. Len(said) |-> Tickets + 1 - k] BY <1>a, <2>1 DEF SaleInv, Told
    <3>2. ASSUME TellingAllDone PROVE Len(said) = Tickets
      <4>1. 1 \in Teller BY <2>1, TellingConstants
      <4>2. 0 = Tickets - len
        BY <1>a, <1>l, <2>1, <3>2, <4>1 DEF SaleInv, TellingAllDone
      <4>3. len = Tickets BY <1>n, <4>2
      <4>q. QED BY <1>l, <4>3
    <3>q. QED BY <3>1, <3>2
  <2>2. ASSUME telling = "tickets_unlocked"
        PROVE  /\ Range(Told) \subseteq 0 .. Tickets
               /\ TellingAllDone => 1 .. Tickets \subseteq Range(Told)
    <3>1. /\ AboveIsSold(tickets) /\ (TellingAllDone => tickets <= 0) /\ tickets \in Int
          /\ \A k \in 1 .. Len(said) : said[k][2] \in 0 .. Tickets
      BY <1>a, <2>2 DEF UnlockedSaleInv, TellingTypes
    <3>2. Range(Told) \subseteq 0 .. Tickets BY <3>1 DEF Range, Told
    <3>3. ASSUME TellingAllDone, NEW v \in 1 .. Tickets PROVE v \in Range(Told)
      <4>1. v > tickets BY <3>1, <3>3
      <4>2. IsSold(v) BY <3>1, <4>1 DEF AboveIsSold
      <4>q. QED BY <4>2 DEF IsSold, Range, Told
    <3>q. QED BY <3>2, <3>3
  <2>q. QED BY <2>1, <2>2 DEF TicketsAreSold
<1>3. CountsOn
  <2>1. SUFFICES ASSUME telling = "02test.c"
                 PROVE  /\ Told = [k \in 1 .. Len(said) |-> k]
                        /\ \A k \in 1 .. Len(said) :
                             said[k][1] = said[IF k <= Numbers THEN 1 ELSE Numbers + 1][1]
                        /\ TellingAllDone => Len(said) = 2 * Numbers
    BY DEF CountsOn
  <2>2. Told = [k \in 1 .. Len(said) |-> k] BY <1>a, <2>1 DEF CountInv, Told
  <2>3. \A k \in 1 .. Len(said) : said[k][1] = said[IF k <= Numbers THEN 1 ELSE Numbers + 1][1]
    BY <1>a, <2>1 DEF CountInv
  <2>4. ASSUME TellingAllDone PROVE Len(said) = 2 * Numbers
    <3>1. 1 \in Teller /\ 2 \in Teller BY <2>1, TellingConstants
    <3>2. SaidInTurn(1) = Numbers /\ SaidInTurn(2) = Numbers
      BY <2>4, <3>1 DEF TellingAllDone, SaidInTurn
    <3>3. Len(said) = SaidInTurn(1) + SaidInTurn(2) BY <1>a, <2>1 DEF CountInv
    <3>q. QED BY <1>n, <3>2, <3>3
  <2>q. QED BY <2>2, <2>3, <2>4
<1>4. TurnsAreWhole
  <2>1. SUFFICES ASSUME telling = "threadsAndMutexes.c"
                 PROVE  /\ \A k \in 1 .. Len(said) :
                             said[k][2] = Cardinality({j \in SaidBy(said[k][1]) : j <= k})
                        /\ \A t \in Teller : turnPc[t] = "done" => Cardinality(SaidBy(t)) = limit(t)
                        /\ \A k \in 1 .. Len(said) - 1 :
                             said[k][2] % grouping(said[k][1]) # 0 =>
                               said[k + 1] = <<said[k][1], said[k][2] + 1>>
    BY DEF TurnsAreWhole
  <2>2. \A k \in 1 .. Len(said) : said[k][2] = Cardinality({j \in SaidBy(said[k][1]) : j <= k})
    BY <1>a, <2>1 DEF MessagesInv
  <2>3. ASSUME NEW t \in Teller, turnPc[t] = "done" PROVE Cardinality(SaidBy(t)) = limit(t)
    <3>1. MessageInv(t) BY <1>a, <2>1 DEF MessagesInv
    <3>2. PICK q \in 0 .. Turns : count[t] = q * t + iSaid[t] + 1 /\ q = Turns
      BY <2>3, <3>1 DEF MessageInv
    <3>3. iSaid[t] = 0 BY <2>3, <3>1 DEF MessageInv, TurnInv
    <3>4. q * t = limit(t) /\ limit(t) \in Nat BY <3>2, TellingConstants, TurnsOver
    <3>5. PICK c : c = Cardinality(SaidBy(t)) OBVIOUS
    <3>6. c \in Nat
      <4>1. IsFiniteSet(1 .. Len(said)) BY <1>n, FS_Interval
      <4>2. SaidBy(t) \subseteq 1 .. Len(said) BY DEF SaidBy
      <4>q. QED BY <3>5, <4>1, <4>2, FS_Subset, FS_CardinalityType
    <3>7. count[t] = c + 1 BY <3>1, <3>5 DEF MessageInv
    <3>q. QED BY <3>2, <3>3, <3>4, <3>5, <3>6, <3>7
  <2>4. ASSUME NEW k \in 1 .. Len(said) - 1, said[k][2] % grouping(said[k][1]) # 0
        PROVE  said[k + 1] = <<said[k][1], said[k][2] + 1>>
    <3>1. k \in 1 .. len /\ k # len
      <4>1. k \in 1 .. len - 1 BY <1>l
      <4>q. QED BY <4>1
    <3>q. QED BY <1>a, <1>l, <2>1, <2>4, <3>1 DEF MessagesInv, grouping
  <2>q. QED BY <2>2, <2>3, <2>4
<1>q. QED BY <1>1, <1>2, <1>3, <1>4 DEF AnnouncementsInv

\* What the programs say is right: tickets are sold once, and without the lock at least
\* once; numbers follow each other; the messages of a turn stand together.
THEOREM NumbersAreSaid == TellingSpec => []AnnouncementsInv
<1>1. TellingIInv /\ [TellingNext]_announcementVars => TellingIInv' BY TellingStep
<1>q. QED BY <1>1, TellingStart, AnnouncementsAreRight, PTL DEF TellingSpec

\* The programs that share data, for any constants: tickets and messages, records, the
\* buckets of a table, lists of words and the buttons of a game.
THEOREM SharedDataIsSafe ==
  TellingSpec /\ RecordsSpec /\ TableSpec /\ WordsSpec /\ ModeSpec => []SharedDataInv
<1>1. AnnouncementsInv /\ RecordsInv /\ HashTableInv /\ WordListsInv /\ ModeExtraInv =>
        SharedDataInv
  BY DEF SharedDataInv
<1>q. QED BY <1>1, NumbersAreSaid, RecordsAreWhole, NoKeyIsMissed, BlocksAreKept, GameIsFair,
             PTL
=============================================================================
