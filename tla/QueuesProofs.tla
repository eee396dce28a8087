---------------------------- MODULE QueuesProofs ----------------------------
(***************************************************************************)
(* Proofs about the programs that put work into a queue under a mutex: the *)
(* task queue of pth_pool.c, the cyclic queue of the actor of              *)
(* queue_cyclic.c, the two memories of pc_ocm.c and the counter of         *)
(* 06test_pro_con.c.                                                       *)
(***************************************************************************)
EXTENDS ThreadPool, ActorQueue, Overrun, SequenceTheorems, FiniteSetTheorems, TLAPS

(***************************************************************************)
(* For every number of workers, size of the queue and schedule: TypeOK,    *)
(* NoStrandedTask and NoStrandedSubmitter are invariants of ThreadPool,    *)
(* and the queue is a FifoChannel.                                         *)
(***************************************************************************)

Thread == Worker \cup {"main"}

Inside == {"put", "take", "count"}

\* A thread is inside exactly when it owns the mutex, and asleep only when it waits.
LockInv ==
  /\ pc["main"] \in {"submit", "put", "wait", "signal", "returned"}
  /\ \A w \in Worker : pc[w] \in {"get", "take", "count", "wait", "signal", "run", "exited"}
  /\ \A t \in Thread : pc[t] \in Inside <=> mutex = t
  /\ "main" \in condFull => pc["main"] = "wait"
  /\ \A w \in condEmpty : pc[w] = "wait"
  /\ \A w \in Worker : pc[w] = "count" => taskCount > 0
  /\ pc["main"] \in {"put", "wait", "signal"} => i < Len(submissions)

\* A worker that has left getTask has a task.
TaskInv == \A w \in Worker : pc[w] \in {"count", "signal", "run"} => task[w] \in Task

\* The tasks submitted, and those of them not yet taken.
Sent    == IF pc["main"] = "signal" THEN i + 1 ELSE i
Pending == IF \E w \in Worker : pc[w] = "count" THEN taskCount - 1 ELSE taskCount

\* What has been taken is what was submitted first, and the queue holds the rest.
QueueInv ==
  /\ Len(taken) + Pending = Sent
  /\ \A k \in 1 .. Len(taken) : taken[k] = submissions[k]
  /\ \A k \in 0 .. Pending - 1 : taskQueue[k] = submissions[Len(taken) + k + 1]

\* The workers on their way to a task.
Hungry == {w \in Worker : \/ pc[w] \in {"get", "take", "count"}
                          \/ pc[w] = "wait" /\ w \notin condEmpty}

\* While a worker sleeps there is somebody on the way for every task, or main() is
\* about to wake one up: a worker goes to sleep when there is no task at all, and
\* each task submitted from then on wakes up another.
WakeInv ==
  condEmpty # {} =>
    taskCount <= Cardinality(Hungry) + (IF pc["main"] = "signal" THEN 1 ELSE 0)

\* The workers that have taken a Stop, and the places of the first n tasks that are Stops.
Stopping == {w \in Worker : \/ pc[w] = "exited"
                            \/ pc[w] \in {"count", "signal", "run"} /\ task[w] = Stop}
Stops(n) == {k \in 1 .. n : submissions[k] = Stop}

\* A worker that leaves takes one Stop with it.
StopInv == Cardinality(Stopping) = Cardinality(Stops(Len(taken)))

IInv == /\ TypeOK /\ LockInv /\ TaskInv /\ QueueInv /\ WakeInv /\ StopInv
        /\ NoStrandedSubmitter
-----------------------------------------------------------------------------
\* What a schedule is made of.
LEMMA ScheduleIs ==
  ASSUME NEW s \in Schedules
  PROVE  /\ s \in Seq(Int) /\ Len(s) \in Nat
         /\ \A k \in 1 .. Len(s) : s[k] \in Int /\ s[k] \in Task
<1>1. s \in Seq(Int) /\ Len(s) \in Nat
  BY PoolAssumption
<1>2. ASSUME NEW k \in 1 .. Len(s) PROVE s[k] \in Int /\ s[k] \in Task
  BY <1>1, <1>2 DEF Task
<1> QED
  BY <1>1, <1>2

\* Sets of workers and of places are finite.
LEMMA CountsAreNat ==
  ASSUME NEW S \in SUBSET Worker
  PROVE  IsFiniteSet(S) /\ Cardinality(S) \in Nat
  BY PoolAssumption, FS_Subset, FS_CardinalityType

\* The stop tasks among the first n that were submitted can be counted.
LEMMA StopsAreFinite ==
  ASSUME NEW n \in Nat
  PROVE  IsFiniteSet(Stops(n)) /\ Cardinality(Stops(n)) \in Nat
<1>1. IsFiniteSet(1 .. n) /\ Stops(n) \in SUBSET (1 .. n)
  BY FS_Interval DEF Stops
<1>2. IsFiniteSet(Stops(n))
  BY <1>1, FS_Subset
<1> QED
  BY <1>2, FS_CardinalityType

\* A worker more or less in a set of workers.
LEMMA OneMore ==
  ASSUME NEW S \in SUBSET Worker, NEW w \in Worker, w \notin S
  PROVE  Cardinality(S \cup {w}) = Cardinality(S) + 1
  BY CountsAreNat, FS_AddElement

\* One sleeper less.
LEMMA OneLess ==
  ASSUME NEW S \in SUBSET Worker, NEW w \in S
  PROVE  Cardinality(S \ {w}) = Cardinality(S) - 1
  BY CountsAreNat, FS_RemoveElement
-----------------------------------------------------------------------------
\* The pool starts with all workers awake and nothing submitted.
LEMMA InitInv == Init => IInv
<1> SUFFICES ASSUME Init PROVE IInv
  OBVIOUS
<1> USE PoolAssumption DEF Init, NoThread
<1>1. /\ taken = <<>> /\ Len(taken) = 0 /\ taskCount = 0 /\ condEmpty = {} /\ condFull = {}
      /\ \A w \in Worker : pc[w] = "get"
      /\ pc["main"] = "submit"
  OBVIOUS
<1>2. TypeOK
  <2>1. Len(submissions) \in Nat
    BY ScheduleIs
  <2>2. taskCount \in 0 .. BUFFER_SIZE
    OBVIOUS
  <2>3. taken \in Seq(Task)
    OBVIOUS
  <2> QED
    BY <2>1, <2>2, <2>3 DEF TypeOK
<1>3. LockInv /\ TaskInv
  BY DEF LockInv, Thread, Inside, TaskInv
<1>4. QueueInv
  <2>1. Pending = 0 /\ Sent = 0
    BY <1>1 DEF Pending, Sent
  <2> QED
    BY <1>1, <2>1 DEF QueueInv
<1>5. WakeInv /\ NoStrandedSubmitter
  BY <1>1 DEF WakeInv, NoStrandedSubmitter
<1>6. StopInv
  <2>1. Stopping = {} /\ Stops(0) = {}
    BY <1>1 DEF Stopping, Stops
  <2> QED
    BY <1>1, <2>1 DEF StopInv
<1> QED
  BY <1>2, <1>3, <1>4, <1>5, <1>6 DEF IInv
-----------------------------------------------------------------------------
\* The steps between which the proofs distinguish.
LEMMA Steps ==
  ASSUME [Next]_vars
  PROVE  \/ SubmitLock \/ SubmitWait \/ SubmitResume \/ SubmitPut \/ SubmitSignal \/ Join
         \/ \E w \in Worker : \/ GetLock(w) \/ GetWait(w) \/ GetResume(w) \/ GetTake(w)
                              \/ GetCount(w) \/ GetSignal(w) \/ Execute(w) \/ Terminate(w)
         \/ SpuriousWakeup \/ UNCHANGED vars
  BY DEF Next, Main, Work, Terminated

\* Who owns the mutex, who sleeps and how far main() is.
LEMMA LockStep == TypeOK /\ LockInv /\ [Next]_vars => LockInv'
<1> SUFFICES ASSUME TypeOK, LockInv, [Next]_vars PROVE LockInv'
  OBVIOUS
<1> USE PoolAssumption DEF TypeOK, LockInv, Thread, Inside, NoThread, Goto, queue, sync, local
<1>0. Len(submissions) \in Nat
  BY ScheduleIs
<1>1. CASE SubmitLock
  BY <1>0, <1>1 DEF SubmitLock, Lock
<1>2. CASE SubmitWait
  BY <1>2 DEF SubmitWait, CondWait
<1>3. CASE SubmitResume
  BY <1>3 DEF SubmitResume, CondResume
<1>4. CASE SubmitPut
  BY <1>4 DEF SubmitPut, Unlock
<1>5. CASE SubmitSignal
  BY <1>5 DEF SubmitSignal, CondSignal
<1>6. CASE Join
  BY <1>6 DEF Join
<1>7. ASSUME NEW w \in Worker, GetLock(w) PROVE LockInv'
  BY <1>7 DEF GetLock, Lock
<1>8. ASSUME NEW w \in Worker, GetWait(w) PROVE LockInv'
  BY <1>8 DEF GetWait, CondWait
<1>9. ASSUME NEW w \in Worker, GetResume(w) PROVE LockInv'
  BY <1>9 DEF GetResume, CondResume
<1>10. ASSUME NEW w \in Worker, GetTake(w) PROVE LockInv'
  BY <1>10 DEF GetTake
<1>11. ASSUME NEW w \in Worker, GetCount(w) PROVE LockInv'
  BY <1>11 DEF GetCount, Unlock
<1>12. ASSUME NEW w \in Worker, GetSignal(w) PROVE LockInv'
  BY <1>12 DEF GetSignal, CondSignal
<1>13. ASSUME NEW w \in Worker, Execute(w) \/ Terminate(w) PROVE LockInv'
  <2>1. PICK l \in {"get", "exited"} : Goto(w, l)
    BY <1>13 DEF Execute, Terminate
  <2>2. pc[w] = "run" /\ mutex # w /\ UNCHANGED <<queue, sync, i, submissions>>
    BY <1>13 DEF Execute, Terminate, local
  <2> QED  BY <2>1, <2>2
<1>14. CASE SpuriousWakeup
  BY <1>14 DEF SpuriousWakeup, Spurious
<1>15. CASE UNCHANGED vars
  BY <1>15 DEF vars
<1> QED
  BY <1>1, <1>2, <1>3, <1>4, <1>5, <1>6, <1>7, <1>8, <1>9, <1>10, <1>11, <1>12, <1>13,
     <1>14, <1>15, Steps

\* What a step does to the tasks submitted and not yet taken.
LEMMA StepsOfTheQueue ==
  ASSUME TypeOK, LockInv, [Next]_vars
  PROVE  /\ submissions' = submissions
         /\ \/ /\ SubmitPut
               /\ Sent = i /\ Sent' = i + 1 /\ taken' = taken
               /\ Pending = taskCount /\ Pending' = taskCount + 1
            \/ /\ \E w \in Worker : GetTake(w)
               /\ Sent' = Sent /\ taken' = Append(taken, taskQueue[0])
               /\ Pending = taskCount /\ Pending' = taskCount - 1
            \/ /\ Sent' = Sent /\ taken' = taken
               /\ Pending' = Pending /\ taskQueue' = taskQueue
<1> USE PoolAssumption DEF TypeOK, LockInv, Thread, Inside, NoThread, Goto, queue, sync, local,
                           Sent, Pending
<1>1. CASE SubmitLock \/ SubmitWait \/ SubmitResume \/ Join
  BY <1>1 DEF SubmitLock, SubmitWait, SubmitResume, Join
<1>2. CASE SubmitPut
  BY <1>2 DEF SubmitPut
<1>3. CASE SubmitSignal
  BY <1>3 DEF SubmitSignal
<1>4. ASSUME NEW w \in Worker, GetTake(w) PROVE \/ /\ submissions' = submissions
               /\ Sent' = Sent /\ taken' = Append(taken, taskQueue[0])
               /\ Pending = taskCount /\ Pending' = taskCount - 1
  BY <1>4 DEF GetTake
<1>5. ASSUME NEW w \in Worker, GetCount(w)
      PROVE  /\ submissions' = submissions /\ Sent' = Sent /\ taken' = taken
             /\ Pending' = Pending /\ taskQueue' = taskQueue
  BY <1>5 DEF GetCount
<1>6. ASSUME NEW w \in Worker,
             \/ GetLock(w) \/ GetWait(w) \/ GetResume(w) \/ GetSignal(w)
             \/ Execute(w) \/ Terminate(w)
      PROVE  /\ submissions' = submissions /\ Sent' = Sent /\ taken' = taken
             /\ Pending' = Pending /\ taskQueue' = taskQueue
  BY <1>6 DEF GetLock, GetWait, GetResume, GetSignal, Execute, Terminate
<1>7. CASE SpuriousWakeup \/ UNCHANGED vars
  BY <1>7 DEF SpuriousWakeup, vars
<1> QED
  BY <1>1, <1>2, <1>3, <1>4, <1>5, <1>6, <1>7, Steps

\* The first task of the queue, when there is one to take.
LEMMA FirstTask ==
  ASSUME TypeOK, LockInv, QueueInv, Pending > 0
  PROVE  /\ Len(taken) + 1 \in 1 .. Len(submissions)
         /\ taskQueue[0] = submissions[Len(taken) + 1] /\ taskQueue[0] \in Task
<1>1. /\ Len(taken) \in Nat /\ Len(submissions) \in Nat /\ Pending \in Int
      /\ Sent \in Nat /\ Sent <= Len(submissions)
  BY ScheduleIs, LenProperties DEF TypeOK, LockInv, Sent, Pending
<1>2. Len(taken) + 1 \in 1 .. Len(submissions)
  BY <1>1 DEF QueueInv
<1>3. taskQueue[0] = submissions[Len(taken) + 0 + 1]
  BY <1>1 DEF QueueInv
<1> QED
  BY <1>1, <1>2, <1>3, ScheduleIs DEF TypeOK

\* Every step keeps the variables in their sets.
LEMMA TypeStep == TypeOK /\ LockInv /\ TaskInv /\ QueueInv /\ [Next]_vars => TypeOK'
<1> SUFFICES ASSUME TypeOK, LockInv, TaskInv, QueueInv, [Next]_vars PROVE TypeOK'
  OBVIOUS
<1> USE PoolAssumption DEF TypeOK, Goto, queue, sync, local
<1>0. /\ Len(submissions) \in Nat
      /\ \A k \in 1 .. Len(submissions) : submissions[k] \in Task
  BY ScheduleIs
<1>1. CASE SubmitLock
  BY <1>1 DEF SubmitLock, Lock
<1>2. CASE SubmitWait
  BY <1>2 DEF SubmitWait, CondWait
<1>3. CASE SubmitResume
  BY <1>3 DEF SubmitResume, CondResume
<1>4. CASE SubmitPut
  <2>1. taskCount \in 0 .. BUFFER_SIZE - 1 /\ submissions[i + 1] \in Task
    BY <1>0, <1>4 DEF SubmitPut, QueueFull, LockInv
  <2> QED
    BY <1>4, <2>1 DEF SubmitPut, Unlock
<1>5. CASE SubmitSignal
  BY <1>0, <1>5 DEF SubmitSignal, CondSignal, LockInv
<1>6. CASE Join
  BY <1>6 DEF Join
<1>7. ASSUME NEW w \in Worker, GetLock(w) PROVE TypeOK'
  BY <1>7 DEF GetLock, Lock
<1>8. ASSUME NEW w \in Worker, GetWait(w) PROVE TypeOK'
  BY <1>8 DEF GetWait, CondWait
<1>9. ASSUME NEW w \in Worker, GetResume(w) PROVE TypeOK'
  BY <1>9 DEF GetResume, CondResume
<1>10. ASSUME NEW w \in Worker, GetTake(w) PROVE TypeOK'
  <2>1. Pending > 0
    BY <1>10 DEF GetTake, Pending, LockInv, Thread, Inside
  <2>2. taskQueue[0] \in Task
    BY <2>1, FirstTask
  <2>3. taken' \in Seq(Task)
    BY <1>10, <2>2, AppendProperties DEF GetTake
  <2>4. taskQueue' \in [0 .. BUFFER_SIZE - 1 -> Task \cup {0}]
    BY <1>10 DEF GetTake
  <2> QED
    BY <1>10, <2>2, <2>3, <2>4 DEF GetTake
<1>11. ASSUME NEW w \in Worker, GetCount(w) PROVE TypeOK'
  BY <1>11 DEF GetCount, Unlock, LockInv
<1>12. ASSUME NEW w \in Worker, GetSignal(w) PROVE TypeOK'
  BY <1>12 DEF GetSignal, CondSignal
<1>13. ASSUME NEW w \in Worker, Execute(w) PROVE TypeOK'
  <2>1. task[w] \in Task
    BY <1>13 DEF Execute, TaskInv
  <2> QED
    BY <1>13, <2>1 DEF Execute
<1>14. ASSUME NEW w \in Worker, Terminate(w) PROVE TypeOK'
  BY <1>14 DEF Terminate
<1>15. CASE SpuriousWakeup
  BY <1>15 DEF SpuriousWakeup, Spurious
<1>16. CASE UNCHANGED vars
  BY <1>16 DEF vars
<1> QED
  BY <1>1, <1>2, <1>3, <1>4, <1>5, <1>6, <1>7, <1>8, <1>9, <1>10, <1>11, <1>12, <1>13,
     <1>14, <1>15, <1>16, Steps

\* First in, first out.
LEMMA QueueStep == TypeOK /\ LockInv /\ QueueInv /\ [Next]_vars => QueueInv'
<1> SUFFICES ASSUME TypeOK, LockInv, QueueInv, [Next]_vars PROVE QueueInv'
  OBVIOUS
<1>1. /\ taken \in Seq(Task) /\ Len(taken) \in Nat /\ taskCount \in 0 .. BUFFER_SIZE
      /\ Pending \in Int /\ i \in Nat
      /\ taskQueue \in [0 .. BUFFER_SIZE - 1 -> Task \cup {0}]
  BY LenProperties, PoolAssumption DEF TypeOK, Pending
<1>2. CASE /\ SubmitPut
           /\ Sent = i /\ Sent' = i + 1 /\ taken' = taken /\ submissions' = submissions
           /\ Pending = taskCount /\ Pending' = taskCount + 1
  <2>1. /\ taskQueue' = [taskQueue EXCEPT ![taskCount] = submissions[i + 1]]
        /\ taskCount \in 0 .. BUFFER_SIZE - 1
    BY <1>1, <1>2, PoolAssumption DEF SubmitPut, QueueFull
  <2>2. ASSUME NEW k \in 0 .. Pending' - 1
        PROVE  taskQueue'[k] = submissions[Len(taken) + k + 1]
    <3>1. CASE k = taskCount
      BY <1>1, <1>2, <2>1, <3>1 DEF QueueInv
    <3>2. CASE k # taskCount
      <4>1. k \in 0 .. Pending - 1
        BY <1>1, <1>2, <3>2
      <4> QED
        BY <1>1, <1>2, <2>1, <3>2, <4>1 DEF QueueInv
    <3> QED
      BY <3>1, <3>2
  <2>3. Len(taken') + Pending' = Sent'
    BY <1>1, <1>2 DEF QueueInv
  <2> QED
    BY <1>2, <2>2, <2>3 DEF QueueInv
<1>3. CASE /\ \E w \in Worker : GetTake(w)
           /\ Sent' = Sent /\ taken' = Append(taken, taskQueue[0])
           /\ submissions' = submissions
           /\ Pending = taskCount /\ Pending' = taskCount - 1
  <2>1. /\ taskCount > 0
        /\ taskQueue' = [k \in 0 .. BUFFER_SIZE - 1 |->
                     IF k < taskCount - 1 THEN taskQueue[k + 1] ELSE taskQueue[k]]
    BY <1>3 DEF GetTake
  <2>2. taskQueue[0] \in Task /\ taskQueue[0] = submissions[Len(taken) + 1]
    BY <1>3, <2>1, FirstTask
  <2>3. /\ Len(taken') = Len(taken) + 1
        /\ \A k \in 1 .. Len(taken) : taken'[k] = taken[k]
        /\ taken'[Len(taken) + 1] = taskQueue[0]
    BY <1>1, <1>3, <2>2, AppendProperties
  <2>4. Len(taken') + Pending' = Sent'
    BY <1>1, <1>3, <2>3 DEF QueueInv
  <2>5. ASSUME NEW k \in 1 .. Len(taken') PROVE taken'[k] = submissions[k]
    <3>1. k \in 1 .. Len(taken) \/ k = Len(taken) + 1
      BY <1>1, <2>3
    <3> QED
      BY <2>2, <2>3, <3>1 DEF QueueInv
  <2>6. ASSUME NEW k \in 0 .. Pending' - 1
        PROVE  taskQueue'[k] = submissions[Len(taken') + k + 1]
    <3>1. k + 1 \in 0 .. Pending - 1 /\ k \in 0 .. BUFFER_SIZE - 1 /\ k < taskCount - 1
      BY <1>1, <1>3, PoolAssumption
    <3>2. taskQueue'[k] = taskQueue[k + 1]
      BY <2>1, <3>1
    <3>3. taskQueue[k + 1] = submissions[Len(taken) + (k + 1) + 1]
      BY <3>1 DEF QueueInv
    <3>4. Len(taken) + (k + 1) + 1 = Len(taken') + k + 1
      BY <1>1, <2>3, <3>1
    <3> QED
      BY <3>2, <3>3, <3>4
  <2> QED
    BY <1>3, <2>4, <2>5, <2>6 DEF QueueInv
<1>4. CASE /\ Sent' = Sent /\ taken' = taken /\ submissions' = submissions
           /\ Pending' = Pending /\ taskQueue' = taskQueue
  BY <1>4 DEF QueueInv
<1> QED
  BY <1>2, <1>3, <1>4, StepsOfTheQueue

\* Only getTask changes a worker's task.
LEMMA TaskStep == TypeOK /\ LockInv /\ TaskInv /\ QueueInv /\ [Next]_vars => TaskInv'
<1> SUFFICES ASSUME TypeOK, LockInv, TaskInv, QueueInv, [Next]_vars PROVE TaskInv'
  OBVIOUS
<1> USE PoolAssumption DEF TypeOK, TaskInv, Goto, queue, sync, local
<1>1. ASSUME NEW w \in Worker, GetTake(w) PROVE TaskInv'
  <2>1. Pending > 0
    BY <1>1 DEF GetTake, Pending, LockInv, Thread, Inside
  <2>2. taskQueue[0] \in Task
    BY <2>1, FirstTask
  <2> QED
    BY <1>1, <2>2 DEF GetTake
<1>2. ASSUME NEW w \in Worker,
             \/ GetLock(w) \/ GetWait(w) \/ GetResume(w) \/ GetCount(w) \/ GetSignal(w)
             \/ Execute(w) \/ Terminate(w)
      PROVE  TaskInv'
  BY <1>2 DEF GetLock, GetWait, GetResume, GetCount, GetSignal, Execute, Terminate
<1>3. CASE SubmitLock \/ SubmitWait \/ SubmitResume \/ SubmitPut \/ SubmitSignal \/ Join
  BY <1>3 DEF SubmitLock, SubmitWait, SubmitResume, SubmitPut, SubmitSignal, Join
<1>4. CASE SpuriousWakeup \/ UNCHANGED vars
  BY <1>4 DEF SpuriousWakeup, vars
<1> QED
  BY <1>1, <1>2, <1>3, <1>4, Steps

\* While main() sleeps at a queue with room, the worker that made the room is to signal.
LEMMA SubmitterStep ==
  TypeOK /\ LockInv /\ NoStrandedSubmitter /\ [Next]_vars => NoStrandedSubmitter'
<1> SUFFICES ASSUME TypeOK, LockInv, NoStrandedSubmitter, [Next]_vars
             PROVE  NoStrandedSubmitter'
  OBVIOUS
<1> USE PoolAssumption DEF TypeOK, LockInv, Thread, Inside, NoThread, NoStrandedSubmitter,
                           Goto, queue, sync, local
<1>1. CASE SubmitLock \/ SubmitWait \/ SubmitResume \/ SubmitPut \/ SubmitSignal \/ Join
  BY <1>1 DEF SubmitLock, SubmitWait, SubmitResume, SubmitPut, SubmitSignal, Join,
              CondWait, QueueFull
<1>2. ASSUME NEW w \in Worker, GetCount(w) PROVE NoStrandedSubmitter'
  BY <1>2 DEF GetCount
<1>3. ASSUME NEW w \in Worker, GetSignal(w) PROVE NoStrandedSubmitter'
  BY <1>3 DEF GetSignal, CondSignal
<1>4. ASSUME NEW w \in Worker,
             \/ GetLock(w) \/ GetWait(w) \/ GetResume(w) \/ GetTake(w)
             \/ Execute(w) \/ Terminate(w)
      PROVE  NoStrandedSubmitter'
  BY <1>4 DEF GetLock, GetWait, GetResume, GetTake, Execute, Terminate
<1>5. CASE SpuriousWakeup \/ UNCHANGED vars
  BY <1>5 DEF SpuriousWakeup, Spurious, vars
<1> QED
  BY <1>1, <1>2, <1>3, <1>4, <1>5, Steps

\* Every task is expected by a worker on its way, as long as any sleeps.
LEMMA WakeStep == TypeOK /\ LockInv /\ WakeInv /\ [Next]_vars => WakeInv'
<1> SUFFICES ASSUME TypeOK, LockInv, WakeInv, [Next]_vars, condEmpty' # {} PROVE WakeInv'
  BY DEF WakeInv
<1> DEFINE debt == IF pc["main"] = "signal" THEN 1 ELSE 0
<1>0. /\ Hungry \in SUBSET Worker /\ Hungry' \in SUBSET Worker
      /\ Cardinality(Hungry) \in Nat /\ Cardinality(Hungry') \in Nat
      /\ taskCount \in Nat
  BY CountsAreNat, PoolAssumption DEF Hungry, TypeOK
<1> USE PoolAssumption DEF TypeOK, LockInv, Thread, Inside, NoThread, Goto, queue, sync, local
<1>1. CASE SubmitLock \/ SubmitWait \/ SubmitResume \/ Join
  <2>1. /\ Hungry' = Hungry /\ taskCount' = taskCount /\ condEmpty' = condEmpty
        /\ debt' = debt
    BY <1>1 DEF SubmitLock, SubmitWait, SubmitResume, Join, Hungry
  <2> QED
    BY <2>1 DEF WakeInv
<1>2. CASE SubmitPut
  <2>1. /\ Hungry' = Hungry /\ taskCount' = taskCount + 1 /\ condEmpty' = condEmpty
        /\ debt = 0 /\ debt' = 1
    BY <1>2 DEF SubmitPut, Hungry
  <2> QED
    BY <1>0, <2>1 DEF WakeInv
<1>3. CASE SubmitSignal
  <2>1. taskCount' = taskCount /\ debt = 1 /\ debt' = 0
    BY <1>3 DEF SubmitSignal
  <2>2. PICK w \in condEmpty : condEmpty' = condEmpty \ {w}
    BY <1>3 DEF SubmitSignal, CondSignal
  <2>3. w \in Worker /\ w \notin Hungry /\ Hungry' = Hungry \cup {w}
    BY <1>3, <2>2 DEF SubmitSignal, Hungry
  <2>4. Cardinality(Hungry') = Cardinality(Hungry) + 1
    BY <1>0, <2>3, OneMore
  <2> QED
    BY <1>0, <2>1, <2>2, <2>4 DEF WakeInv
<1>4. ASSUME NEW w \in Worker, GetLock(w) \/ GetResume(w) \/ GetTake(w) PROVE WakeInv'
  <2>1. taskCount' = taskCount /\ condEmpty' = condEmpty /\ debt' = debt
    BY <1>4 DEF GetLock, GetResume, GetTake
  <2>2. Hungry' = Hungry
    <3>1. CASE GetLock(w)
      BY <3>1 DEF GetLock, Hungry
    <3>2. CASE GetResume(w)
      BY <3>2 DEF GetResume, CondResume, Hungry
    <3>3. CASE GetTake(w)
      BY <3>3 DEF GetTake, Hungry
    <3> QED
      BY <1>4, <3>1, <3>2, <3>3
  <2> QED
    BY <2>1, <2>2 DEF WakeInv
<1>5. ASSUME NEW w \in Worker, GetWait(w) PROVE WakeInv'
  <2>1. taskCount' = 0
    BY <1>5 DEF GetWait
  <2> QED
    BY <1>0, <2>1 DEF WakeInv
<1>6. ASSUME NEW w \in Worker, GetCount(w) PROVE WakeInv'
  <2>1. /\ w \in Hungry /\ Hungry' = Hungry \ {w}
        /\ taskCount' = taskCount - 1 /\ condEmpty' = condEmpty /\ debt' = debt
    BY <1>6 DEF GetCount, Hungry
  <2>2. Cardinality(Hungry') = Cardinality(Hungry) - 1
    BY <1>0, <2>1, OneLess
  <2> QED
    BY <1>0, <2>1, <2>2 DEF WakeInv
<1>7. ASSUME NEW w \in Worker, GetSignal(w) \/ Terminate(w) PROVE WakeInv'
  <2>1. /\ Hungry' = Hungry /\ taskCount' = taskCount /\ condEmpty' = condEmpty
        /\ debt' = debt
    BY <1>7 DEF GetSignal, Terminate, Hungry
  <2> QED
    BY <2>1 DEF WakeInv
<1>8. ASSUME NEW w \in Worker, Execute(w) PROVE WakeInv'
  <2>1. /\ w \notin Hungry /\ Hungry' = Hungry \cup {w}
        /\ taskCount' = taskCount /\ condEmpty' = condEmpty /\ debt' = debt
    BY <1>8 DEF Execute, Hungry
  <2>2. Cardinality(Hungry') = Cardinality(Hungry) + 1
    BY <1>0, <2>1, OneMore
  <2> QED
    BY <1>0, <2>1, <2>2 DEF WakeInv
<1>9. CASE SpuriousWakeup
  <2>1. CASE condEmpty' = condEmpty
    <3>1. Hungry' = Hungry /\ taskCount' = taskCount /\ debt' = debt
      BY <1>9, <2>1 DEF SpuriousWakeup, Hungry
    <3> QED
      BY <2>1, <3>1 DEF WakeInv
  <2>2. CASE condEmpty' # condEmpty
    <3>1. PICK w \in condEmpty : condEmpty' = condEmpty \ {w}
      BY <1>9, <2>2 DEF SpuriousWakeup, Spurious
    <3>2. w \in Worker /\ w \notin Hungry /\ Hungry' = Hungry \cup {w}
          /\ taskCount' = taskCount /\ debt' = debt
      BY <1>9, <3>1 DEF SpuriousWakeup, Hungry
    <3>3. Cardinality(Hungry') = Cardinality(Hungry) + 1
      BY <1>0, <3>2, OneMore
    <3> QED
      BY <1>0, <3>1, <3>2, <3>3 DEF WakeInv
  <2> QED
    BY <2>1, <2>2
<1>10. CASE UNCHANGED vars
  BY <1>10 DEF vars, WakeInv, Hungry
<1> QED
  BY <1>1, <1>2, <1>3, <1>4, <1>5, <1>6, <1>7, <1>8, <1>9, <1>10, Steps

\* A worker stops for one Stop each.
LEMMA StopStep ==
  TypeOK /\ LockInv /\ TaskInv /\ QueueInv /\ StopInv /\ [Next]_vars => StopInv'
<1> SUFFICES ASSUME TypeOK, LockInv, TaskInv, QueueInv, StopInv, [Next]_vars PROVE StopInv'
  OBVIOUS
<1>0. /\ Stopping \in SUBSET Worker /\ Len(taken) \in Nat
      /\ IsFiniteSet(Stops(Len(taken))) /\ Cardinality(Stops(Len(taken))) \in Nat
  BY StopsAreFinite, LenProperties DEF Stopping, TypeOK
<1> USE PoolAssumption DEF TypeOK, LockInv, Thread, Inside, NoThread, Goto, queue, sync, local
<1>1. ASSUME NEW w \in Worker, GetTake(w) PROVE StopInv'
  <2> DEFINE n == Len(taken)  x == taskQueue[0]
  <2>1. Pending > 0
    BY <1>1 DEF GetTake, Pending
  <2>2. x \in Task /\ x = submissions[n + 1]
    BY <2>1, FirstTask
  <2>3. Len(taken') = n + 1
    BY <1>1, <2>2, AppendProperties DEF GetTake
  <2>4. /\ w \notin Stopping
        /\ Stopping' = IF x = Stop THEN Stopping \cup {w} ELSE Stopping
    BY <1>1 DEF GetTake, Stopping
  <2>5. /\ n + 1 \notin Stops(n)
        /\ Stops(Len(taken))' = IF x = Stop THEN Stops(n) \cup {n + 1} ELSE Stops(n)
    <3>1. submissions' = submissions
      BY <1>1 DEF GetTake
    <3>2. 1 .. n + 1 = (1 .. n) \cup {n + 1} /\ n + 1 \notin 1 .. n
      BY <1>0
    <3>3. Stops(Len(taken))' = {k \in 1 .. n + 1 : submissions[k] = Stop}
      BY <3>1, <2>3 DEF Stops
    <3> QED
      BY <2>2, <3>2, <3>3 DEF Stops
  <2>6. x = Stop =>
          /\ Cardinality(Stopping \cup {w}) = Cardinality(Stopping) + 1
          /\ Cardinality(Stops(n) \cup {n + 1}) = Cardinality(Stops(n)) + 1
    BY <1>0, <2>4, <2>5, OneMore, FS_AddElement
  <2> QED
    BY <2>4, <2>5, <2>6 DEF StopInv
<1>2. ASSUME NEW w \in Worker,
             \/ GetLock(w) \/ GetWait(w) \/ GetResume(w) \/ GetCount(w) \/ GetSignal(w)
             \/ Execute(w) \/ Terminate(w)
      PROVE  Stopping' = Stopping /\ taken' = taken /\ submissions' = submissions
  <2>1. taken' = taken /\ submissions' = submissions
    BY <1>2 DEF GetLock, GetWait, GetResume, GetCount, GetSignal, Execute, Terminate
  <2>2. CASE GetLock(w) \/ GetWait(w) \/ GetResume(w)
    BY <2>2 DEF GetLock, GetWait, GetResume, Stopping
  <2>3. CASE GetCount(w) \/ GetSignal(w)
    BY <2>3 DEF GetCount, GetSignal, Stopping
  <2>4. CASE Execute(w) \/ Terminate(w)
    BY <2>4 DEF Execute, Terminate, Stopping
  <2> QED
    BY <1>2, <2>1, <2>2, <2>3, <2>4
<1>3. CASE SubmitLock \/ SubmitWait \/ SubmitResume \/ SubmitPut \/ SubmitSignal \/ Join
  <2> Stopping' = Stopping /\ taken' = taken /\ submissions' = submissions
    BY <1>3 DEF SubmitLock, SubmitWait, SubmitResume, SubmitPut, SubmitSignal, Join, Stopping
  <2> QED
    BY DEF StopInv, Stops
<1>4. CASE SpuriousWakeup \/ UNCHANGED vars
  <2> Stopping' = Stopping /\ taken' = taken /\ submissions' = submissions
    BY <1>4 DEF SpuriousWakeup, vars, Stopping
  <2> QED
    BY DEF StopInv, Stops
<1>5. ASSUME Stopping' = Stopping, taken' = taken, submissions' = submissions PROVE StopInv'
  BY <1>5 DEF StopInv, Stops
<1> QED
  BY <1>1, <1>2, <1>3, <1>4, <1>5, Steps
-----------------------------------------------------------------------------
\* The inductive invariant: what the threads do with the mutex, the queue and the two
\* conditions, which signal is on its way, and how many workers are left
\* (pth_pool.c:33-70, 110-122).
THEOREM Invariance == Spec => []IInv
<1>1. IInv /\ [Next]_vars => IInv'
  BY TypeStep, LockStep, TaskStep, QueueStep, WakeStep, StopStep, SubmitterStep DEF IInv
<1> QED
  BY InitInv, <1>1, PTL DEF Spec

\* Every variable keeps its type; in particular the count of the queue stays in
\* 0 .. BUFFER_SIZE, and no task is put beyond the end (pth_pool.c:57-103).
THEOREM TypeCorrect == Spec => []TypeOK
<1>1. IInv => TypeOK
  BY DEF IInv
<1> QED
  BY Invariance, <1>1, PTL

\* While a task waits some worker is awake, or main() is about to wake one up: if any
\* sleeps, somebody is on the way for every task; if none does, they cannot all have
\* left, because the last Stop is the last task (pth_pool.c:57-120).
LEMMA TasksAreSeen == IInv => NoStrandedTask
<1> SUFFICES ASSUME IInv, taskCount > 0, pc["main"] # "signal"
             PROVE  \E w \in Worker : w \notin condEmpty /\ pc[w] # "exited"
  BY DEF NoStrandedTask
<1> USE DEF IInv
<1>1. CASE condEmpty # {}
  <2>1. Cardinality(Hungry) >= 1
    <3>1. Hungry \in SUBSET Worker /\ taskCount \in Nat
      BY PoolAssumption DEF Hungry, TypeOK
    <3> QED
      BY <1>1, <3>1, CountsAreNat DEF WakeInv
  <2>2. Hungry # {}
    BY <2>1, FS_EmptySet
  <2> QED
    BY <2>2 DEF Hungry, LockInv
<1>2. CASE condEmpty = {} /\ \A w \in Worker : pc[w] = "exited"
  <2> DEFINE n == Len(taken)
  <2>1. Stopping = Worker
    BY <1>2 DEF Stopping
  <2>2. n \in Nat /\ Pending = taskCount /\ taskCount \in Nat /\ Sent <= Len(submissions)
    BY <1>2, PoolAssumption, LenProperties, ScheduleIs DEF TypeOK, Pending, Sent, LockInv
  <2>3. n < Len(submissions)
    BY <2>2, ScheduleIs DEF QueueInv, TypeOK
  <2>4. Cardinality(Stops(n)) = Cardinality(Worker) /\ Cardinality(Worker) # 0
    BY <2>1, PoolAssumption, FS_EmptySet DEF StopInv
  <2>5. n # 0
    <3>1. Stops(0) = {}
      BY DEF Stops
    <3> QED
      BY <3>1, <2>4, FS_EmptySet
  <2>6. n \in 1 .. Len(submissions)
    BY <2>2, <2>3, <2>5, ScheduleIs DEF TypeOK
  <2>7. StopsComeLast(submissions) /\ Cardinality(Worker) \in Nat
    BY PoolAssumption, FS_CardinalityType DEF TypeOK
  <2>8. Cardinality(Stops(n)) >= Cardinality(Worker) => n = Len(submissions)
    BY <2>6, <2>7 DEF StopsComeLast, Stops
  <2> QED
    BY <2>2, <2>3, <2>4, <2>7, <2>8
<1> QED
  BY <1>1, <1>2, PoolAssumption

\* The safety of pth_pool.c for every number of workers, size of the queue and
\* schedule: no task and no submitter is left with everybody asleep who could see to it.
THEOREM PoolIsSafe == Spec => []PoolInv
<1>1. IInv => PoolInv
  BY TasksAreSeen DEF IInv, PoolInv
<1> QED
  BY Invariance, <1>1, PTL
-----------------------------------------------------------------------------
\* What the refinement mapping makes of the queue.
IsAQueue == /\ Pending \in Nat /\ Pending <= BUFFER_SIZE
            /\ Waiting = [k \in 1 .. Pending |-> taskQueue[k - 1]]
            /\ Waiting \in Seq(Task) /\ Len(Waiting) = Pending

\* The tasks in the queue are a sequence, as the channel has it.
LEMMA WaitingIsAQueue == IInv => IsAQueue
<1> SUFFICES ASSUME IInv PROVE IsAQueue
  OBVIOUS
<1> USE DEF IInv
<1>1. Pending \in Nat /\ Pending <= BUFFER_SIZE
  BY PoolAssumption DEF TypeOK, LockInv, Pending
<1>2. Waiting = [k \in 1 .. Pending |-> taskQueue[k - 1]]
  BY DEF Waiting, Pending
<1>3. ASSUME NEW k \in 1 .. Pending PROVE taskQueue[k - 1] \in Task
  <2>1. /\ Len(taken) \in Nat /\ Len(submissions) \in Nat
        /\ Sent \in Nat /\ Sent <= Len(submissions)
    BY ScheduleIs, LenProperties DEF TypeOK, LockInv, Sent
  <2>2. k - 1 \in 0 .. Pending - 1 /\ Len(taken) + (k - 1) + 1 \in 1 .. Len(submissions)
    BY <1>1, <2>1 DEF QueueInv
  <2>3. taskQueue[k - 1] = submissions[Len(taken) + (k - 1) + 1]
    BY <2>2 DEF QueueInv
  <2> QED
    BY <2>2, <2>3, ScheduleIs DEF TypeOK
<1>4. Waiting \in [1 .. Pending -> Task]
  BY <1>2, <1>3
<1>5. Waiting \in Seq(Task)
  BY <1>1, <1>4, SeqDef
<1>6. DOMAIN Waiting = 1 .. Pending
  BY <1>2
<1>7. Len(Waiting) = Pending
  BY <1>1, <1>5, <1>6, LenProperties
<1> QED
  BY <1>1, <1>2, <1>5, <1>7 DEF IsAQueue

\* A task that is submitted goes behind the others.
LEMMA PutIsASend ==
  ASSUME IInv, IsAQueue, IsAQueue', SubmitPut,
         Pending = taskCount, Pending' = taskCount + 1, taken' = taken
  PROVE  \E x \in Task : Pool!Send(x)
<1> DEFINE n == Pending  x == submissions[i + 1]
<1>1. /\ n < BUFFER_SIZE /\ n \in Nat
      /\ taskQueue' = [taskQueue EXCEPT ![n] = x]
      /\ taskQueue \in [0 .. BUFFER_SIZE - 1 -> Task \cup {0}]
  BY PoolAssumption DEF SubmitPut, QueueFull, IInv, TypeOK
<1>2. x \in Task
  BY ScheduleIs DEF SubmitPut, IInv, TypeOK, LockInv
<1>3. /\ Waiting \in Seq(Task) /\ Len(Waiting) = n
      /\ \A k \in 1 .. n : Waiting[k] = taskQueue[k - 1]
  BY DEF IsAQueue
<1>4. /\ Waiting' \in Seq(Task) /\ Len(Waiting') = n + 1
      /\ \A k \in 1 .. n + 1 : Waiting'[k] = taskQueue'[k - 1]
  BY DEF IsAQueue
<1> HIDE DEF n, x
<1>5. /\ Append(Waiting, x) \in Seq(Task) /\ Len(Append(Waiting, x)) = n + 1
      /\ \A k \in 1 .. n : Append(Waiting, x)[k] = Waiting[k]
      /\ Append(Waiting, x)[n + 1] = x
  BY <1>2, <1>3, AppendProperties
<1>6. ASSUME NEW k \in 1 .. n + 1 PROVE Waiting'[k] = Append(Waiting, x)[k]
  <2>1. CASE k = n + 1
    <3>1. taskQueue'[n] = x
      BY <1>1, PoolAssumption
    <3> QED
      BY <1>1, <1>4, <1>5, <2>1, <3>1
  <2>2. CASE k \in 1 .. n
    <3>1. taskQueue'[k - 1] = taskQueue[k - 1]
      BY <1>1, <2>2, PoolAssumption
    <3> QED
      BY <1>3, <1>4, <1>5, <2>2, <3>1
  <2>3. k \in 1 .. n \/ k = n + 1
    BY <1>1
  <2> QED
    BY <2>1, <2>2, <2>3
<1>7. Waiting' = Append(Waiting, x)
  BY <1>4, <1>5, <1>6, SeqEqual
<1> QED
  BY <1>1, <1>2, <1>3, <1>7 DEF Pool!Send

\* The task that is taken is the oldest.
LEMMA TakeIsADelivery ==
  ASSUME IInv, IsAQueue, IsAQueue', NEW w \in Worker, GetTake(w),
         Pending = taskCount, Pending' = taskCount - 1,
         taken' = Append(taken, taskQueue[0])
  PROVE  Pool!Deliver
<1> DEFINE n == Pending
<1>1. /\ n > 0 /\ n \in Nat /\ n <= BUFFER_SIZE
      /\ \A k \in 0 .. BUFFER_SIZE - 1 :
           k < n - 1 => taskQueue'[k] = taskQueue[k + 1]
  BY DEF GetTake, IsAQueue
<1>2. /\ Waiting \in Seq(Task) /\ Len(Waiting) = n
      /\ \A k \in 1 .. n : Waiting[k] = taskQueue[k - 1]
  BY DEF IsAQueue
<1>3. /\ Waiting' \in Seq(Task) /\ Len(Waiting') = n - 1
      /\ \A k \in 1 .. n - 1 : Waiting'[k] = taskQueue'[k - 1]
  BY DEF IsAQueue
<1> HIDE DEF n
<1>4. Waiting # <<>> /\ Head(Waiting) = taskQueue[0]
  BY <1>1, <1>2, EmptySeq
<1>5. /\ Tail(Waiting) \in Seq(Task) /\ Len(Tail(Waiting)) = n - 1
      /\ \A k \in 1 .. n - 1 : Tail(Waiting)[k] = Waiting[k + 1]
  BY <1>1, <1>2, <1>4, HeadTailProperties
<1>6. ASSUME NEW k \in 1 .. n - 1 PROVE Waiting'[k] = Tail(Waiting)[k]
  <2>1. taskQueue'[k - 1] = taskQueue[(k - 1) + 1]
    BY <1>1, PoolAssumption
  <2>2. Waiting[k + 1] = taskQueue[(k + 1) - 1]
    BY <1>1, <1>2
  <2> QED
    BY <1>1, <1>3, <1>5, <2>1, <2>2
<1>7. Waiting' = Tail(Waiting)
  BY <1>3, <1>5, <1>6, SeqEqual
<1> QED
  BY <1>4, <1>7 DEF Pool!Deliver

\* However many workers compete for the tasks, the queue with its mutex, its count and
\* its two conditions implements a first-in first-out channel of BUFFER_SIZE items: each
\* task is taken by one worker, in the order of submission (pth_pool.c:57-103).
THEOREM ImplementsAChannel == Spec => IsAChannel
<1>1. Init => Pool!Init
  <2> SUFFICES ASSUME Init PROVE Pool!Init
    OBVIOUS
  <2>1. taskCount = 0 /\ taken = <<>> /\ \A w \in Worker : pc[w] # "count"
    BY PoolAssumption DEF Init
  <2>2. Waiting = <<>>
    BY <2>1 DEF Waiting
  <2> QED
    BY <2>1, <2>2 DEF Pool!Init
<1>2. IInv' => IsAQueue'
  BY WaitingIsAQueue, PTL
<1>3. IInv /\ IInv' /\ [Next]_vars => [Pool!Next]_(Pool!vars)
  <2> SUFFICES ASSUME IInv, IInv', [Next]_vars PROVE [Pool!Next]_(Pool!vars)
    OBVIOUS
  <2>1. IsAQueue /\ IsAQueue'
    BY <1>2, WaitingIsAQueue
  <2>2. CASE SubmitPut /\ Pending = taskCount /\ Pending' = taskCount + 1 /\ taken' = taken
    BY <2>1, <2>2, PutIsASend DEF Pool!Next
  <2>3. CASE /\ \E w \in Worker : GetTake(w)
             /\ Pending = taskCount /\ Pending' = taskCount - 1
             /\ taken' = Append(taken, taskQueue[0])
    BY <2>1, <2>3, TakeIsADelivery DEF Pool!Next
  <2>4. CASE Pending' = Pending /\ taskQueue' = taskQueue /\ taken' = taken
    BY <2>1, <2>4 DEF IsAQueue, Pool!vars
  <2> QED
    BY <2>2, <2>3, <2>4, StepsOfTheQueue DEF IInv
<1> QED
  BY Invariance, <1>1, <1>3, PTL DEF Spec, IsAChannel, Pool!Spec
-----------------------------------------------------------------------------
(***************************************************************************)
(* Proofs about ActorQueue, for any number of senders and messages and     *)
(* every size of the queue: ActorInv is an invariant.                      *)
(*                                                                         *)
(* The argument: no place between front and tail is Null, so that the      *)
(* actor takes all of them at once; what is queued then changes only where *)
(* tail moves, and the account of every message follows.  Exit comes after *)
(* the last message of the last sender, so that whoever takes it leaves    *)
(* nothing behind.                                                         *)
(***************************************************************************)

\* Where a thread owns the mutex, where it can be, and where all of them are.
Busy == {"enqueue", "advance", "signal", "test"}

Places(t) ==
  IF t = "main" THEN {"join", "send", "enqueue", "advance", "signal", "finalize", "returned"}
  ELSE IF t = "actor" THEN {"lock", "test", "wait", "count", "ended"}
  ELSE {"send", "enqueue", "advance", "signal", "ended"}

ActorPlaces ==
  /\ DOMAIN aqPc = Posting \cup {"actor"} /\ aqPc = [t \in Posting \cup {"actor"} |-> aqPc[t]]
  /\ \A t \in Posting \cup {"actor"} :
       aqPc[t] \in Places(t) /\ (aqMutex = t <=> aqPc[t] \in Busy)
  /\ "actor" \in cond => aqPc["actor"] = "wait"

\* Everything of the type invariant but the bound of the counters.
ActorTypes ==
  /\ cyclic_buf \in [0 .. max_size - 1 -> Kind \cup {Exit, Null}]
  /\ front \in 0 .. max_size - 1 /\ tail \in 0 .. max_size - 1
  /\ aqMutex \in Posting \cup {"actor", NoThread} /\ cond \subseteq {"actor"}
  /\ aqI \in [Sender -> 0 .. MSGS]
  /\ v \in Seq(Kind \cup {Exit})
  /\ buf \in [Kind -> Nat]
  /\ dropped \in [Kind \cup {Exit} -> Nat]

\* A sender that is sending has a message left, one that has ended has none.
SenderInv ==
  \A s \in Sender :
    /\ aqPc[s] \in {"enqueue", "advance", "signal"} => aqI[s] < MSGS
    /\ aqPc[s] = "ended" => aqI[s] = MSGS

\* What has been stored at tail is still there when tail moves.
StoreInv ==
  \A t \in Posting : aqPc[t] = "advance" => ~ queue_is_full /\ cyclic_buf[tail] = Message(t)

\* All places between front and tail hold messages.
QueuedInv == \A k \in 1 .. queue_size : Queued[k] # Null

\* Exit is the last message of all.
Has(q, m) == \E k \in 1 .. Len(q) : q[k] = m

ExitInv ==
  /\ aqPc["main"] # "join" => \A s \in Sender : aqPc[s] = "ended"
  /\ aqPc["main"] \in {"join", "send", "enqueue", "advance"} =>
       dropped[Exit] = 0 /\ ~ Has(Queued, Exit)
  /\ dropped[Exit] <= 1
  /\ Has(v, Exit) \/ aqPc["actor"] = "ended" =>
       aqPc["main"] \in {"finalize", "returned"} /\ queue_is_empty

\* The vector is filled by one step of the actor and emptied by its next.
VectorInv == aqPc["actor"] # "count" => v = <<>>

ActorIInv ==
  /\ ActorTypes /\ ActorPlaces /\ SenderInv /\ StoreInv /\ QueuedInv /\ ExitInv /\ VectorInv
  /\ EveryMessageIsSomewhere /\ SleepIsJustified
-----------------------------------------------------------------------------
\* Once around the ring at most.
LEMMA Turn ==
  ASSUME NEW M \in Nat \ {0}, NEW c \in 0 .. M + M - 1, NEW d, d = c % M
  PROVE  d = IF c < M THEN c ELSE c - M
  OBVIOUS

IsRing(M, f, t, n) ==
  /\ n \in 0 .. M - 1
  /\ n = 0 <=> f = t
  /\ (t + 1) % M = f <=> n = M - 1
  /\ (f + n) % M = t
  /\ (t + 1) % M \in 0 .. M - 1
  /\ \A k \in 1 .. n : (f + k - 1) % M \in 0 .. M - 1 /\ (f + k - 1) % M # t

\* n places from f to t in a ring of M places.
LEMMA Ring ==
  ASSUME NEW M \in Nat \ {0}, NEW f \in 0 .. M - 1, NEW t \in 0 .. M - 1,
         NEW n, n = IF t >= f THEN t - f ELSE M - f + t
  PROVE  IsRing(M, f, t, n)
<1>1. n \in 0 .. M - 1 /\ (n = 0 <=> f = t)
  OBVIOUS
<1>2. ASSUME NEW c \in 0 .. M + M - 1, NEW d, d = c % M
      PROVE  d = IF c < M THEN c ELSE c - M
  BY <1>2, Turn
<1>3. PICK u : u = (t + 1) % M
  OBVIOUS
<1>4. u = IF t + 1 < M THEN t + 1 ELSE t + 1 - M
  <2>1. t + 1 \in 0 .. M + M - 1
    OBVIOUS
  <2> QED  BY <1>2, <1>3, <2>1
<1>5. PICK w : w = (f + n) % M
  OBVIOUS
<1>6. w = IF f + n < M THEN f + n ELSE f + n - M
  <2>1. f + n \in 0 .. M + M - 1
    BY <1>1
  <2> QED  BY <1>2, <1>5, <2>1
<1>7. ASSUME NEW k \in 1 .. n
      PROVE  (f + k - 1) % M \in 0 .. M - 1 /\ (f + k - 1) % M # t
  <2>1. f + k - 1 \in 0 .. M + M - 1 /\ k <= n /\ k >= 1
    BY <1>1
  <2>2. PICK d : d = (f + k - 1) % M
    OBVIOUS
  <2>3. d = IF f + k - 1 < M THEN f + k - 1 ELSE f + k - 1 - M
    BY <1>2, <2>1, <2>2
  <2>4. d \in 0 .. M - 1 /\ d # t
    BY <1>1, <2>1, <2>3
  <2> QED  BY <2>2, <2>4
<1>8. u = f <=> n = M - 1
  BY <1>1, <1>4
<1>9. w = t /\ u \in 0 .. M - 1
  BY <1>1, <1>4, <1>6
<1> QED  BY <1>1, <1>3, <1>5, <1>7, <1>8, <1>9 DEF IsRing

Between(M, f, t, n) == n = IF t >= f THEN t - f ELSE M - f + t

\* The place after the last one.
LEMMA RingGrows ==
  ASSUME NEW M \in Nat \ {0}, NEW f \in 0 .. M - 1, NEW t \in 0 .. M - 1,
         NEW n, Between(M, f, t, n), NEW u, u = (t + 1) % M, u # f
  PROVE  Between(M, f, u, n + 1)
<1>1. ASSUME NEW c \in 0 .. M + M - 1, NEW d, d = c % M
      PROVE  d = IF c < M THEN c ELSE c - M
  BY <1>1, Turn
<1>2. t + 1 \in 0 .. M + M - 1
  OBVIOUS
<1>3. u = IF t + 1 < M THEN t + 1 ELSE t + 1 - M
  BY <1>1, <1>2
<1> QED  BY <1>3 DEF Between

\* What queue_size, queue_is_empty and queue_is_full say about front and tail.
LEMMA Sizes ==
  ASSUME ActorTypes
  PROVE  /\ max_size \in Nat \ {0} /\ queue_size \in 0 .. max_size - 1
         /\ queue_is_empty <=> queue_size = 0
         /\ queue_is_full <=> queue_size = max_size - 1
         /\ (front + queue_size) % max_size = tail
         /\ (tail + 1) % max_size \in 0 .. max_size - 1
         /\ \A k \in 1 .. queue_size : (front + k - 1) % max_size \in 0 .. max_size - 1
                                       /\ (front + k - 1) % max_size # tail
<1>1. max_size \in Nat \ {0}
  BY ActorAssumption DEF max_size
<1>2. front \in 0 .. max_size - 1 /\ tail \in 0 .. max_size - 1
  BY DEF ActorTypes
<1>3. queue_size = IF tail >= front THEN tail - front ELSE max_size - front + tail
  BY DEF queue_size
<1> HIDE DEF queue_size
<1>4. IsRing(max_size, front, tail, queue_size)
  BY <1>1, <1>2, <1>3, Ring
<1> QED  BY <1>1, <1>4 DEF queue_is_empty, queue_is_full, IsRing

\* The places from front to tail, read as a sequence.
LEMMA QueuedIsASequence ==
  ASSUME ActorTypes
  PROVE  /\ Queued \in Seq(Kind \cup {Exit, Null}) /\ Len(Queued) = queue_size
         /\ \A k \in 1 .. queue_size : Queued[k] = cyclic_buf[(front + k - 1) % max_size]
<1>1. /\ queue_size \in Nat
      /\ \A k \in 1 .. queue_size :
           cyclic_buf[(front + k - 1) % max_size] \in Kind \cup {Exit, Null}
  BY Sizes DEF ActorTypes
<1> QED  BY <1>1 DEF Queued
-----------------------------------------------------------------------------
\* How often m is in a sequence is a natural number.
LEMMA CountIsANumber ==
  ASSUME NEW q, Len(q) \in Nat, NEW m
  PROVE  Count(q, m) \in Nat /\ IsFiniteSet({k \in 1 .. Len(q) : q[k] = m})
<1>1. IsFiniteSet(1 .. Len(q))
  BY FS_Interval
<1>2. IsFiniteSet({k \in 1 .. Len(q) : q[k] = m})
  BY <1>1, FS_Subset
<1> QED  BY <1>2, FS_CardinalityType DEF Count

\* It is 0 for a sequence without m.
LEMMA CountNothing ==
  ASSUME NEW q, Len(q) \in Nat, NEW m
  PROVE  Count(q, m) = 0 <=> ~ Has(q, m)
<1>1. IsFiniteSet({k \in 1 .. Len(q) : q[k] = m})
  BY CountIsANumber
<1>2. Count(q, m) = 0 <=> {k \in 1 .. Len(q) : q[k] = m} = {}
  BY <1>1, FS_EmptySet DEF Count
<1> QED  BY <1>2 DEF Has

\* A message more is counted once more.
LEMMA CountAppend ==
  ASSUME NEW S, NEW q \in Seq(S), NEW e \in S, NEW m
  PROVE  Count(Append(q, e), m) = Count(q, m) + IF e = m THEN 1 ELSE 0
<1> DEFINE K == {k \in 1 .. Len(q) : q[k] = m}
           L == {k \in 1 .. Len(Append(q, e)) : Append(q, e)[k] = m}
<1>1. /\ Len(q) \in Nat /\ Len(Append(q, e)) = Len(q) + 1 /\ Append(q, e)[Len(q) + 1] = e
      /\ \A k \in 1 .. Len(q) : Append(q, e)[k] = q[k]
  OBVIOUS
<1>2. IsFiniteSet(K) /\ Cardinality(K) \in Nat
  BY <1>1, CountIsANumber, FS_CardinalityType
<1>3. CASE e = m
  <2>1. L = K \cup {Len(q) + 1} /\ Len(q) + 1 \notin K
    BY <1>1, <1>3
  <2> HIDE DEF K, L
  <2>2. Cardinality(L) = Cardinality(K) + 1
    BY <1>2, <2>1, FS_AddElement
  <2> QED  BY <1>3, <2>2 DEF K, L, Count
<1>4. CASE e # m
  <2>1. L = K
    BY <1>1, <1>4
  <2> HIDE DEF K, L
  <2>2. Cardinality(L) = Cardinality(K) + 0
    BY <1>2, <2>1
  <2> QED  BY <1>4, <2>2 DEF K, L, Count
<1> QED  BY <1>3, <1>4
-----------------------------------------------------------------------------
\* The steps of the senders, of main() and of the actor.
LEMMA ActorSteps ==
  ASSUME [ActorNext]_actorVars
  PROVE  \/ \E t \in Posting :
              \/ SendLock(t) \/ EnqueueFails(t) \/ EnqueueStore(t) \/ EnqueueAdvance(t)
              \/ SendSignal(t)
         \/ \E s \in Sender : SenderEnds(s)
         \/ MainJoins \/ MainFinalizes
         \/ ActorLock \/ ActorWait \/ ActorResume \/ ActorDrain \/ ActorCount
         \/ ActorSpuriousWakeup \/ UNCHANGED actorVars
  BY DEF ActorNext, ActorMain, Post, Actor, ActorTerminated, Posting

\* Senders, main and the actor are different threads.
LEMMA ActorNames ==
  /\ "main" \notin Sender /\ "actor" \notin Posting
  /\ NoThread \notin Posting \cup {"actor"}
  /\ Posting = Sender \cup {"main"}
  BY ActorAssumption DEF Posting, NoThread

\* What is sent is a message of its sender, or Exit from main().
LEMMA MessageIs ==
  ASSUME ActorTypes, SenderInv, NEW t \in Posting, aqPc[t] \in {"enqueue", "advance", "signal"}
  PROVE  /\ Message(t) \in Kind \cup {Exit} /\ Message(t) # Null
         /\ Message(t) = Exit <=> t = "main"
         /\ t # "main" => Message(t) = aqI[t] /\ aqI[t] \in Kind
  BY ActorNames, ActorAssumption
  DEF Message, ActorTypes, SenderInv, Kind, Exit, Null
-----------------------------------------------------------------------------
\* What the steps do to what is queued.
SameQueue == Queued' = Queued /\ queue_size' = queue_size

\* Who touches neither the ring nor its ends leaves the queue as it is.
LEMMA QueueStands ==
  ASSUME UNCHANGED cyclicQueue
  PROVE  SameQueue
  BY DEF cyclicQueue, SameQueue, Queued, queue_size

\* The place at tail is not part of the queue before tail moves.
LEMMA StoreKeeps ==
  ASSUME ActorTypes, NEW t, EnqueueStore(t)
  PROVE  SameQueue
<1>1. queue_size' = queue_size
  BY DEF EnqueueStore, queue_size
<1>2. /\ cyclic_buf' = [cyclic_buf EXCEPT ![tail] = Message(t)]
      /\ front' = front /\ tail' = tail /\ max_size' = max_size
  BY DEF EnqueueStore
<1>3. ASSUME NEW k \in 1 .. queue_size
      PROVE  cyclic_buf'[(front + k - 1) % max_size] = cyclic_buf[(front + k - 1) % max_size]
  BY <1>2, Sizes DEF ActorTypes
<1>4. Queued' = Queued
  BY <1>1, <1>2, <1>3 DEF Queued
<1> QED  BY <1>1, <1>4 DEF SameQueue

\* Moving tail adds the message that has been stored there.
LEMMA AdvanceAppends ==
  ASSUME ActorTypes, StoreInv, NEW t \in Posting, EnqueueAdvance(t)
  PROVE  Queued' = Append(Queued, Message(t)) /\ queue_size' = queue_size + 1
<1>1. ~ queue_is_full /\ cyclic_buf[tail] = Message(t)
  BY DEF StoreInv, EnqueueAdvance
<1>2. /\ cyclic_buf' = cyclic_buf /\ front' = front /\ max_size' = max_size
      /\ tail' = (tail + 1) % max_size /\ tail' # front
  BY <1>1 DEF EnqueueAdvance, queue_is_full
<1>3. /\ max_size \in Nat \ {0} /\ front \in 0 .. max_size - 1 /\ tail \in 0 .. max_size - 1
  BY Sizes DEF ActorTypes
<1>4. queue_size' = queue_size + 1
  <2>1. queue_size = IF tail >= front THEN tail - front ELSE max_size - front + tail
    BY DEF queue_size
  <2>2. queue_size' = IF tail' >= front THEN tail' - front ELSE max_size - front + tail'
    BY <1>2 DEF queue_size
  <2>3. PICK u : u = tail'
    OBVIOUS
  <2>4. Between(max_size, front, tail, queue_size) /\ u = (tail + 1) % max_size /\ u # front
    BY <1>2, <2>1, <2>3 DEF Between
  <2>5. Between(max_size, front, u, queue_size + 1)
    BY ONLY <1>3, <2>4, RingGrows
  <2> QED  BY <2>2, <2>3, <2>5 DEF Between
<1>5. /\ Queued \in Seq(Kind \cup {Exit, Null}) /\ Len(Queued) = queue_size
      /\ queue_size \in Nat /\ (front + queue_size) % max_size = tail
  BY Sizes, QueuedIsASequence
<1>6. Queued' = [k \in 1 .. queue_size + 1 |-> cyclic_buf[(front + k - 1) % max_size]]
  BY <1>2, <1>4 DEF Queued
<1>7. Queued = [k \in 1 .. queue_size |-> cyclic_buf[(front + k - 1) % max_size]]
  BY DEF Queued
<1> HIDE DEF Queued, queue_size
<1>8. PICK q : q = Append(Queued, Message(t))
  OBVIOUS
<1>10. /\ q \in Seq(Kind \cup {Exit, Null}) /\ Len(q) = queue_size + 1
       /\ q[queue_size + 1] = Message(t) /\ \A k \in 1 .. queue_size : q[k] = Queued[k]
  <2>1. Message(t) \in Kind \cup {Exit, Null}
    BY <1>1, <1>3 DEF ActorTypes
  <2> QED  BY <1>5, <1>8, <2>1
<1>11. q = [k \in 1 .. queue_size + 1 |-> q[k]]
  BY <1>10
<1>9. ASSUME NEW k \in 1 .. queue_size + 1
      PROVE  cyclic_buf[(front + k - 1) % max_size]
               = q[k]
  <2>1. CASE k = queue_size + 1
    <3>1. front + k - 1 = front + queue_size
      BY <1>3, <1>5, <2>1
    <3> QED  BY <1>1, <1>5, <1>10, <2>1, <3>1
  <2>2. CASE k # queue_size + 1
    <3>1. k \in 1 .. queue_size
      BY <1>5, <2>2
    <3> QED  BY <1>7, <1>10, <2>2, <3>1
  <2> QED  BY <2>1, <2>2
<1> QED  BY <1>4, <1>6, <1>8, <1>9, <1>11

\* No place is Null, so that the actor takes the whole queue and leaves it empty.
LEMMA DrainTakesAll ==
  ASSUME ActorTypes, QueuedInv, ActorDrain
  PROVE  /\ v' = Queued /\ queue_size' = 0 /\ Queued' = <<>> /\ front' = tail
         /\ cyclic_buf' \in [0 .. max_size - 1 -> Kind \cup {Exit, Null}]
<1> DEFINE S == {k \in 0 .. queue_size : \A j \in 1 .. k : Queued[j] # Null}
<1>1. /\ queue_size \in Nat /\ (front + queue_size) % max_size = tail
      /\ Queued \in Seq(Kind \cup {Exit, Null}) /\ Len(Queued) = queue_size
  BY Sizes, QueuedIsASequence
<1> HIDE DEF Queued, queue_size
<1>2. queue_size \in S /\ \A k \in S : k <= queue_size
  BY <1>1 DEF QueuedInv
<1>3. Max(S) = queue_size
  <2>1. Max(S) = CHOOSE x \in S : \A y \in S : x >= y
    BY DEF Max
  <2>2. \A x \in S : (\A y \in S : x >= y) => x = queue_size
    BY <1>1, <1>2
  <2>3. \A y \in S : queue_size >= y
    BY <1>1, <1>2
  <2> HIDE DEF S
  <2> QED  BY <1>2, <2>1, <2>2, <2>3
<1>4. /\ v' = SubSeq(Queued, 1, queue_size)
      /\ front' = (front + queue_size) % max_size
      /\ cyclic_buf' = [s \in 0 .. max_size - 1 |->
                             IF \E k \in 0 .. queue_size - 1 : s = (front + k) % max_size
                             THEN Null ELSE cyclic_buf[s]]
      /\ tail' = tail
  BY <1>3 DEF ActorDrain
<1>5. v' = Queued
  BY <1>1, <1>4
<1>6. front' = tail
  BY <1>1, <1>4
<1>7. queue_size' = 0
  BY <1>4, <1>6 DEF queue_size, ActorTypes
<1>8. Queued' = <<>>
  BY <1>7 DEF Queued
<1>9. cyclic_buf' \in [0 .. max_size - 1 -> Kind \cup {Exit, Null}]
  BY <1>4 DEF ActorTypes
<1> QED  BY <1>5, <1>6, <1>7, <1>8, <1>9

\* The queue holds messages only.
LEMMA QueuedIsMessages ==
  ASSUME ActorTypes, QueuedInv
  PROVE  Queued \in Seq(Kind \cup {Exit})
<1>1. /\ Queued \in Seq(Kind \cup {Exit, Null}) /\ Len(Queued) = queue_size
      /\ \A k \in 1 .. queue_size : Queued[k] # Null
  BY QueuedIsASequence DEF QueuedInv
<1> HIDE DEF Queued, queue_size
<1> QED  BY <1>1
-----------------------------------------------------------------------------
\* At first the queue is empty and nobody has sent anything.
LEMMA ActorInitInv == ActorInit => ActorIInv
<1> SUFFICES ASSUME ActorInit PROVE ActorIInv
  OBVIOUS
<1> USE ActorAssumption, ActorNames DEF ActorInit
<1>1. max_size \in Nat \ {0}
  BY DEF max_size
<1>2. ActorTypes
  BY <1>1 DEF ActorTypes, NoThread
<1>3. queue_size = 0 /\ Queued = <<>> /\ queue_is_empty
  BY DEF queue_size, Queued, queue_is_empty
<1>4. ActorPlaces
  BY DEF ActorPlaces, Places, Busy
<1>5. SenderInv /\ StoreInv /\ VectorInv /\ SleepIsJustified
  BY DEF SenderInv, StoreInv, VectorInv, SleepIsJustified, Posting
<1>6. QueuedInv /\ ExitInv
  BY <1>3 DEF QueuedInv, ExitInv, Has, Kind, Exit
<1>7. EveryMessageIsSomewhere
  <2> SUFFICES ASSUME NEW m \in Kind PROVE Posted(m) = 0 /\ Count(v, m) = 0 /\ Count(Queued, m) = 0
    BY DEF EveryMessageIsSomewhere
  <2>1. {s \in Sender : aqI[s] > m \/ (aqI[s] = m /\ aqPc[s] = "signal")} = {}
    BY DEF Kind
  <2>2. Posted(m) = Cardinality({s \in Sender : aqI[s] > m \/ (aqI[s] = m /\ aqPc[s] = "signal")})
    BY DEF Posted
  <2>3. Posted(m) = 0
    BY <2>1, <2>2, FS_EmptySet
  <2>4. Count(<<>>, m) = 0
    <3>1. PICK e : e = <<>>
      OBVIOUS
    <3>2. Len(e) = 0 /\ ~ Has(e, m)
      BY <3>1 DEF Has
    <3> QED  BY <3>1, <3>2, CountNothing
  <2> QED  BY <1>3, <2>3, <2>4
<1> QED  BY <1>2, <1>4, <1>5, <1>6, <1>7 DEF ActorIInv

\* Every step keeps the variables in their sets.
LEMMA ActorTypesStep == ActorIInv /\ [ActorNext]_actorVars => ActorTypes'
<1> SUFFICES ASSUME ActorIInv, [ActorNext]_actorVars PROVE ActorTypes'
  OBVIOUS
<1> USE DEF ActorIInv, ActorTypes, cyclicQueue, actorSync
<1>1. ASSUME NEW t \in Posting, SendLock(t) PROVE ActorTypes'
  BY <1>1 DEF SendLock, Lock
<1>2. ASSUME NEW t \in Posting, EnqueueFails(t) PROVE ActorTypes'
  BY <1>2, MessageIs DEF EnqueueFails
<1>3. ASSUME NEW t \in Posting, EnqueueStore(t) PROVE ActorTypes'
  BY <1>3, MessageIs DEF EnqueueStore
<1>4. ASSUME NEW t \in Posting, EnqueueAdvance(t) PROVE ActorTypes'
  BY <1>4, Sizes DEF EnqueueAdvance
<1>5. ASSUME NEW t \in Posting, SendSignal(t) PROVE ActorTypes'
  <2>1. aqI' \in [Sender -> 0 .. MSGS]
    <3>1. CASE t = "main"
      BY <1>5, <3>1 DEF SendSignal, AfterSend
    <3>2. CASE t # "main"
      <4>1. t \in Sender /\ aqI[t] \in 0 .. MSGS /\ aqI[t] < MSGS /\ MSGS \in Nat
        BY <1>5, <3>2, ActorAssumption DEF SendSignal, SenderInv, Posting
      <4>2. aqI' = [aqI EXCEPT ![t] = aqI[t] + 1] /\ aqI \in [Sender -> 0 .. MSGS]
        BY <1>5, <3>2 DEF SendSignal, AfterSend
      <4>3. PICK n : n = aqI[t] + 1
        OBVIOUS
      <4>4. n \in 0 .. MSGS
        BY ONLY <4>1, <4>3
      <4> QED  BY ONLY <4>2, <4>3, <4>4
    <3> QED  BY <3>1, <3>2
  <2>2. cond' \subseteq {"actor"}
    BY <1>5 DEF SendSignal, CondSignal
  <2>3. aqMutex' = NoThread /\ UNCHANGED <<cyclicQueue, v, buf, dropped>>
    BY <1>5 DEF SendSignal, Unlock
  <2> QED  BY <2>1, <2>2, <2>3
<1>6. ASSUME NEW s \in Sender, SenderEnds(s) PROVE ActorTypes'
  BY <1>6 DEF SenderEnds
<1>7. CASE MainJoins \/ MainFinalizes
  BY <1>7 DEF MainJoins, MainFinalizes
<1>8. CASE ActorLock \/ ActorWait \/ ActorResume
  BY <1>8 DEF ActorLock, ActorWait, ActorResume, Lock, CondWait, CondResume
<1>9. CASE ActorDrain
  <2>1. v' \in Seq(Kind \cup {Exit})
    BY <1>9, DrainTakesAll, QueuedIsMessages
  <2>2. /\ cyclic_buf' \in [0 .. max_size - 1 -> Kind \cup {Exit, Null}]
        /\ front' \in 0 .. max_size - 1
    BY <1>9, DrainTakesAll
  <2> QED  BY <1>9, <2>1, <2>2 DEF ActorDrain, Unlock
<1>10. CASE ActorCount
  <2>1. \A m \in Kind : Count(v, m) \in Nat
    <3>1. Len(v) \in Nat
      OBVIOUS
    <3> QED  BY <3>1, CountIsANumber
  <2> QED  BY <1>10, <2>1 DEF ActorCount
<1>11. CASE ActorSpuriousWakeup \/ UNCHANGED actorVars
  BY <1>11 DEF ActorSpuriousWakeup, Spurious, actorVars
<1> QED
  BY <1>1, <1>2, <1>3, <1>4, <1>5, <1>6, <1>7, <1>8, <1>9, <1>10, <1>11, ActorSteps

\* A thread goes on to another place, with the mutex where it needs it.
LEMMA GoesOn ==
  ASSUME ActorPlaces, NEW t \in Posting \cup {"actor"}, NEW l \in Places(t),
         aqPc' = [aqPc EXCEPT ![t] = l],
         \/ l \in Busy /\ aqMutex' = t /\ (aqPc[t] \in Busy \/ aqMutex = NoThread)
         \/ l \notin Busy /\ aqPc[t] \in Busy /\ aqMutex' = NoThread
         \/ l \notin Busy /\ aqPc[t] \notin Busy /\ aqMutex' = aqMutex,
         cond' \subseteq cond \/ (t = "actor" /\ l = "wait"),
         t = "actor" => "actor" \notin cond \/ l = "wait"
  PROVE  ActorPlaces'
<1> USE ActorNames DEF ActorPlaces
<1>0. \/ l \in Busy /\ aqMutex' = t /\ (aqPc[t] \in Busy \/ aqMutex = NoThread)
      \/ l \notin Busy /\ aqPc[t] \in Busy /\ aqMutex' = NoThread
      \/ l \notin Busy /\ aqPc[t] \notin Busy /\ aqMutex' = aqMutex
  OBVIOUS
<1>1. /\ DOMAIN aqPc' = Posting \cup {"actor"} /\ aqPc'[t] = l
      /\ aqPc' = [u \in Posting \cup {"actor"} |-> aqPc'[u]]
      /\ \A u \in Posting \cup {"actor"} : u # t => aqPc'[u] = aqPc[u]
  OBVIOUS
<1> HIDE DEF Busy, Places
<1>2. ASSUME NEW u \in Posting \cup {"actor"}
      PROVE  aqPc'[u] \in Places(u) /\ (aqMutex' = u <=> aqPc'[u] \in Busy)
  <2>0. /\ aqPc[u] \in Places(u) /\ (aqMutex = u <=> aqPc[u] \in Busy)
        /\ (aqMutex = t <=> aqPc[t] \in Busy) /\ NoThread # u /\ NoThread # t
    OBVIOUS
  <2>1. CASE u = t
    BY ONLY <1>0, <1>1, <2>0, <2>1, l \in Places(t)
  <2>2. CASE u # t
    BY ONLY <1>0, <1>1, <2>0, <2>2
  <2> QED  BY <2>1, <2>2
<1>3. "actor" \in cond' => aqPc'["actor"] = "wait"
  BY <1>1
<1> QED  BY <1>1, <1>2, <1>3

\* A thread is where it owns the mutex exactly when it does.
LEMMA ActorPlacesStep == ActorTypes /\ ActorPlaces /\ [ActorNext]_actorVars => ActorPlaces'
<1> SUFFICES ASSUME ActorTypes, ActorPlaces, [ActorNext]_actorVars PROVE ActorPlaces'
  OBVIOUS
<1> USE DEF ActorGoto, actorSync
<1>0. /\ "actor" \in cond => aqPc["actor"] = "wait"
      /\ Sender \subseteq Posting /\ "main" \in Posting
      /\ \A t \in Posting : t # "actor" /\ (t \in Sender <=> t # "main")
  BY ActorNames DEF ActorPlaces, ActorTypes
<1>1. ASSUME NEW t \in Posting, SendLock(t) PROVE ActorPlaces'
  BY <1>0, <1>1, GoesOn DEF SendLock, Lock, Places, Busy
<1>2. ASSUME NEW t \in Posting, EnqueueFails(t) \/ EnqueueStore(t) \/ EnqueueAdvance(t)
      PROVE  ActorPlaces'
  <2>1. aqMutex' = aqMutex /\ aqMutex = t /\ cond' = cond
    BY <1>2 DEF EnqueueFails, EnqueueStore, EnqueueAdvance, ActorPlaces, Busy
  <2> QED
    BY <1>0, <1>2, <2>1, GoesOn DEF EnqueueFails, EnqueueStore, EnqueueAdvance, Places, Busy
<1>3. ASSUME NEW t \in Posting, SendSignal(t) PROVE ActorPlaces'
  <2>1. cond' \subseteq cond
    BY <1>3 DEF SendSignal, CondSignal
  <2> QED  BY <1>0, <1>3, <2>1, GoesOn DEF SendSignal, AfterSend, Unlock, Places, Busy
<1>4. ASSUME NEW s \in Sender, SenderEnds(s) PROVE ActorPlaces'
  BY <1>0, <1>4, GoesOn DEF SenderEnds, Places, Busy
<1>5. CASE MainJoins \/ MainFinalizes
  BY <1>0, <1>5, GoesOn DEF MainJoins, MainFinalizes, Places, Busy
<1>6. CASE ActorLock \/ ActorResume
  BY <1>0, <1>6, GoesOn DEF ActorLock, ActorResume, Lock, CondResume, Places, Busy
<1>7. CASE ActorWait
  BY <1>0, <1>7, GoesOn DEF ActorWait, CondWait, Places, Busy
<1>8. CASE ActorDrain \/ ActorCount
  BY <1>0, <1>8, GoesOn DEF ActorDrain, ActorCount, Unlock, Places, Busy
<1>9. CASE ActorSpuriousWakeup
  BY <1>9 DEF ActorPlaces, ActorSpuriousWakeup, Spurious
<1>10. CASE UNCHANGED actorVars
  BY <1>10 DEF ActorPlaces, actorVars
<1> QED
  BY <1>1, <1>2, <1>3, <1>4, <1>5, <1>6, <1>7, <1>8, <1>9, <1>10, ActorSteps

\* A sender that is sending has a message to send; it ends when all are sent.
LEMMA SenderStep == ActorIInv /\ [ActorNext]_actorVars => SenderInv'
<1> SUFFICES ASSUME ActorIInv, [ActorNext]_actorVars, NEW s \in Sender
             PROVE  /\ aqPc'[s] \in {"enqueue", "advance", "signal"} => aqI'[s] < MSGS
                    /\ aqPc'[s] = "ended" => aqI'[s] = MSGS
  BY DEF SenderInv
<1>0. /\ s # "main" /\ s # "actor" /\ aqI[s] \in 0 .. MSGS /\ MSGS \in Nat
      /\ aqI \in [Sender -> 0 .. MSGS]
      /\ aqPc[s] \in {"enqueue", "advance", "signal"} => aqI[s] < MSGS
      /\ aqPc[s] = "ended" => aqI[s] = MSGS
      /\ DOMAIN aqPc = Posting \cup {"actor"}
  BY ActorNames, ActorAssumption DEF ActorIInv, SenderInv, ActorTypes, ActorPlaces, Posting
<1> USE <1>0 DEF ActorGoto
<1>1. ASSUME NEW t \in Posting,
             SendLock(t) \/ EnqueueFails(t) \/ EnqueueStore(t) \/ EnqueueAdvance(t)
      PROVE  /\ aqPc'[s] \in {"enqueue", "advance", "signal"} => aqI'[s] < MSGS
             /\ aqPc'[s] = "ended" => aqI'[s] = MSGS
  BY <1>1 DEF SendLock, EnqueueFails, EnqueueStore, EnqueueAdvance, Posting
<1>2. ASSUME NEW t \in Posting, SendSignal(t)
      PROVE  /\ aqPc'[s] \in {"enqueue", "advance", "signal"} => aqI'[s] < MSGS
             /\ aqPc'[s] = "ended" => aqI'[s] = MSGS
  BY <1>2 DEF SendSignal, AfterSend, Posting
<1>3. ASSUME NEW u \in Sender, SenderEnds(u)
      PROVE  /\ aqPc'[s] \in {"enqueue", "advance", "signal"} => aqI'[s] < MSGS
             /\ aqPc'[s] = "ended" => aqI'[s] = MSGS
  BY <1>3 DEF SenderEnds, Posting
<1>4. CASE MainJoins \/ MainFinalizes
  BY <1>4 DEF MainJoins, MainFinalizes, Posting
<1>5. CASE ActorLock \/ ActorWait \/ ActorResume
  BY <1>5 DEF ActorLock, ActorWait, ActorResume, Posting
<1>6. CASE ActorDrain \/ ActorCount
  BY <1>6 DEF ActorDrain, ActorCount, Posting
<1>7. CASE ActorSpuriousWakeup \/ UNCHANGED actorVars
  BY <1>7 DEF ActorSpuriousWakeup, actorVars
<1> QED  BY <1>1, <1>2, <1>3, <1>4, <1>5, <1>6, <1>7, ActorSteps

\* The vector holds something only until it has been counted.
LEMMA VectorStep == ActorIInv /\ [ActorNext]_actorVars => VectorInv'
<1> SUFFICES ASSUME ActorIInv, [ActorNext]_actorVars PROVE VectorInv'
  OBVIOUS
<1>0. "actor" \notin Posting /\ DOMAIN aqPc = Posting \cup {"actor"}
  BY ActorNames DEF ActorIInv, ActorPlaces
<1> USE <1>0 DEF ActorIInv, VectorInv, ActorGoto
<1>1. ASSUME NEW t \in Posting,
             \/ SendLock(t) \/ EnqueueFails(t) \/ EnqueueStore(t)
             \/ EnqueueAdvance(t) \/ SendSignal(t)
      PROVE  VectorInv'
  BY <1>1 DEF SendLock, EnqueueFails, EnqueueStore, EnqueueAdvance, SendSignal, AfterSend
<1>2. ASSUME NEW u \in Sender, SenderEnds(u) PROVE VectorInv'
  BY <1>2, ActorNames DEF SenderEnds
<1>3. CASE \/ MainJoins \/ MainFinalizes \/ ActorLock \/ ActorWait \/ ActorResume \/ ActorDrain
           \/ ActorCount \/ ActorSpuriousWakeup \/ UNCHANGED actorVars
  BY <1>3, ActorNames
  DEF MainJoins, MainFinalizes, ActorLock, ActorWait, ActorResume, ActorDrain, ActorCount,
      ActorSpuriousWakeup, actorVars, ActorPlaces
<1> QED  BY <1>1, <1>2, <1>3, ActorSteps

\* Whoever comes to fill the queue holds the mutex until the actor is called.
LEMMA SleepStep == ActorIInv /\ [ActorNext]_actorVars => SleepIsJustified'
<1> SUFFICES ASSUME ActorIInv, [ActorNext]_actorVars PROVE SleepIsJustified'
  OBVIOUS
<1>0. /\ cond \subseteq {"actor"} /\ NoThread \notin Posting \cup {"actor"}
      /\ "actor" \in cond => aqPc["actor"] = "wait"
      /\ \A t \in Posting : aqPc[t] \in Busy => aqMutex = t
      /\ SleepIsJustified
  BY ActorNames DEF ActorIInv, ActorPlaces, ActorTypes
<1> USE <1>0 DEF SleepIsJustified, queue_is_empty, cyclicQueue, actorSync
<1>1. ASSUME NEW t \in Posting,
             \/ SendLock(t) \/ EnqueueFails(t) \/ EnqueueStore(t)
             \/ EnqueueAdvance(t) \/ SendSignal(t)
      PROVE  SleepIsJustified'
  BY <1>1
  DEF SendLock, EnqueueFails, EnqueueStore, EnqueueAdvance, SendSignal, CondSignal, Lock,
              Busy
<1>2. ASSUME NEW u \in Sender, SenderEnds(u) PROVE SleepIsJustified'
  BY <1>2 DEF SenderEnds
<1>3. CASE \/ MainJoins \/ MainFinalizes \/ ActorLock \/ ActorWait \/ ActorResume \/ ActorDrain
           \/ ActorCount \/ ActorSpuriousWakeup \/ UNCHANGED actorVars
  BY <1>3
  DEF MainJoins, MainFinalizes, ActorLock, ActorWait, ActorResume, ActorDrain, ActorCount,
      ActorSpuriousWakeup, actorVars, CondWait, CondResume, Lock, Spurious
<1> QED  BY <1>1, <1>2, <1>3, ActorSteps

\* All steps but two leave the queue as it is.
LEMMA QueueSteps ==
  ASSUME ActorIInv, [ActorNext]_actorVars
  PROVE  \/ SameQueue
         \/ \E t \in Posting : EnqueueAdvance(t)
         \/ ActorDrain
<1>1. ASSUME NEW t \in Posting, EnqueueStore(t) PROVE SameQueue
  BY <1>1, StoreKeeps DEF ActorIInv
<1>2. ASSUME NEW t \in Posting, SendLock(t) \/ EnqueueFails(t) \/ SendSignal(t) PROVE SameQueue
  BY <1>2, QueueStands DEF SendLock, EnqueueFails, SendSignal
<1>3. ASSUME NEW s \in Sender, SenderEnds(s) PROVE SameQueue
  BY <1>3, QueueStands DEF SenderEnds
<1>4. CASE \/ MainJoins \/ MainFinalizes \/ ActorLock \/ ActorWait \/ ActorResume
           \/ ActorCount \/ ActorSpuriousWakeup \/ UNCHANGED actorVars
  BY <1>4, QueueStands
  DEF MainJoins, MainFinalizes, ActorLock, ActorWait, ActorResume, ActorCount,
      ActorSpuriousWakeup,
      actorVars
<1> QED  BY <1>1, <1>2, <1>3, <1>4, ActorSteps

\* What is in the queue is a message.
LEMMA QueuedStep == ActorIInv /\ [ActorNext]_actorVars => QueuedInv'
<1> SUFFICES ASSUME ActorIInv, [ActorNext]_actorVars PROVE QueuedInv'
  OBVIOUS
<1>1. CASE SameQueue
  BY <1>1 DEF SameQueue, ActorIInv, QueuedInv
<1>2. ASSUME NEW t \in Posting, EnqueueAdvance(t) PROVE QueuedInv'
  <2>1. PICK q, e : q = Queued /\ e = Message(t)
    OBVIOUS
  <2>2. q \in Seq(Kind \cup {Exit}) /\ e \in Kind \cup {Exit}
    BY <1>2, <2>1, QueuedIsMessages, MessageIs DEF ActorIInv, EnqueueAdvance
  <2>3. Len(q) = queue_size
    BY <2>1, QueuedIsASequence DEF ActorIInv
  <2>4. Queued' = Append(q, e) /\ queue_size' = Len(q) + 1
    BY <1>2, <2>1, <2>3, AdvanceAppends DEF ActorIInv
  <2>5. \A k \in 1 .. Len(q) + 1 : Append(q, e)[k] \in Kind \cup {Exit}
    BY <2>2
  <2>6. Null \notin Kind \cup {Exit}
    BY ActorAssumption DEF Null, Kind, Exit
  <2> QED  BY ONLY <2>4, <2>5, <2>6 DEF QueuedInv
<1>3. CASE ActorDrain
  BY <1>3, DrainTakesAll DEF ActorIInv, QueuedInv
<1> QED  BY <1>1, <1>2, <1>3, QueueSteps

\* Between storing a message and moving tail nobody else touches the queue.
LEMMA StoreStep == ActorIInv /\ [ActorNext]_actorVars => StoreInv'
<1> SUFFICES ASSUME ActorIInv, [ActorNext]_actorVars, NEW t \in Posting, aqPc'[t] = "advance"
             PROVE  ~ queue_is_full' /\ cyclic_buf'[tail'] = Message(t)'
  BY DEF StoreInv
<1> USE DEF ActorIInv, ActorGoto
<1>0. /\ DOMAIN aqPc = Posting \cup {"actor"} /\ "actor" \notin Posting
      /\ Posting = Sender \cup {"main"}
  BY ActorNames DEF ActorPlaces
<1>1. CASE aqPc[t] = "advance"
  <2>1. /\ ~ queue_is_full /\ cyclic_buf[tail] = Message(t)
        /\ aqMutex = t /\ aqMutex # NoThread /\ t # "actor"
        /\ \A u \in Posting \cup {"actor"} : u # t => aqPc[u] \notin Busy
    BY <1>1, ActorNames DEF StoreInv, ActorPlaces, Busy
  <2>2. UNCHANGED <<cyclicQueue, aqI>>
    <3>1. ASSUME NEW u \in Posting, \/ SendLock(u) \/ EnqueueFails(u) \/ EnqueueStore(u)
                                    \/ EnqueueAdvance(u) \/ SendSignal(u)
          PROVE  FALSE
      <4>1. u = t
        BY <2>1, <3>1
        DEF SendLock, EnqueueFails, EnqueueStore, EnqueueAdvance, SendSignal, Lock, Busy
      <4>2. aqPc'[t] # "advance"
        BY <1>0, <1>1, <3>1, <4>1
        DEF SendLock, EnqueueFails, EnqueueStore, EnqueueAdvance, SendSignal
      <4> QED  BY <4>2
    <3>2. ASSUME NEW u \in Sender, SenderEnds(u) PROVE UNCHANGED <<cyclicQueue, aqI>>
      BY <3>2 DEF SenderEnds
    <3>3. ~ (ActorLock \/ ActorWait \/ ActorResume \/ ActorDrain)
      BY <2>1 DEF ActorLock, ActorWait, ActorResume, ActorDrain, Lock, CondResume, Busy
    <3>4. CASE \/ MainJoins \/ MainFinalizes \/ ActorCount \/ ActorSpuriousWakeup
               \/ UNCHANGED actorVars
      BY <3>4 DEF MainJoins, MainFinalizes, ActorCount, ActorSpuriousWakeup, actorVars
    <3> QED  BY <3>1, <3>2, <3>3, <3>4, ActorSteps
  <2> QED  BY <2>1, <2>2 DEF cyclicQueue, queue_is_full, Message
<1>2. CASE aqPc[t] # "advance"
  <2>1. EnqueueStore(t)
    <3>1. ASSUME NEW u \in Posting,
                 SendLock(u) \/ EnqueueFails(u) \/ EnqueueAdvance(u) \/ SendSignal(u)
          PROVE  aqPc'[t] # "advance"
      BY <1>0, <1>2, <3>1 DEF SendLock, EnqueueFails, EnqueueAdvance, SendSignal, AfterSend
    <3>2. ASSUME NEW u \in Sender, SenderEnds(u) PROVE aqPc'[t] # "advance"
      BY <1>0, <1>2, <3>2 DEF SenderEnds
    <3>3. CASE \/ MainJoins \/ MainFinalizes \/ ActorLock \/ ActorWait \/ ActorResume \/ ActorDrain
               \/ ActorCount \/ ActorSpuriousWakeup \/ UNCHANGED actorVars
      BY <1>0, <1>2, <3>3
      DEF MainJoins, MainFinalizes, ActorLock, ActorWait, ActorResume, ActorDrain, ActorCount,
          ActorSpuriousWakeup, actorVars
    <3>4. ASSUME NEW u \in Posting, EnqueueStore(u) PROVE u = t
      BY <1>0, <1>2, <3>4 DEF EnqueueStore
    <3> QED  BY <3>1, <3>2, <3>3, <3>4, ActorSteps
  <2>2. aqPc[t] = "enqueue" /\ tail \in DOMAIN cyclic_buf
    BY <2>1, Sizes DEF EnqueueStore, ActorTypes
  <2> QED  BY <2>1, <2>2 DEF EnqueueStore, queue_is_full, Message
<1> QED  BY <1>1, <1>2

\* A message of one more.
LEMMA HasAppend ==
  ASSUME NEW S, NEW q \in Seq(S), NEW e \in S, NEW m
  PROVE  Has(Append(q, e), m) <=> Has(q, m) \/ e = m
<1>1. PICK r : r = Append(q, e)
  OBVIOUS
<1>2. /\ Len(q) \in Nat /\ Len(r) = Len(q) + 1 /\ r[Len(q) + 1] = e
      /\ \A k \in 1 .. Len(q) : r[k] = q[k]
  BY <1>1
<1>3. Has(r, m) <=> Has(q, m) \/ e = m
  BY <1>2 DEF Has
<1> QED  BY <1>1, <1>3

\* Exit is sent when all senders have ended, and whoever has taken it has taken all.
LEMMA ExitStep == ActorIInv /\ [ActorNext]_actorVars => ExitInv'
<1> SUFFICES ASSUME ActorIInv, [ActorNext]_actorVars PROVE ExitInv'
  OBVIOUS
<1>0. /\ DOMAIN aqPc = Posting \cup {"actor"} /\ "actor" \notin Posting /\ "main" \notin Sender
      /\ Posting = Sender \cup {"main"} /\ NoThread \notin Posting \cup {"actor"}
      /\ aqPc["main"] \in Places("main")
      /\ \A t \in Posting \cup {"actor"} : aqMutex = t <=> aqPc[t] \in Busy
  BY ActorNames DEF ActorIInv, ActorPlaces
<1>00. /\ aqPc["main"] # "join" => \A s \in Sender : aqPc[s] = "ended"
       /\ aqPc["main"] \in {"join", "send", "enqueue", "advance"} =>
            dropped[Exit] = 0 /\ ~ Has(Queued, Exit)
       /\ dropped[Exit] <= 1
       /\ Has(v, Exit) \/ aqPc["actor"] = "ended" =>
            aqPc["main"] \in {"finalize", "returned"} /\ queue_is_empty
       /\ dropped \in [Kind \cup {Exit} -> Nat] /\ Exit \notin Kind
  BY ActorAssumption DEF ActorIInv, ExitInv, ActorTypes, Exit, Kind
<1> USE <1>0, <1>00 DEF ActorGoto
<1>1. ASSUME UNCHANGED cyclicQueue PROVE Queued' = Queued /\ queue_is_empty' = queue_is_empty
  BY <1>1, QueueStands DEF SameQueue, queue_is_empty, cyclicQueue
<1> HIDE DEF Queued, queue_is_empty, Has
<1>2. ASSUME NEW t \in Posting, SendLock(t) PROVE ExitInv'
  BY <1>1, <1>2 DEF SendLock, ExitInv
<1>3. ASSUME NEW t \in Posting, EnqueueFails(t) PROVE ExitInv'
  <2>1. /\ Message(t) \in Kind \cup {Exit} /\ (Message(t) = Exit <=> t = "main")
    BY <1>3, MessageIs DEF EnqueueFails, ActorIInv
  <2>2. dropped'[Exit] = dropped[Exit] + IF t = "main" THEN 1 ELSE 0
    BY <1>3, <2>1 DEF EnqueueFails
  <2> QED  BY <1>1, <1>3, <2>2 DEF EnqueueFails, ExitInv
<1>4. ASSUME NEW t \in Posting, EnqueueStore(t) PROVE ExitInv'
  <2>1. Queued' = Queued
    BY <1>4, StoreKeeps DEF ActorIInv, SameQueue
  <2>2. queue_is_empty' = queue_is_empty
    BY <1>4 DEF EnqueueStore, queue_is_empty
  <2> QED  BY <1>4, <2>1, <2>2 DEF EnqueueStore, ExitInv
<1>5. ASSUME NEW t \in Posting, EnqueueAdvance(t) PROVE ExitInv'
  <2>1. Queued \in Seq(Kind \cup {Exit}) /\ Message(t) \in Kind \cup {Exit}
        /\ (Message(t) = Exit <=> t = "main")
    BY <1>5, QueuedIsMessages, MessageIs DEF ActorIInv, EnqueueAdvance
  <2>2. Queued' = Append(Queued, Message(t))
    BY <1>5, AdvanceAppends DEF ActorIInv
  <2>3. Has(Queued, Exit)' => Has(Queued, Exit) \/ t = "main"
    <3>1. PICK q, e : q = Queued /\ e = Message(t)
      OBVIOUS
    <3>2. Has(Append(q, e), Exit) <=> Has(q, Exit) \/ e = Exit
      BY <2>1, <3>1, HasAppend
    <3> QED  BY <2>1, <2>2, <3>1, <3>2 DEF Has
  <2>4. aqPc[t] \notin {"join", "finalize", "returned", "ended"}
    BY <1>5 DEF EnqueueAdvance
  <2> QED  BY <1>5, <2>3, <2>4 DEF EnqueueAdvance, ExitInv, Has
<1>6. ASSUME NEW t \in Posting, SendSignal(t) PROVE ExitInv'
  BY <1>1, <1>6 DEF SendSignal, AfterSend, ExitInv
<1>7. ASSUME NEW s \in Sender, SenderEnds(s) PROVE ExitInv'
  BY <1>1, <1>7 DEF SenderEnds, ExitInv
<1>8. CASE MainJoins \/ MainFinalizes
  BY <1>1, <1>8 DEF MainJoins, MainFinalizes, ExitInv
<1>9. CASE ActorLock \/ ActorWait \/ ActorResume
  BY <1>1, <1>9 DEF ActorLock, ActorWait, ActorResume, ExitInv
<1>10. CASE ActorDrain
  <2>1. v' = Queued /\ Queued' = <<>> /\ front' = tail /\ tail' = tail
    BY <1>10, DrainTakesAll DEF ActorIInv, ActorDrain
  <2>2. queue_is_empty' /\ ~ Has(Queued, Exit)'
    BY <2>1 DEF queue_is_empty, Has
  <2>3. Has(v, Exit)' <=> Has(Queued, Exit)
    BY <2>1 DEF Has
  <2>4. aqPc["main"] \notin Busy
    BY <1>10 DEF ActorDrain, Busy
  <2>5. Has(Queued, Exit) => aqPc["main"] \in {"finalize", "returned"}
    BY <2>4 DEF Places, Busy
  <2> QED  BY <1>10, <2>2, <2>3, <2>5 DEF ActorDrain, ExitInv
<1>11. CASE ActorCount
  <2>1. ~ Has(v, Exit)'
    BY <1>11 DEF ActorCount, Has
  <2>2. Count(v, Exit) > 0 => Has(v, Exit)
    <3>1. Len(v) \in Nat
      BY DEF ActorIInv, ActorTypes
    <3> QED  BY <3>1, CountNothing
  <2> QED  BY <1>1, <1>11, <2>1, <2>2 DEF ActorCount, ExitInv
<1>12. CASE ActorSpuriousWakeup \/ UNCHANGED actorVars
  BY <1>1, <1>12 DEF ActorSpuriousWakeup, actorVars, ExitInv
<1> QED
  BY <1>2, <1>3, <1>4, <1>5, <1>6, <1>7, <1>8, <1>9, <1>10, <1>11, <1>12, ActorSteps
-----------------------------------------------------------------------------
\* The senders that have handed over their message m.
Done(m) == {s \in Sender : aqI[s] > m \/ (aqI[s] = m /\ aqPc[s] = "signal")}

\* The senders that have handed over m can be counted.
LEMMA DoneIsFinite ==
  ASSUME NEW m
  PROVE  /\ Posted(m) = Cardinality(Done(m)) /\ IsFiniteSet(Done(m))
         /\ Posted(m) \in Nat /\ Posted(m) <= Cardinality(Sender) /\ Cardinality(Sender) \in Nat
<1>1. IsFiniteSet(Sender) /\ Done(m) \subseteq Sender
  BY ActorAssumption DEF Done
<1>2. IsFiniteSet(Done(m)) /\ Cardinality(Done(m)) <= Cardinality(Sender)
  BY <1>1, FS_Subset
<1>3. Cardinality(Done(m)) \in Nat /\ Cardinality(Sender) \in Nat
  BY <1>1, <1>2, FS_CardinalityType
<1>4. Posted(m) = Cardinality(Done(m))
  BY DEF Posted, Done
<1> QED  BY <1>2, <1>3, <1>4

\* A message is handed over when it is dropped or when tail moves.
LEMMA OneMorePosted ==
  ASSUME ActorIInv, NEW t \in Posting, EnqueueFails(t) \/ EnqueueAdvance(t), NEW m \in Kind
  PROVE  Posted(m)' = Posted(m) + IF Message(t) = m THEN 1 ELSE 0
<1>1. /\ aqPc[t] \in {"enqueue", "advance"} /\ aqPc' = [aqPc EXCEPT ![t] = "signal"] /\ aqI' = aqI
      /\ DOMAIN aqPc = Posting \cup {"actor"} /\ aqI \in [Sender -> 0 .. MSGS]
      /\ m \in Int /\ m # Exit
  <2>1. m \in Int /\ m # Exit
    BY ActorAssumption DEF Kind, Exit
  <2> QED
    BY <2>1 DEF EnqueueFails, EnqueueAdvance, ActorGoto, ActorIInv, ActorTypes, ActorPlaces
<1>2. \A s \in Sender : s # t => (s \in Done(m)' <=> s \in Done(m))
  BY <1>1 DEF Done, Posting
<1>3. t \in Sender => t \notin Done(m) \/ aqI[t] > m
  BY <1>1 DEF Done
<1>4. t \in Sender => (t \in Done(m)' <=> aqI[t] > m \/ aqI[t] = m)
  BY <1>1 DEF Done
<1>5. Done(m) \subseteq Sender /\ Done(m)' \subseteq Sender
  BY DEF Done
<1>6. CASE Message(t) = m
  <2>1. t \in Sender /\ aqI[t] = m /\ t # "main"
    BY <1>1, <1>6, ActorNames DEF Message
  <2>2. t \notin Done(m) /\ t \in Done(m)'
    BY <1>1, <1>3, <1>4, <2>1
  <2>3. Done(m)' = Done(m) \cup {t}
    BY <1>2, <1>5, <2>1, <2>2
  <2>4. Cardinality(Done(m) \cup {t}) = Cardinality(Done(m)) + 1
    BY <2>2, DoneIsFinite, FS_AddElement
  <2>5. Posted(m)' = Cardinality(Done(m)')
    BY DEF Posted, Done
  <2> QED  BY <1>6, <2>3, <2>4, <2>5, DoneIsFinite
<1>7. CASE Message(t) # m
  <2>1. t \in Sender => (t \in Done(m)' <=> t \in Done(m))
    <3>1. t \in Sender => aqI[t] # m
      BY <1>7, ActorNames DEF Message
    <3>2. t \in Sender => (t \in Done(m) <=> aqI[t] > m)
      BY <1>1, <3>1 DEF Done
    <3> QED  BY <1>4, <3>1, <3>2
  <2>2. Done(m)' = Done(m)
    BY <1>2, <1>5, <2>1
  <2>3. Posted(m)' = Cardinality(Done(m)')
    BY DEF Posted, Done
  <2> QED  BY <1>7, <2>2, <2>3, DoneIsFinite
<1> QED  BY <1>6, <1>7

\* All other steps hand over nothing.
LEMMA NoMorePosted ==
  ASSUME ActorIInv, [ActorNext]_actorVars, NEW m \in Kind,
         ~ \E t \in Posting : EnqueueFails(t) \/ EnqueueAdvance(t)
  PROVE  Posted(m)' = Posted(m)
<1>0. /\ DOMAIN aqPc = Posting \cup {"actor"} /\ "actor" \notin Posting /\ "main" \notin Sender
      /\ Posting = Sender \cup {"main"} /\ aqI \in [Sender -> 0 .. MSGS]
      /\ m \in Int /\ MSGS \in Nat
  BY ActorNames, ActorAssumption DEF ActorIInv, ActorPlaces, ActorTypes, Kind
<1> USE <1>0 DEF ActorGoto
<1> SUFFICES ASSUME NEW s \in Sender PROVE s \in Done(m)' <=> s \in Done(m)
  <2>1. Done(m)' = Done(m) => Posted(m)' = Posted(m)
    BY DEF Posted, Done
  <2>2. Done(m) \subseteq Sender /\ Done(m)' \subseteq Sender
    BY DEF Done
  <2> QED  BY <2>1, <2>2
<1>1. ASSUME NEW t \in Posting, SendLock(t) \/ EnqueueStore(t)
      PROVE  s \in Done(m)' <=> s \in Done(m)
  BY <1>1 DEF SendLock, EnqueueStore, Done
<1>2. ASSUME NEW t \in Posting, SendSignal(t) PROVE s \in Done(m)' <=> s \in Done(m)
  <2>1. CASE s = t
    <3>1. /\ aqPc[s] = "signal" /\ aqPc'[s] = "send" /\ aqI'[s] = aqI[s] + 1 /\ aqI[s] \in Int
      BY <1>2, <2>1 DEF SendSignal, AfterSend
    <3> QED  BY <3>1 DEF Done
  <2>2. CASE s # t
    <3>1. aqPc'[s] = aqPc[s] /\ aqI'[s] = aqI[s]
      BY <1>2, <2>2 DEF SendSignal, AfterSend
    <3> QED  BY <3>1 DEF Done
  <2> QED  BY <2>1, <2>2
<1>3. ASSUME NEW u \in Sender, SenderEnds(u) PROVE s \in Done(m)' <=> s \in Done(m)
  BY <1>3 DEF SenderEnds, Done
<1>4. CASE MainJoins \/ MainFinalizes
  BY <1>4 DEF MainJoins, MainFinalizes, Done
<1>5. CASE ActorLock \/ ActorWait \/ ActorResume
  BY <1>5 DEF ActorLock, ActorWait, ActorResume, Done
<1>6. CASE ActorDrain \/ ActorCount
  BY <1>6 DEF ActorDrain, ActorCount, Done
<1>7. CASE ActorSpuriousWakeup \/ UNCHANGED actorVars
  BY <1>7 DEF ActorSpuriousWakeup, actorVars, Done
<1> QED  BY <1>1, <1>2, <1>3, <1>4, <1>5, <1>6, <1>7, ActorSteps

Accounted(m) == Posted(m) = buf[m] + Count(v, m) + Count(Queued, m) + dropped[m]

\* Every message is accounted for, whatever step is taken.
LEMMA AccountStep == ActorIInv /\ [ActorNext]_actorVars => EveryMessageIsSomewhere'
<1> SUFFICES ASSUME ActorIInv, [ActorNext]_actorVars, NEW m \in Kind PROVE Accounted(m)'
  BY DEF EveryMessageIsSomewhere, Accounted
<1>0. /\ Posted(m) = buf[m] + Count(v, m) + Count(Queued, m) + dropped[m]
      /\ Posted(m) \in Nat /\ buf[m] \in Nat /\ dropped[m] \in Nat
      /\ Count(v, m) \in Nat /\ Count(Queued, m) \in Nat
      /\ buf \in [Kind -> Nat] /\ dropped \in [Kind \cup {Exit} -> Nat] /\ m # Exit
  <2>1. Len(v) \in Nat /\ Len(Queued) \in Nat
    <3>1. Len(Queued) = queue_size /\ queue_size \in Nat
      BY Sizes, QueuedIsASequence DEF ActorIInv
    <3> QED  BY <3>1 DEF ActorIInv, ActorTypes
  <2>2. Count(v, m) \in Nat /\ Count(Queued, m) \in Nat
    BY <2>1, CountIsANumber
  <2>3. m # Exit
    BY ActorAssumption DEF Kind, Exit
  <2> QED  BY <2>2, <2>3, DoneIsFinite DEF ActorIInv, ActorTypes, EveryMessageIsSomewhere
<1> USE <1>0
<1>1. ASSUME NEW t \in Posting, EnqueueFails(t) PROVE Accounted(m)'
  <2>1. Posted(m)' = Posted(m) + IF Message(t) = m THEN 1 ELSE 0
    BY <1>1, OneMorePosted
  <2>2. Message(t) \in Kind \cup {Exit}
    BY <1>1, MessageIs DEF ActorIInv, EnqueueFails
  <2>3. dropped'[m] = dropped[m] + IF Message(t) = m THEN 1 ELSE 0
    BY <1>1, <2>2 DEF EnqueueFails
  <2>4. Queued' = Queued
    BY <1>1, QueueStands DEF EnqueueFails, SameQueue
  <2>5. Count(Queued, m)' = Count(Queued, m) /\ Count(v, m)' = Count(v, m) /\ buf'[m] = buf[m]
    BY <1>1, <2>4 DEF EnqueueFails, Count
  <2> QED  BY <2>1, <2>3, <2>5 DEF Accounted
<1>2. ASSUME NEW t \in Posting, EnqueueAdvance(t) PROVE Accounted(m)'
  <2>1. Posted(m)' = Posted(m) + IF Message(t) = m THEN 1 ELSE 0
    BY <1>2, OneMorePosted
  <2>2. Queued \in Seq(Kind \cup {Exit}) /\ Message(t) \in Kind \cup {Exit}
    BY <1>2, QueuedIsMessages, MessageIs DEF ActorIInv, EnqueueAdvance
  <2>3. Queued' = Append(Queued, Message(t))
    BY <1>2, AdvanceAppends DEF ActorIInv
  <2>4. Count(Queued, m)' = Count(Queued, m) + IF Message(t) = m THEN 1 ELSE 0
    <3>1. PICK q, e : q = Queued /\ e = Message(t)
      OBVIOUS
    <3>2. Count(Append(q, e), m) = Count(q, m) + IF e = m THEN 1 ELSE 0
      <4>1. q \in Seq(Kind \cup {Exit}) /\ e \in Kind \cup {Exit}
        BY ONLY <2>2, <3>1
      <4> QED  BY ONLY <4>1, CountAppend
    <3>3. Count(Queued, m)' = Count(Append(q, e), m)
      BY <2>3, <3>1 DEF Count
    <3> QED  BY <3>1, <3>2, <3>3
  <2>5. Count(v, m)' = Count(v, m) /\ buf'[m] = buf[m] /\ dropped'[m] = dropped[m]
    BY <1>2 DEF EnqueueAdvance, Count
  <2> QED  BY <2>1, <2>4, <2>5 DEF Accounted
<1>3. ASSUME ~ \E t \in Posting : EnqueueFails(t) \/ EnqueueAdvance(t) PROVE Accounted(m)'
  <2>1. Posted(m)' = Posted(m)
    BY <1>3, NoMorePosted
  <2>2. CASE ActorDrain
    <3>1. v = <<>>
      BY <2>2 DEF ActorDrain, ActorIInv, VectorInv
    <3>2. v' = Queued /\ Queued' = <<>> /\ buf' = buf /\ dropped' = dropped
      BY <2>2, DrainTakesAll DEF ActorIInv, ActorDrain
    <3>3. Count(v, m) = 0 /\ Count(Queued, m)' = 0
      <4>1. PICK e : e = <<>>
        OBVIOUS
      <4>2. Len(e) = 0 /\ ~ Has(e, m)
        BY <4>1 DEF Has
      <4>3. Count(e, m) = 0
        BY <4>2, CountNothing
      <4> QED  BY <3>1, <3>2, <4>1, <4>3 DEF Count
    <3>4. Count(v, m)' = Count(Queued, m)
      BY <3>2 DEF Count
    <3> QED  BY <2>1, <3>2, <3>3, <3>4 DEF Accounted
  <2>3. CASE ActorCount
    <3>1. v' = <<>> /\ buf'[m] = buf[m] + Count(v, m) /\ dropped' = dropped /\ Queued' = Queued
      BY <2>3, QueueStands DEF ActorCount, SameQueue
    <3>2. Count(v, m)' = 0
      <4>1. PICK e : e = <<>>
        OBVIOUS
      <4>2. Len(e) = 0 /\ ~ Has(e, m)
        BY <4>1 DEF Has
      <4>3. Count(e, m) = 0
        BY <4>2, CountNothing
      <4> QED  BY <3>1, <4>1, <4>3 DEF Count
    <3>3. Count(Queued, m)' = Count(Queued, m)
      BY <3>1 DEF Count
    <3> QED  BY <2>1, <3>1, <3>2, <3>3 DEF Accounted
  <2>4. ASSUME ~ ActorDrain, ~ ActorCount PROVE Accounted(m)'
    <3>1. Queued' = Queued
      BY <1>3, <2>4, QueueSteps DEF SameQueue
    <3>2. UNCHANGED <<v, buf, dropped>>
      <4>1. ASSUME NEW t \in Posting, SendLock(t) \/ EnqueueStore(t) \/ SendSignal(t)
            PROVE  UNCHANGED <<v, buf, dropped>>
        BY <4>1 DEF SendLock, EnqueueStore, SendSignal
      <4>2. ASSUME NEW u \in Sender, SenderEnds(u) PROVE UNCHANGED <<v, buf, dropped>>
        BY <4>2 DEF SenderEnds
      <4>3. CASE \/ MainJoins \/ MainFinalizes \/ ActorLock \/ ActorWait \/ ActorResume
                 \/ ActorSpuriousWakeup \/ UNCHANGED actorVars
        BY <4>3 DEF MainJoins, MainFinalizes, ActorLock, ActorWait, ActorResume,
                    ActorSpuriousWakeup, actorVars
      <4> QED  BY <1>3, <2>4, <4>1, <4>2, <4>3, ActorSteps
    <3>3. Count(Queued, m)' = Count(Queued, m) /\ Count(v, m)' = Count(v, m)
      BY <3>1, <3>2 DEF Count
    <3> QED  BY <2>1, <3>2, <3>3 DEF Accounted
  <2> QED  BY <2>2, <2>3, <2>4
<1> QED  BY <1>1, <1>2, <1>3

\* One of the lemmas above for each part of the inductive invariant.
LEMMA ActorStepInv == ActorIInv /\ [ActorNext]_actorVars => ActorIInv'
<1> SUFFICES ASSUME ActorIInv, [ActorNext]_actorVars PROVE ActorIInv'
  OBVIOUS
<1>1. ActorTypes' /\ ActorPlaces' /\ SenderInv'
  BY ActorTypesStep, ActorPlacesStep, SenderStep DEF ActorIInv
<1>2. StoreInv' /\ QueuedInv' /\ ExitInv' /\ VectorInv'
  BY StoreStep, QueuedStep, ExitStep, VectorStep
<1>3. EveryMessageIsSomewhere' /\ SleepIsJustified'
  BY AccountStep, SleepStep
<1> QED  BY <1>1, <1>2, <1>3 DEF ActorIInv

\* The inductive invariant says more than the safety of the actor.
LEMMA ActorIsSound == ActorIInv => ActorInv
<1> SUFFICES ASSUME ActorIInv PROVE ActorInv
  OBVIOUS
<1> USE DEF ActorIInv
<1>1. ASSUME NEW m \in Kind
      PROVE  /\ Posted(m) = buf[m] + Count(v, m) + Count(Queued, m) + dropped[m]
             /\ Posted(m) \in Nat /\ Posted(m) <= Cardinality(Sender) /\ Cardinality(Sender) \in Nat
             /\ buf[m] \in Nat /\ dropped[m] \in Nat
             /\ Count(v, m) \in Nat /\ Count(Queued, m) \in Nat
  <2>1. Len(v) \in Nat /\ Len(Queued) \in Nat
    <3>1. Len(Queued) = queue_size /\ queue_size \in Nat
      BY Sizes, QueuedIsASequence
    <3> QED  BY <3>1 DEF ActorTypes
  <2>2. Count(v, m) \in Nat /\ Count(Queued, m) \in Nat
    BY <2>1, CountIsANumber
  <2> QED  BY <2>2, DoneIsFinite DEF ActorTypes, EveryMessageIsSomewhere
<1>2. ActorTypeOK
  <2>1. \A m \in Kind : buf[m] \in 0 .. Cardinality(Sender)
    BY <1>1
  <2> QED  BY <2>1 DEF ActorTypeOK, ActorTypes, ExitInv
<1>3. NothingElseIsLost
  <2> SUFFICES ASSUME aqPc["actor"] = "ended", NEW m \in Kind
               PROVE  buf[m] + dropped[m] = Cardinality(Sender)
    BY DEF NothingElseIsLost
  <2>1. /\ v = <<>> /\ queue_is_empty /\ \A s \in Sender : aqPc[s] = "ended"
    BY DEF VectorInv, ExitInv
  <2>2. Done(m) = Sender
    <3>1. \A s \in Sender : aqI[s] = MSGS
      BY <2>1 DEF SenderInv
    <3> QED  BY <3>1, ActorAssumption DEF Done, Kind
  <2>3. Posted(m) = Cardinality(Sender)
    BY <2>2, DoneIsFinite
  <2>4. Count(v, m) = 0 /\ Count(Queued, m) = 0
    <3>1. Len(v) = 0 /\ Len(Queued) = 0
      BY <2>1, Sizes, QueuedIsASequence
    <3>2. ~ Has(v, m) /\ ~ Has(Queued, m)
      BY <3>1 DEF Has
    <3> QED  BY <3>1, <3>2, CountNothing
  <2> QED  BY <1>1, <2>3, <2>4
<1> QED  BY <1>2, <1>3 DEF ActorInv

\* The steps of senders, main() and actor keep the account of all messages.
THEOREM ActorInvariance == ActorSpec => []ActorIInv
<1>1. ActorIInv /\ [ActorNext]_actorVars => ActorIInv'
  BY ActorStepInv
<1> QED  BY ActorInitInv, <1>1, PTL DEF ActorSpec

\* For any number of senders and messages and any size of the queue: each message posted is
\* in the queue, in the vector, counted or was dropped at a full queue, also when the actor
\* has ended, and the actor sleeps on a queue with messages only while a sender is at it.
THEOREM ActorIsSafe == ActorSpec => []ActorInv
  BY ActorInvariance, ActorIsSound, PTL
-----------------------------------------------------------------------------

(***************************************************************************)
(* Proofs about Overrun, for every number of rounds.                       *)
(*                                                                         *)
(* The argument for pc_ocm.c: who has the mutex of a memory is at it and   *)
(* in the middle of a frame (OcmOwners); what is in a memory is the frame  *)
(* of the producer's last visit, so that a frame not yet processed is      *)
(* younger than the last one that was (Frames).  For 06test_pro_con.c: the *)
(* producer cannot count up while the consumer has the mutex, so that the  *)
(* consumer falls asleep on 0 only (ProConPlaces), and each round counts   *)
(* (ProConRoundsCount).                                                    *)
(***************************************************************************)

\* Where the two threads of pc_ocm.c are, and that an ended one has no rounds left.
OcmPlaces ==
  /\ ocPc["producer"] \in {"lock", "copying", "signal", "ended"}
  /\ ocPc["consumer"] \in {"lock", "asleep", "processing", "signal", "ended"}
  /\ \A t \in OcmThread : ocPc[t] # "ended" => ocI[t] <= OcmRounds

\* Who has a mutex is at that memory, in the middle of a frame; nobody waits for the end
\* of the processing.
OcmOwners ==
  \A m \in Memory :
    /\ ocMutex[m] = "producer" <=> at["producer"] = m /\ ocPc["producer"] = "copying"
    /\ ocMutex[m] = "consumer" <=> at["consumer"] = m /\ ocPc["consumer"] = "processing"
    /\ is_processing[m] <=> ocMutex[m] = "consumer"
    /\ is_ready[m] \subseteq {"consumer"} /\ isnt_processing[m] = {}

\* The round whose frame is in the memory m.
FrameIn(m) ==
  IF \/ m = "a" /\ at["producer"] = "b"
     \/ at["producer"] = m /\ ocPc["producer"] \in {"copying", "signal"}
  THEN ocI["producer"] ELSE ocI["producer"] - 1

\* The frame in a memory is whole unless it is being copied, and younger than the last one
\* processed there unless the memory is empty.
Frames ==
  \A m \in Memory :
    /\ mem[m][1] = FrameIn(m)
    /\ ocMutex[m] # "producer" => mem[m][2] = mem[m][1]
    /\ processed[m][1] = processed[m][2]
    /\ processed[m][1] <= mem[m][1]
    /\ ~ is_empty[m] => processed[m][1] < mem[m][1]
    /\ ocMutex[m] = "consumer" => ~ is_empty[m]

OcmIInv == OcmTypeOK /\ OcmPlaces /\ OcmOwners /\ Frames /\ OcmSleepIsJustified

\* Where the two threads of 06test_pro_con.c are, and what they hold there.
ProConPlaces ==
  /\ handler \in [pro : {"lock", "signal", "done"},
                  con : {"lock", "look", "sleep", "wait", "eat", "done"}]
  /\ left \in [pro : Nat, con : Nat] /\ produced \in Nat /\ eaten \in Nat
  /\ pcMutex = "con" <=> handler.con \in {"look", "sleep", "eat"}
  /\ pcCond # {} => handler.con = "wait"
  /\ handler.con = "sleep" => data = 0
  /\ handler.pro = "done" <=> left.pro = 0
  /\ handler.con = "done" <=> left.con = 0

\* The producer counts up once a round, the consumer counts down at least once.
ProConRoundsCount ==
  /\ produced + left.pro <= IF handler.pro = "signal" THEN ProConRounds + 1 ELSE ProConRounds
  /\ eaten + left.con >= IF handler.con = "eat" THEN ProConRounds + 1 ELSE ProConRounds

ProConIInv == ProConTypeOK /\ NothingIsMissed /\ ProConPlaces /\ ProConRoundsCount

-----------------------------------------------------------------------------
\* At first both memories are empty and both threads are at a.
LEMMA OcmInitInv == OcmInit => OcmIInv
<1> SUFFICES ASSUME OcmInit PROVE OcmIInv
  OBVIOUS
<1> USE OcmAssumption DEF OcmInit, Memory, OcmThread, NoThread
<1>1. OcmTypeOK
  <2>1. mem \in [Memory -> (0 .. OcmRounds) \X (0 .. OcmRounds)] /\ processed = mem
    OBVIOUS
  <2>2. /\ ocMutex \in [Memory -> OcmThread \cup {NoThread}]
        /\ is_ready \in [Memory -> SUBSET OcmThread]
        /\ isnt_processing \in [Memory -> SUBSET OcmThread]
    OBVIOUS
  <2>3. /\ ocPc \in [OcmThread -> {"lock", "asleep", "copying", "processing", "signal", "ended"}]
        /\ ocI \in [OcmThread -> 1 .. OcmRounds + 1] /\ at \in [OcmThread -> Memory]
    OBVIOUS
  <2>4. is_processing \in [Memory -> BOOLEAN] /\ is_empty \in [Memory -> BOOLEAN]
    OBVIOUS
  <2> QED  BY <2>1, <2>2, <2>3, <2>4 DEF OcmTypeOK
<1>2. OcmPlaces /\ OcmOwners /\ OcmSleepIsJustified
  BY DEF OcmPlaces, OcmOwners, OcmSleepIsJustified
<1>3. Frames
  BY DEF Frames, FrameIn
<1> QED  BY <1>1, <1>2, <1>3 DEF OcmIInv

\* The producer takes the mutex and begins a frame, whatever is in the memory.
LEMMA ProducerEnterInv ==
  ASSUME OcmIInv, NEW m \in Memory, ProducerEnter(m)
  PROVE  OcmIInv'
<1> USE OcmAssumption
    DEF OcmIInv, ProducerEnter, OcmGoto, SignalAt, NextTurn, IsLast, Holder, Memory, OcmThread,
        NoThread
<1>1. OcmTypeOK'
  BY DEF OcmTypeOK, OcmPlaces
<1>2. OcmPlaces'
  BY DEF OcmTypeOK, OcmPlaces
<1>3. OcmOwners'
  BY DEF OcmTypeOK, OcmPlaces, OcmOwners
<1>4. Frames'
  BY DEF OcmTypeOK, OcmPlaces, OcmOwners, Frames, FrameIn
<1>5. OcmSleepIsJustified'
  BY DEF OcmTypeOK, OcmPlaces, OcmOwners, OcmSleepIsJustified
<1> QED  BY <1>1, <1>2, <1>3, <1>4, <1>5
\* The frame is complete.
LEMMA ProducerLeaveInv ==
  ASSUME OcmIInv, NEW m \in Memory, ProducerLeave(m)
  PROVE  OcmIInv'
<1> USE OcmAssumption
    DEF OcmIInv, ProducerLeave, OcmGoto, SignalAt, NextTurn, IsLast, Holder, Memory, OcmThread,
        NoThread
<1>1. OcmTypeOK'
  BY DEF OcmTypeOK, OcmPlaces
<1>2. OcmPlaces'
  BY DEF OcmTypeOK, OcmPlaces
<1>3. OcmOwners'
  BY DEF OcmTypeOK, OcmPlaces, OcmOwners
<1>4. Frames'
  BY DEF OcmTypeOK, OcmPlaces, OcmOwners, Frames, FrameIn
<1>5. OcmSleepIsJustified'
  BY DEF OcmTypeOK, OcmPlaces, OcmOwners, OcmSleepIsJustified
<1> QED  BY <1>1, <1>2, <1>3, <1>4, <1>5
\* The signal wakes the consumer if it sleeps at this memory.
LEMMA ProducerSignalInv ==
  ASSUME OcmIInv, NEW m \in Memory, ProducerSignal(m)
  PROVE  OcmIInv'
<1> USE OcmAssumption
    DEF OcmIInv, ProducerSignal, OcmGoto, SignalAt, NextTurn, IsLast, Holder, Memory, OcmThread,
        NoThread
<1>1. OcmTypeOK'
  BY DEF OcmTypeOK, OcmPlaces
<1>2. OcmPlaces'
  BY DEF OcmTypeOK, OcmPlaces
<1>3. OcmOwners'
  BY DEF OcmTypeOK, OcmPlaces, OcmOwners
<1>4. Frames'
  BY DEF OcmTypeOK, OcmPlaces, OcmOwners, Frames, FrameIn
<1>5. OcmSleepIsJustified'
  BY DEF OcmTypeOK, OcmPlaces, OcmOwners, OcmSleepIsJustified
<1> QED  BY <1>1, <1>2, <1>3, <1>4, <1>5
\* The consumer finds a frame, or sleeps on an empty memory.
LEMMA ConsumerEnterInv ==
  ASSUME OcmIInv, NEW m \in Memory, ConsumerEnter(m)
  PROVE  OcmIInv'
<1> USE OcmAssumption
    DEF OcmIInv, ConsumerEnter, OcmGoto, SignalAt, NextTurn, IsLast, Holder, Memory, OcmThread,
        NoThread
<1>1. OcmTypeOK'
  <2>1. is_ready' \in [Memory -> SUBSET OcmThread]
    BY DEF OcmTypeOK
  <2>2. ocPc' \in [OcmThread -> {"lock", "asleep", "copying", "processing", "signal", "ended"}]
    BY DEF OcmTypeOK
  <2>3. ocMutex' \in [Memory -> OcmThread \cup {NoThread}]
    BY DEF OcmTypeOK
  <2>4. is_processing' \in [Memory -> BOOLEAN]
    <3>1. is_processing' = is_processing \/ is_processing' = [is_processing EXCEPT ![m] = TRUE]
      OBVIOUS
    <3> QED  BY ZenonT(60), <3>1 DEF OcmTypeOK
  <2> QED  BY <2>1, <2>2, <2>3, <2>4 DEF OcmTypeOK
<1>2. OcmPlaces'
  BY DEF OcmTypeOK, OcmPlaces
<1>3. OcmOwners'
  BY DEF OcmTypeOK, OcmPlaces, OcmOwners
<1>4. Frames'
  BY DEF OcmTypeOK, OcmPlaces, OcmOwners, Frames, FrameIn
<1>5. OcmSleepIsJustified'
  BY DEF OcmTypeOK, OcmPlaces, OcmOwners, OcmSleepIsJustified
<1> QED  BY <1>1, <1>2, <1>3, <1>4, <1>5
\* The frame is processed.
LEMMA ConsumerLeaveInv ==
  ASSUME OcmIInv, NEW m \in Memory, ConsumerLeave(m)
  PROVE  OcmIInv'
<1> USE OcmAssumption
    DEF OcmIInv, ConsumerLeave, OcmGoto, SignalAt, NextTurn, IsLast, Holder, Memory, OcmThread,
        NoThread
<1>1. OcmTypeOK'
  BY DEF OcmTypeOK, OcmPlaces
<1>2. OcmPlaces'
  BY DEF OcmTypeOK, OcmPlaces
<1>3. OcmOwners'
  BY DEF OcmTypeOK, OcmPlaces, OcmOwners
<1>4. Frames'
  BY DEF OcmTypeOK, OcmPlaces, OcmOwners, Frames, FrameIn
<1>5. OcmSleepIsJustified'
  BY DEF OcmTypeOK, OcmPlaces, OcmOwners, OcmSleepIsJustified
<1> QED  BY <1>1, <1>2, <1>3, <1>4, <1>5
\* Nobody waits for this signal.
LEMMA ConsumerSignalInv ==
  ASSUME OcmIInv, NEW m \in Memory, ConsumerSignal(m)
  PROVE  OcmIInv'
<1> USE OcmAssumption
    DEF OcmIInv, ConsumerSignal, OcmGoto, SignalAt, NextTurn, IsLast, Holder, Memory, OcmThread,
        NoThread
<1>1. OcmTypeOK'
  BY DEF OcmTypeOK, OcmPlaces
<1>2. OcmPlaces'
  BY DEF OcmTypeOK, OcmPlaces
<1>3. OcmOwners'
  BY DEF OcmTypeOK, OcmPlaces, OcmOwners
<1>4. Frames'
  BY DEF OcmTypeOK, OcmPlaces, OcmOwners, Frames, FrameIn
<1>5. OcmSleepIsJustified'
  BY DEF OcmTypeOK, OcmPlaces, OcmOwners, OcmSleepIsJustified
<1> QED  BY <1>1, <1>2, <1>3, <1>4, <1>5
\* A consumer that wakes without a signal looks again.
LEMMA OcmSpuriousWakeupInv ==
  ASSUME OcmIInv, OcmSpuriousWakeup
  PROVE  OcmIInv'
<1> USE OcmAssumption
    DEF OcmIInv, OcmSpuriousWakeup, OcmGoto, SignalAt, NextTurn, IsLast, Holder, Memory,
        OcmThread, NoThread
<1>1. OcmTypeOK'
  BY DEF OcmTypeOK, OcmPlaces
<1>2. OcmPlaces'
  BY DEF OcmTypeOK, OcmPlaces
<1>3. OcmOwners'
  BY DEF OcmTypeOK, OcmPlaces, OcmOwners
<1>4. Frames'
  BY DEF OcmTypeOK, OcmPlaces, OcmOwners, Frames, FrameIn
<1>5. OcmSleepIsJustified'
  BY DEF OcmTypeOK, OcmPlaces, OcmOwners, OcmSleepIsJustified
<1> QED  BY <1>1, <1>2, <1>3, <1>4, <1>5

\* Every step of pc_ocm.c keeps the invariant.
LEMMA OcmStepInv == OcmIInv /\ [OcmNext]_ocmVars => OcmIInv'
<1> SUFFICES ASSUME OcmIInv, [OcmNext]_ocmVars PROVE OcmIInv'
  OBVIOUS
<1>1. CASE producer
  BY <1>1, ProducerEnterInv, ProducerLeaveInv, ProducerSignalInv DEF producer
<1>2. CASE consumer
  BY <1>2, ConsumerEnterInv, ConsumerLeaveInv, ConsumerSignalInv DEF consumer
<1>3. CASE OcmSpuriousWakeup
  BY <1>3, OcmSpuriousWakeupInv
<1>4. CASE queueDelete
  BY <1>4
  DEF queueDelete, fifo, OcmIInv, OcmTypeOK, OcmPlaces, OcmOwners, Frames, FrameIn,
      OcmSleepIsJustified
<1>5. CASE UNCHANGED ocmVars
  BY <1>5
  DEF ocmVars, fifo, OcmIInv, OcmTypeOK, OcmPlaces, OcmOwners, Frames, FrameIn,
      OcmSleepIsJustified
<1> QED  BY <1>1, <1>2, <1>3, <1>4, <1>5 DEF OcmNext, OcmStopped

\* For any number of rounds: the consumer of pc_ocm.c processes whole frames only and
\* sleeps through none, and the producer never finds a memory being processed.
THEOREM FramesAreSafe == OcmSpec => []OcmInv
<1>1. OcmInit => OcmIInv
  BY OcmInitInv
<1>2. OcmIInv /\ [OcmNext]_ocmVars => OcmIInv'
  BY OcmStepInv
<1>3. OcmIInv => OcmInv
  BY DEF OcmIInv, OcmInv, OcmTypeOK, FramesAreWhole, Frames, NeverSeenProcessing, OcmOwners
<1> QED  BY <1>1, <1>2, <1>3, PTL DEF OcmSpec

\* For any number of rounds: no frame is processed twice or after a later one, although
\* the producer overwrites frames (FramesInOrder, a part of QueuesDeliver).
THEOREM FramesInOrderAlways == OcmSpec => FramesInOrder
<1>1. OcmInit => OcmIInv
  BY OcmInitInv
<1>2. OcmIInv /\ [OcmNext]_ocmVars => OcmIInv'
  BY OcmStepInv
<1>3. ASSUME OcmIInv, NEW m \in Memory, ConsumerLeave(m) PROVE processed'[m][1] > processed[m][1]
  <2>1. ocMutex[m] = "consumer"
    BY <1>3 DEF OcmIInv, OcmOwners, ConsumerLeave
  <2>2. processed[m][1] < mem[m][1]
    BY <2>1, <1>3 DEF OcmIInv, Frames
  <2>3. processed'[m] = mem[m] /\ mem[m][1] \in Int /\ processed[m][1] \in Int
    BY <1>3 DEF OcmIInv, OcmTypeOK, ConsumerLeave
  <2> QED  BY <2>2, <2>3
<1>4. OcmIInv => [\A m \in Memory : ConsumerLeave(m) => processed'[m][1] > processed[m][1]]_ocmVars
  BY <1>3
<1> QED  BY <1>1, <1>2, <1>4, PTL DEF OcmSpec, FramesInOrder
-----------------------------------------------------------------------------
\* At first everybody is at the lock.
LEMMA ProConInitInv == ProConInit => ProConIInv
  BY ProConAssumption
  DEF ProConInit, ProConIInv, ProConTypeOK, NothingIsMissed, ProConPlaces, ProConRoundsCount,
      NoThread

\* pro_handler() keeps the invariant.
LEMMA ProInv ==
  ASSUME ProConIInv, pro_handler
  PROVE  ProConIInv'
<1> USE ProConAssumption
    DEF ProConIInv, ProConTypeOK, NothingIsMissed, ProConPlaces, Go, EndOfRound, NoThread
<1>1. CASE Produce
  BY <1>1 DEF Produce, ProTakes, ProConRoundsCount
<1>2. CASE Signal
  <2>1. left' = [left EXCEPT !.pro = left.pro - 1] /\ pcCond' = {}
    BY <1>2 DEF Signal, CondSignal
  <2>2. handler' = [handler EXCEPT !.pro = IF left.pro = 1 THEN "done" ELSE "lock"]
    BY <1>2 DEF Signal
  <2>3. UNCHANGED <<data, pcMutex, produced, eaten>> /\ handler.pro = "signal"
    BY <1>2 DEF Signal
  <2> QED  BY <2>1, <2>2, <2>3 DEF ProConRoundsCount
<1> QED  BY <1>1, <1>2 DEF pro_handler

\* con_handler() keeps the invariant.
LEMMA ConInv ==
  ASSUME ProConIInv, con_handler
  PROVE  ProConIInv'
<1> USE ProConAssumption
    DEF ProConIInv, ProConTypeOK, NothingIsMissed, ProConPlaces, Go, EndOfRound, NoThread
<1>1. CASE ConLocks
  BY <1>1 DEF ConLocks, Lock, CondResume, ProConRoundsCount
<1>2. CASE FindsNothing
  BY <1>2 DEF FindsNothing, ProConRoundsCount
<1>3. CASE ConWaits
  BY <1>3 DEF ConWaits, CondWait, ProConRoundsCount
<1>4. CASE Consume
  BY <1>4 DEF Consume, ProConRoundsCount
<1>5. CASE ConEnds
  BY <1>5 DEF ConEnds, Unlock, ProConRoundsCount
<1> QED  BY <1>1, <1>2, <1>3, <1>4, <1>5 DEF con_handler

\* Every step of 06test_pro_con.c keeps the invariant.
LEMMA ProConStepInv == ProConIInv /\ [ProConNext]_proConVars => ProConIInv'
<1> SUFFICES ASSUME ProConIInv, [ProConNext]_proConVars PROVE ProConIInv'
  OBVIOUS
<1>1. CASE ProConSpuriousWakeup \/ UNCHANGED proConVars
  BY <1>1
  DEF ProConSpuriousWakeup, Spurious, proConVars, ProConIInv, ProConTypeOK, NothingIsMissed,
      ProConPlaces, ProConRoundsCount
<1> QED  BY <1>1, ProInv, ConInv DEF ProConNext, ProConStopped

\* What the invariant says of the data left and of a consumer that hangs.
LEMMA ProConFromIInv == ProConIInv => ProConInv
  BY ProConAssumption
  DEF ProConIInv, ProConInv, ProConTypeOK, NothingIsMissed, LeftOver, ProConPlaces,
      ProConRoundsCount,
      Hangs

\* For any data at first and number of rounds: the consumer of 06test_pro_con.c misses no
\* signal, and it hangs at the end only when it has eaten everything.
THEOREM ProConIsSafe == ProConSpec => []ProConInv
<1>1. ProConInit => ProConIInv
  BY ProConInitInv
<1>2. ProConIInv /\ [ProConNext]_proConVars => ProConIInv'
  BY ProConStepInv
<1>3. ProConIInv => ProConInv
  BY ProConFromIInv
<1> QED  BY <1>1, <1>2, <1>3, PTL DEF ProConSpec

\* The safety of both programs whose producer never waits.
THEOREM OverrunIsSafe == OcmSpec /\ ProConSpec => []OverrunInv
  BY FramesAreSafe, ProConIsSafe, PTL DEF OverrunInv
=============================================================================
