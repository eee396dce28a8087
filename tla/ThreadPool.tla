----------------------------- MODULE ThreadPool -----------------------------
(***************************************************************************)
(* Fixed/NoBug1/pth_pool.c: main() submits tasks to a queue of BUFFER_SIZE *)
(* places, from which THREAD_NUM workers take them.  Both sides signal     *)
(* after they have unlocked, so a third thread may come in between.        *)
(*                                                                         *)
(* Task k is the k-th task submitted.  Stop stands for the task (-1, -1),  *)
(* the one that makes a worker leave its loop.  The creation of the        *)
(* workers needs no step: one not yet started is one that has not moved.   *)
(***************************************************************************)
EXTENDS Pthreads, Sequences, FiniteSets

CONSTANTS Worker,        \* the THREAD_NUM workers
          BUFFER_SIZE,   \* places of the queue (256 in the code)
          Schedules      \* what main() may submit, each a sequence of tasks
                         \* (500 tasks in the code)

Stop == -1
Task == UNION {{s[k] : k \in 1 .. Len(s)} : s \in Schedules}

\* Nothing is submitted after the task that stops the last worker: the main() of
\* the program submits no Stop at all.
StopsComeLast(s) ==
  \A k \in 1 .. Len(s) :
    Cardinality({j \in 1 .. k : s[j] = Stop}) >= Cardinality(Worker) => k = Len(s)

ASSUME PoolAssumption ==
  /\ IsFiniteSet(Worker) /\ Worker # {}
  /\ "main" \notin Worker /\ NoThread \notin Worker
  /\ BUFFER_SIZE \in Nat \ {0}
  /\ \A s \in Schedules : s \in Seq(Int) /\ StopsComeLast(s)

VARIABLES taskQueue, taskCount,      \* the queue
          mutex, condFull, condEmpty,
          submissions,               \* what main() does submit
          pc,                        \* where main() and each worker are
          i,                         \* the loop of main()
          task,                      \* the task each worker has taken
          taken,                     \* all tasks taken, in order
          executed                   \* the tasks that have been executed

queue == <<taskQueue, taskCount>>
sync  == <<mutex, condFull, condEmpty>>
local == <<submissions, i, task, taken, executed>>
vars  == <<queue, sync, pc, local>>

Goto(t, label) == pc' = [pc EXCEPT ![t] = label]
-----------------------------------------------------------------------------
Init ==
  /\ taskQueue = [k \in 0 .. BUFFER_SIZE - 1 |-> 0]
  /\ taskCount = 0
  /\ mutex = NoThread /\ condFull = {} /\ condEmpty = {}
  /\ pc = [t \in Worker \cup {"main"} |-> IF t = "main" THEN "submit" ELSE "get"]
  /\ submissions \in Schedules
  /\ i = 0
  /\ task = [w \in Worker |-> 0]
  /\ taken = <<>>
  /\ executed = {}
-----------------------------------------------------------------------------
\* submitTask, as called by the loop of main().
SubmitLock ==
  /\ pc["main"] = "submit" /\ i < Len(submissions)
  /\ Lock(mutex, "main")
  /\ Goto("main", "put")
  /\ UNCHANGED <<queue, condFull, condEmpty, local>>

QueueFull == taskCount = BUFFER_SIZE

SubmitWait ==
  /\ pc["main"] = "put" /\ QueueFull
  /\ CondWait(condFull, mutex, "main")
  /\ Goto("main", "wait")
  /\ UNCHANGED <<queue, condEmpty, local>>

SubmitResume ==
  /\ pc["main"] = "wait"
  /\ CondResume(condFull, mutex, "main")
  /\ Goto("main", "put")
  /\ UNCHANGED <<queue, condFull, condEmpty, local>>

SubmitPut ==
  /\ pc["main"] = "put" /\ ~ QueueFull
  /\ taskQueue' = [taskQueue EXCEPT ![taskCount] = submissions[i + 1]]
  /\ taskCount' = taskCount + 1
  /\ Unlock(mutex)
  /\ Goto("main", "signal")
  /\ UNCHANGED <<condFull, condEmpty, local>>

\* BUG: the signal is left out.
BugSubmitSilent ==
  /\ pc["main"] = "signal"
  /\ i' = i + 1
  /\ Goto("main", "submit")
  /\ UNCHANGED <<queue, sync, submissions, task, taken, executed>>

SubmitSignal ==
  /\ pc["main"] = "signal"
  /\ CondSignal(condEmpty)
  /\ i' = i + 1
  /\ Goto("main", "submit")
  /\ UNCHANGED <<queue, mutex, condFull, submissions, task, taken, executed>>

\* main() joins every worker and returns.
Join ==
  /\ pc["main"] = "submit" /\ i = Len(submissions)
  /\ \A w \in Worker : pc[w] = "exited"
  /\ Goto("main", "returned")
  /\ UNCHANGED <<queue, sync, local>>
-----------------------------------------------------------------------------
\* getTask.
\* BUG: the lock is left out, as in Faulty/ManyBugs.
BugGetUnlocked(w) ==
  /\ pc[w] = "get"
  /\ mutex' = w
  /\ Goto(w, "take")
  /\ UNCHANGED <<queue, condFull, condEmpty, local>>

GetLock(w) ==
  /\ pc[w] = "get"
  /\ Lock(mutex, w)
  /\ Goto(w, "take")
  /\ UNCHANGED <<queue, condFull, condEmpty, local>>

GetWait(w) ==
  /\ pc[w] = "take" /\ taskCount = 0
  /\ CondWait(condEmpty, mutex, w)
  /\ Goto(w, "wait")
  /\ UNCHANGED <<queue, condFull, local>>

GetResume(w) ==
  /\ pc[w] = "wait"
  /\ CondResume(condEmpty, mutex, w)
  /\ Goto(w, "take")
  /\ UNCHANGED <<queue, condFull, condEmpty, local>>

\* The first task is copied and the others move up one place.
GetTake(w) ==
  /\ pc[w] = "take" /\ taskCount > 0
  /\ task' = [task EXCEPT ![w] = taskQueue[0]]
  /\ taken' = Append(taken, taskQueue[0])
  /\ taskQueue' = [k \in 0 .. BUFFER_SIZE - 1 |->
                     IF k < taskCount - 1 THEN taskQueue[k + 1] ELSE taskQueue[k]]
  /\ Goto(w, "count")
  /\ UNCHANGED <<taskCount, sync, submissions, i, executed>>

GetCount(w) ==
  /\ pc[w] = "count"
  /\ taskCount' = taskCount - 1
  /\ Unlock(mutex)
  /\ Goto(w, "signal")
  /\ UNCHANGED <<taskQueue, condFull, condEmpty, local>>

GetSignal(w) ==
  /\ pc[w] = "signal"
  /\ CondSignal(condFull)
  /\ Goto(w, "run")
  /\ UNCHANGED <<queue, mutex, condEmpty, local>>

\* startThread: stop at the termination task, execute any other.
Execute(w) ==
  /\ pc[w] = "run" /\ task[w] # Stop
  /\ executed' = executed \cup {task[w]}
  /\ Goto(w, "get")
  /\ UNCHANGED <<queue, sync, submissions, i, task, taken>>

Terminate(w) ==
  /\ pc[w] = "run" /\ task[w] = Stop
  /\ Goto(w, "exited")
  /\ UNCHANGED <<queue, sync, local>>
-----------------------------------------------------------------------------
Main == \/ SubmitLock \/ SubmitWait \/ SubmitResume \/ SubmitPut
        \/ SubmitSignal \/ Join

Work(w) == \/ GetLock(w) \/ GetWait(w) \/ GetResume(w) \/ GetTake(w)
           \/ GetCount(w) \/ GetSignal(w) \/ Execute(w) \/ Terminate(w)

SpuriousWakeup ==
  \/ Spurious(condFull) /\ UNCHANGED <<queue, mutex, condEmpty, pc, local>>
  \/ Spurious(condEmpty) /\ UNCHANGED <<queue, mutex, condFull, pc, local>>

Terminated == pc["main"] = "returned" /\ UNCHANGED vars

Next == Main \/ (\E w \in Worker : Work(w)) \/ SpuriousWakeup \/ Terminated

Spec == Init /\ [][Next]_vars

\* Every thread that can move does; a worker that finds the queue empty goes
\* to sleep, so contention for the mutex ends with the submissions.
Fairness ==
  /\ WF_vars(Main) /\ \A w \in Worker : WF_vars(Work(w))
  /\ <>[][~ SpuriousWakeup]_vars

FairSpec == Spec /\ Fairness
-----------------------------------------------------------------------------
TypeOK ==
  /\ taskQueue \in [0 .. BUFFER_SIZE - 1 -> Task \cup {0}]
  /\ taskCount \in 0 .. BUFFER_SIZE
  /\ mutex \in Worker \cup {"main", NoThread}
  /\ condFull \subseteq {"main"} /\ condEmpty \subseteq Worker
  /\ pc \in [Worker \cup {"main"} ->
               {"submit", "put", "get", "take", "count", "wait", "signal",
                "run", "exited", "returned"}]
  /\ submissions \in Schedules /\ i \in 0 .. Len(submissions)
  /\ task \in [Worker -> Task \cup {0}]
  /\ taken \in Seq(Task)
  /\ executed \subseteq Task

\* The tasks waiting in the queue.  Between GetTake and GetCount the queue has
\* already moved up but the count still includes the task taken.
Waiting == LET n == IF \E w \in Worker : pc[w] = "count"
                    THEN taskCount - 1 ELSE taskCount
           IN  [k \in 1 .. n |-> taskQueue[k - 1]]

\* Every task is taken by one worker, and the tasks are taken in the order in
\* which main() submitted them, however many workers compete for them.
Pool == INSTANCE FifoChannel
          WITH Item <- Task, Capacity <- BUFFER_SIZE,
               channel <- Waiting, delivered <- taken

IsAChannel == Pool!Spec

\* No task is stranded: while the queue holds one, some worker is awake or a
\* signal is about to be sent, although the signals come after the unlock.
NoStrandedTask ==
  taskCount > 0 /\ pc["main"] # "signal" =>
    \E w \in Worker : w \notin condEmpty /\ pc[w] # "exited"

\* main() is not stranded either: while it sleeps on a queue with room, a
\* worker is about to signal.
NoStrandedSubmitter ==
  "main" \in condFull /\ taskCount < BUFFER_SIZE
     => \E w \in Worker : pc[w] = "signal"

\* Every submitted task is executed in the end.
EveryTaskIsExecuted ==
  <>(executed = {submissions[k] : k \in 1 .. Len(submissions)} \ {Stop})

\* "Check for termination task ... Exit the loop" (pth_pool.c:114-116): if
\* main() submits a termination task per worker, the workers end and main()
\* returns from its joins.  The main() of the program submits none.
PoolShutsDown ==
  Cardinality({k \in 1 .. Len(submissions) : submissions[k] = Stop})
      >= Cardinality(Worker)
    => <>(pc["main"] = "returned")

\* The safety of the pool: although SubmitTask and GetTask signal after they unlock,
\* neither a task nor main() is ever left with everybody who could see to it asleep.
PoolInv == TypeOK /\ NoStrandedTask /\ NoStrandedSubmitter
=============================================================================
