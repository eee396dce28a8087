--------------------------- MODULE SkynetMonitor ---------------------------
(***************************************************************************)
(* Fixed/NoBug2/skynet_main.c: worker threads dispatch messages and sleep  *)
(* on one condition when there are none; the socket thread wakes one when  *)
(* all sleep, the timer thread wakes one when any sleeps; SIGTERM runs     *)
(* skynet_shutdown, as a signal handler, on some thread.  skynet_start     *)
(* joins the workers only, and then destroys the monitor.                  *)
(*                                                                         *)
(* The mutex is held between the first and the second step of a critical   *)
(* section, so that the handler can interrupt the owner.  What follows the *)
(* first use of a freed monitor is undefined: the model stops there.       *)
(* Messages (skynet_socket_poll, skynet_message_dispatch) are external:    *)
(* MaxMessages of them arrive.                                             *)
(***************************************************************************)
EXTENDS Pthreads, FiniteSets

CONSTANTS Worker,        \* the threads of thread_worker
          MaxMessages,   \* messages that arrive (a bound)
          Victims        \* the threads SIGTERM may be delivered to

ASSUME MonitorAssumption ==
  /\ IsFiniteSet(Worker) /\ Worker # {}
  /\ Worker \cap {"timer", "socket", "main", NoThread} = {}
  /\ MaxMessages \in Nat
  /\ Victims \subseteq Worker \cup {"timer", "socket", "main"}

Thread == Worker \cup {"timer", "socket", "main"}
count  == Cardinality(Worker)

VARIABLES sleep, quit, mutex, cond,    \* struct monitor
          freed,                       \* skynet_start has destroyed it
          pc,
          pending, arrived,            \* messages queued; messages so far
          handler, victim              \* where the handler is, and on whom

vars == <<sleep, quit, mutex, cond, freed, pc, pending, arrived, handler, victim>>

Init ==
  /\ sleep = 0 /\ quit = FALSE /\ mutex = NoThread /\ cond = {}
  /\ freed = FALSE
  /\ pc = [t \in Thread |-> IF t = "main" THEN "join" ELSE "loop"]
  /\ pending = 0 /\ arrived = 0
  /\ handler = "none" /\ victim = NoThread

Goto(t, label) == pc' = [pc EXCEPT ![t] = label]

\* A thread runs its own code unless the handler runs on it.
AtWork(t) == ~ freed /\ ~ (victim = t /\ handler # "returned")
-----------------------------------------------------------------------------
\* The head of the three loops: lock, look at quit, unlock.
CheckQuit(t) ==
  /\ AtWork(t) /\ pc[t] = "loop"
  /\ Lock(mutex, t)
  /\ Goto(t, IF quit THEN "quitting" ELSE "going")
  /\ UNCHANGED <<sleep, quit, cond, freed, pending, arrived, handler, victim>>

AfterUnlock(t) ==
  CASE pc[t] = "quitting" -> "ended"
    [] pc[t] = "going"    -> CASE t = "timer"  -> "wakeup"
                               [] t = "socket" -> "poll"
                               [] OTHER        -> "dispatch"
    [] pc[t] \in {"awake", "woken"} -> "loop"

Release(t) ==
  /\ AtWork(t) /\ pc[t] \in {"quitting", "going", "awake", "woken"}
  /\ Unlock(mutex)
  /\ Goto(t, AfterUnlock(t))
  /\ UNCHANGED <<sleep, quit, cond, freed, pending, arrived, handler, victim>>
-----------------------------------------------------------------------------
\* thread_worker: dispatch a message, or find that there is none ...
Dispatch(w) ==
  /\ AtWork(w) /\ pc[w] = "dispatch"
  /\ IF pending > 0 THEN pending' = pending - 1 /\ Goto(w, "loop")
                    ELSE pending' = pending /\ Goto(w, "fall_asleep")
  /\ UNCHANGED <<sleep, quit, mutex, cond, freed, arrived, handler, victim>>

\* BUG: quit is not looked at again before the wait.
BugFallAsleep(w) ==
  /\ AtWork(w) /\ pc[w] = "fall_asleep" /\ mutex = NoThread
  /\ sleep' = sleep + 1
  /\ CondWait(cond, mutex, w)
  /\ Goto(w, "asleep")
  /\ UNCHANGED <<quit, freed, pending, arrived, handler, victim>>

\* ... and go to sleep, unless quit has been set meanwhile.
FallAsleep(w) ==
  /\ AtWork(w) /\ pc[w] = "fall_asleep" /\ mutex = NoThread
  /\ IF quit
     THEN /\ mutex' = w
          /\ Goto(w, "awake")
          /\ UNCHANGED <<sleep, cond>>
     ELSE /\ sleep' = sleep + 1
          /\ CondWait(cond, mutex, w)
          /\ Goto(w, "asleep")
  /\ UNCHANGED <<quit, freed, pending, arrived, handler, victim>>

WakeUp(w) ==
  /\ AtWork(w) /\ pc[w] = "asleep"
  /\ CondResume(cond, mutex, w)
  /\ sleep' = sleep - 1
  /\ Goto(w, "awake")
  /\ UNCHANGED <<quit, cond, freed, pending, arrived, handler, victim>>
-----------------------------------------------------------------------------
\* thread_socket: a message arrives, or nothing does, or the poll says exit.
Poll ==
  /\ AtWork("socket") /\ pc["socket"] = "poll"
  /\ \/ /\ arrived < MaxMessages
        /\ pending' = pending + 1 /\ arrived' = arrived + 1
        /\ Goto("socket", "wakeup")
     \/ /\ ~ quit
        /\ Goto("socket", "loop")
        /\ UNCHANGED <<pending, arrived>>
     \/ /\ quit
        /\ Goto("socket", "ended")
        /\ UNCHANGED <<pending, arrived>>
  /\ UNCHANGED <<sleep, quit, mutex, cond, freed, handler, victim>>

Busy(t) == IF t = "timer" THEN count - 1 ELSE 0

\* BUG: the busy workers are added, not subtracted.
BugEnoughAsleep(t) == sleep >= count + Busy(t)

EnoughAsleep(t) == sleep >= count - Busy(t)

\* wakeup(m, busy), with which both threads end a round.
Wake(t) ==
  /\ AtWork(t) /\ pc[t] = "wakeup"
  /\ Lock(mutex, t)
  /\ IF EnoughAsleep(t) THEN CondSignal(cond) ELSE cond' = cond
  /\ Goto(t, "woken")
  /\ UNCHANGED <<sleep, quit, freed, pending, arrived, handler, victim>>
-----------------------------------------------------------------------------
\* SIGTERM: skynet_shutdown runs on a thread, whatever that thread is doing.
Deliver(t) ==
  /\ handler = "none" /\ ~ freed /\ t \in Victims /\ pc[t] # "ended"
  /\ handler' = "shutdown" /\ victim' = t
  /\ UNCHANGED <<sleep, quit, mutex, cond, freed, pc, pending, arrived>>

Shutdown ==
  /\ handler = "shutdown" /\ ~ freed
  /\ Lock(mutex, victim)
  /\ quit' = TRUE
  /\ CondBroadcast(cond)
  /\ handler' = "set"
  /\ UNCHANGED <<sleep, freed, pc, pending, arrived, victim>>

ShutdownReturns ==
  /\ handler = "set" /\ ~ freed
  /\ Unlock(mutex)
  /\ handler' = "returned"
  /\ UNCHANGED <<sleep, quit, cond, freed, pc, pending, arrived, victim>>

\* skynet_start, once every worker has ended.
Destroy ==
  /\ AtWork("main") /\ pc["main"] = "join"
  /\ \A w \in Worker : pc[w] = "ended"
  /\ freed' = TRUE
  /\ Goto("main", "ended")
  /\ UNCHANGED <<sleep, quit, mutex, cond, pending, arrived, handler, victim>>
-----------------------------------------------------------------------------
Work(w) == CheckQuit(w) \/ Release(w) \/ Dispatch(w) \/ FallAsleep(w) \/ WakeUp(w)

Service(t) == CheckQuit(t) \/ Release(t) \/ Wake(t) \/ (t = "socket" /\ Poll)

Handle == Shutdown \/ ShutdownReturns

SpuriousWakeup ==
  /\ ~ freed /\ Spurious(cond)
  /\ UNCHANGED <<sleep, quit, mutex, freed, pc, pending, arrived, handler, victim>>

Terminated == freed /\ UNCHANGED vars

Next ==
  \/ \E w \in Worker : Work(w)
  \/ \E t \in {"timer", "socket"} : Service(t)
  \/ (\E t \in Thread : Deliver(t)) \/ Handle
  \/ Destroy \/ SpuriousWakeup \/ Terminated

Spec == Init /\ [][Next]_vars

\* Every thread goes on when it can again and again: the loops never end, so
\* a thread that waits for the mutex needs it to be granted eventually.  The
\* signal and the messages may come or not.
Fairness ==
  /\ \A w \in Worker : SF_vars(Work(w))
  /\ \A t \in {"timer", "socket"} : SF_vars(Service(t))
  /\ SF_vars(Handle) /\ WF_vars(Destroy)

FairSpec == Spec /\ Fairness
-----------------------------------------------------------------------------
TypeOK ==
  /\ sleep \in 0 .. count /\ quit \in BOOLEAN /\ freed \in BOOLEAN
  /\ mutex \in Thread \cup {NoThread} /\ cond \subseteq Worker
  /\ pc \in [Thread -> {"loop", "quitting", "going", "dispatch", "fall_asleep",
                        "asleep", "awake", "poll", "wakeup", "woken", "join", "ended"}]
  /\ pending \in 0 .. MaxMessages /\ arrived \in 0 .. MaxMessages
  /\ handler \in {"none", "shutdown", "set", "returned"}
  /\ victim \in Thread \cup {NoThread}

\* The number on which every wake-up decision rests is exact: sleep counts the
\* workers that wait or have been woken and not yet come back.
SleepIsExact == sleep = Cardinality({w \in Worker : pc[w] = "asleep"})

\* No worker sleeps through the shutdown: quit is looked at under the mutex
\* between the decision to sleep and the wait.
NoSleepAfterQuit == quit => cond = {}

\* A message that arrives while a worker is on its way to sleep, after its last
\* dispatch, is not signalled by the socket thread; the timer makes up for it.
MessagesAreDispatched == pending > 0 ~> pending = 0 \/ quit

\* After SIGTERM every worker ends and skynet_start returns.
ShutdownEnds == victim # NoThread ~> freed

\* The monitor is not destroyed under threads that still use it.
MonitorOutlivesItsUsers ==
  freed => \A t \in Thread : pc[t] = "ended"

\* The safety of the monitor of skynet_main.c: the count that decides who is woken is
\* exact, and no worker sleeps when the program is told to quit.
SkynetInv == TypeOK /\ SleepIsExact /\ NoSleepAfterQuit
=============================================================================
