------------------------------ MODULE Answers -------------------------------
(***************************************************************************)
(* Five programs in which one waits for what another is to tell it, or     *)
(* goes on without: main() for the answers of a lock manager (asttest.c),  *)
(* one of two threads for the other (pth_condition_variable.c), main() for *)
(* a key of a remote control or its monitor (ir_event.c), and a thread for *)
(* what is typed, which it counts (124mutex.c) or sorts (06mutex.c).  Each *)
(* has its own variables, Init, Next and properties; a run moves one of    *)
(* them.                                                                   *)
(***************************************************************************)
EXTENDS Pthreads, Sequences

(***************************************************************************)
(* Fixed/NoBug2/asttest.c: take a lock of the distributed lock manager and *)
(* give it back.  Both requests are answered by a call of ast_routine,     *)
(* from a thread of the lock manager (option -p, use_threads) or from      *)
(* dlm_dispatch in main() itself.                                          *)
(*                                                                         *)
(* With threads main() waits for the call without looking at ast_called.   *)
(* It holds the mutex when it asks for the lock, but not when it gives it  *)
(* back: the wait then unlocks a mutex that is not its own, which glibc    *)
(* does whoever holds it.  The lock manager is external.  -C (crash) and   *)
(* the options that only choose words or the mode are left out.            *)
(***************************************************************************)
VARIABLES use_threads, do_unlock,    \* options
          atMutex, cond, ast_called,
          atPc,
          queued,       \* answers the lock manager has not given yet
          asked, called, pollsFailed, atIdle
          \* history: requests, calls of ast_routine, calls of poll() that failed, and whether
          \* there was a wake-up by nobody

options == <<use_threads, do_unlock>>
astVars == <<options, atMutex, cond, ast_called, atPc, queued,
             asked, called, pollsFailed, atIdle>>

AstInit ==
  /\ use_threads \in BOOLEAN /\ do_unlock \in BOOLEAN
  /\ atMutex = NoThread /\ cond = {} /\ ast_called = FALSE
  /\ atPc = [main |-> "begin", dlm |-> "idle"]
  /\ queued = 0 /\ asked = 0 /\ called = 0 /\ pollsFailed = 0 /\ atIdle = FALSE

AstGoto(t, label) == atPc' = [atPc EXCEPT ![t] = label]

TakesMutex == use_threads

Begin ==
  /\ atPc["main"] = "begin"
  /\ IF TakesMutex THEN Lock(atMutex, "main") ELSE UNCHANGED atMutex
  /\ AstGoto("main", "ask")
  /\ UNCHANGED <<options, cond, ast_called, queued, asked, called, pollsFailed, atIdle>>

\* dlm_lock, and later dlm_unlock; a request that is refused ends the program.
Ask ==
  /\ atPc["main"] = "ask"
  /\ \/ /\ queued' = queued + 1 /\ asked' = asked + 1
        /\ AstGoto("main", IF use_threads THEN "wait" ELSE "poll")
     \/ UNCHANGED <<queued, asked>> /\ AstGoto("main", "failed")
  /\ UNCHANGED <<options, atMutex, cond, ast_called, called, pollsFailed, atIdle>>

\* pthread_cond_wait: CondWait unlocks the mutex, whoever holds it.
Wait ==
  /\ atPc["main"] = "wait"
  /\ CondWait(cond, atMutex, "main") /\ AstGoto("main", "asleep")
  /\ UNCHANGED <<options, ast_called, queued, asked, called, pollsFailed, atIdle>>

AstWake ==
  /\ atPc["main"] = "asleep" /\ CondResume(cond, atMutex, "main") /\ AstGoto("main", "awake")
  /\ UNCHANGED <<options, cond, ast_called, queued, asked, called, pollsFailed, atIdle>>

\* What follows an answer: dlm_unlock after dlm_lock, the end after dlm_unlock.
GoOn == AstGoto("main", IF asked = 1 /\ do_unlock THEN "ask" ELSE "returned")

AstAwake ==
  /\ atPc["main"] = "awake" /\ Unlock(atMutex) /\ GoOn
  /\ UNCHANGED <<options, cond, ast_called, queued, asked, called, pollsFailed, atIdle>>

\* poll_for_ast: nobody else is there to take the mutex.  dlm_dispatch calls
\* ast_routine for answers that poll() has announced.  poll() may fail instead, and
\* main(), which does not look at what poll_for_ast returns, goes on without an answer.
poll_for_ast ==
  /\ atPc["main"] = "poll"
  /\ \/ /\ ast_called /\ ast_called' = FALSE /\ GoOn
        /\ UNCHANGED <<queued, called, pollsFailed>>
     \/ \E k \in 1 .. queued :
          /\ ~ ast_called /\ ast_called' = TRUE
          /\ queued' = queued - k /\ called' = called + k
          /\ UNCHANGED <<atPc, pollsFailed>>
     \/ /\ ~ ast_called /\ pollsFailed' = pollsFailed + 1 /\ GoOn
        /\ UNCHANGED <<ast_called, queued, called>>
  /\ UNCHANGED <<options, atMutex, cond, asked, atIdle>>

astMain == Begin \/ Ask \/ Wait \/ AstWake \/ AstAwake \/ poll_for_ast

\* ast_routine in the thread of the lock manager.
AstLock ==
  /\ use_threads /\ atPc["dlm"] = "idle" /\ queued > 0 /\ Lock(atMutex, "dlm")
  /\ queued' = queued - 1 /\ AstGoto("dlm", "call")
  /\ UNCHANGED <<options, cond, ast_called, asked, called, pollsFailed, atIdle>>

AstSignal == CondSignal(cond)

AstCall ==
  /\ atPc["dlm"] = "call" /\ ast_called' = TRUE /\ AstSignal
  /\ called' = called + 1 /\ AstGoto("dlm", "leave")
  /\ UNCHANGED <<options, atMutex, queued, asked, pollsFailed, atIdle>>

AstUnlock ==
  /\ atPc["dlm"] = "leave" /\ Unlock(atMutex) /\ AstGoto("dlm", "idle")
  /\ UNCHANGED <<options, cond, ast_called, queued, asked, called, pollsFailed, atIdle>>

ast_routine == AstLock \/ AstCall \/ AstUnlock

AstSpuriousWakeup ==
  /\ Spurious(cond) /\ atIdle' = TRUE
  /\ UNCHANGED <<options, atMutex, ast_called, atPc, queued, asked, called, pollsFailed>>

AstEnded == atPc["main"] \in {"returned", "failed"}

AstTerminated == AstEnded /\ UNCHANGED astVars

AstNext == astMain \/ ast_routine \/ AstSpuriousWakeup \/ AstTerminated

AstSpec == AstInit /\ [][AstNext]_astVars

AstFairSpec == AstSpec /\ WF_astVars(astMain) /\ WF_astVars(ast_routine)
-----------------------------------------------------------------------------
AstTypeOK ==
  /\ use_threads \in BOOLEAN /\ do_unlock \in BOOLEAN
  /\ ast_called \in BOOLEAN /\ atIdle \in BOOLEAN
  /\ atMutex \in {"main", "dlm", NoThread} /\ cond \subseteq {"main"}
  /\ atPc.main \in {"begin", "ask", "wait", "asleep", "awake", "poll", "returned", "failed"}
  /\ atPc.dlm \in {"idle", "call", "leave"}
  /\ queued \in 0 .. 2 /\ asked \in 0 .. 2 /\ called \in 0 .. 2
  /\ pollsFailed \in 0 .. asked /\ (use_threads => pollsFailed = 0)

\* main() goes on after the answer to what it has asked last, and not before, but for the
\* answers that it has not waited for because poll() failed.
GoesOnAnswered ==
  atPc["main"] \in {"returned", "ask"} /\ ~ atIdle => called \in asked - pollsFailed .. asked

\* With the mutex held the call cannot come before the wait: main() does not sleep
\* for the lock after the call.
LockAnswerIsSeen ==
  "main" \in cond /\ asked = 1 => queued > 0 \/ atPc["dlm"] = "call"

\* The only hang: the answer to dlm_unlock comes before main() waits for it.
Missed == asked = 2 /\ called = 2 /\ (atPc["main"] = "wait" \/ "main" \in cond)

EndsUnlessMissed == <>(AstEnded \/ Missed)

\* The safety of asttest.c: main() goes on with the answer it has asked for if it
\* has waited for it, and does not sleep through the answer to the lock.
AstInv == AstTypeOK /\ GoesOnAnswered /\ LockAnswerIsSeen
-----------------------------------------------------------------------------

(***************************************************************************)
(* pth_condition_variable.c: the first of two threads to look at done is   *)
(* to wait, the second to signal.  Neither takes the mutex, which          *)
(* pthread_cond_wait() unlocks all the same, and locks for good.  main()   *)
(* creates the second thread at any time later: five seconds guarantee     *)
(* nothing.  It does not wait for the first.                               *)
(***************************************************************************)
Thread == {"first", "second"}

VARIABLES done1, lock, cond1, execPc, exited,
          sawOne, tooSoon       \* history: who read done as 1, and a signal to nobody

execVars == <<done1, lock, cond1, execPc, exited, sawOne, tooSoon>>

WaitInit ==
  /\ done1 = 1 /\ lock = NoThread /\ cond1 = {} /\ exited = FALSE
  /\ execPc = [t \in Thread |-> IF t = "first" THEN "look" ELSE "not created"]
  /\ sawOne = {} /\ tooSoon = FALSE

Runs(t, at, to) ==
  ~exited /\ execPc[t] = at /\ execPc' = [execPc EXCEPT ![t] = to] /\ exited' = exited

ExecCreate ==
  Runs("second", "not created", "look") /\ UNCHANGED <<done1, lock, cond1, sawOne, tooSoon>>

ExecLook(t) ==
  /\ Runs(t, "look", IF done1 = 1 THEN "set" ELSE "signal")
  /\ sawOne' = IF done1 = 1 THEN sawOne \cup {t} ELSE sawOne
  /\ UNCHANGED <<done1, lock, cond1, tooSoon>>

SetDone(t) == Runs(t, "set", "wait") /\ done1' = 2 /\ UNCHANGED <<lock, cond1, sawOne, tooSoon>>

ExecSleep(t) ==
  Runs(t, "wait", "asleep") /\ CondWait(cond1, lock, t) /\ UNCHANGED <<done1, sawOne, tooSoon>>

WaitAwake(t) ==
  /\ Runs(t, "asleep", "ended") /\ CondResume(cond1, lock, t)
  /\ UNCHANGED <<done1, cond1, sawOne, tooSoon>>

WaitSignal(t) ==
  /\ Runs(t, "signal", "ended") /\ CondSignal(cond1) /\ tooSoon' = (cond1 = {})
  /\ UNCHANGED <<done1, lock, sawOne>>

execute(t) == ExecLook(t) \/ SetDone(t) \/ ExecSleep(t) \/ WaitAwake(t) \/ WaitSignal(t)

WaitSpuriousWakeup ==
  ~exited /\ Spurious(cond1) /\ UNCHANGED <<done1, lock, execPc, exited, sawOne, tooSoon>>

\* main() returns when the second thread has ended, wherever the first is.
Exit ==
  /\ execPc["second"] = "ended" /\ exited' = TRUE
  /\ UNCHANGED <<done1, lock, cond1, execPc, sawOne, tooSoon>>

\* The second sleeps, or waits for the mutex, and the first can do nothing about it.
Hangs ==
  /\ execPc["second"] = "asleep" /\ execPc["first"] \in {"asleep", "ended"}
  /\ \A t \in Thread : t \in cond1 \/ lock # NoThread
  /\ UNCHANGED execVars

WaitNext == ExecCreate \/ (\E t \in Thread : execute(t)) \/ WaitSpuriousWakeup \/ Exit \/ Hangs

WaitSpec ==
  /\ WaitInit /\ [][WaitNext]_execVars
  /\ WF_execVars(ExecCreate \/ Exit) /\ \A t \in Thread : WF_execVars(execute(t))
-----------------------------------------------------------------------------
\* Whoever signals has somebody to signal to, and only once: either thread may be the one
\* that waits, or both, but never neither.
OneIsToWait ==
  \A t, u \in Thread : t # u /\ t \notin sawOne /\ execPc[t] \in {"signal", "ended"} =>
    sawOne = {u} /\ done1 = 2 /\ (execPc[t] = "ended" => tooSoon \/ u \notin cond1)

\* The safety of pth_condition_variable.c.
WaitOrSignalInv == lock \in Thread \cup {NoThread} /\ cond1 \subseteq sawOne /\ OneIsToWait

\* main() returns, unless both threads have read done as 1, or the second has overtaken the
\* first and been signalled to before it slept.
ExitsUnlessRace == <>(exited \/ sawOne = Thread \/ (sawOne = {"second"} /\ tooSoon))
-----------------------------------------------------------------------------

(***************************************************************************)
(* Fixed/NoBug2/ir_event.c: main() reads the keys of a remote control and  *)
(* commands a music player, a monitor thread keeps the connection to the   *)
(* player alive; both use the connection under mutex1.  SIGINT ends both   *)
(* loops.                                                                  *)
(*                                                                         *)
(* A key that is none of the known ones takes main() back to the read with *)
(* the mutex held.  After the loop main() destroys the mutex before it     *)
(* joins the monitor: destroying a locked mutex fails (EBUSY), and locking *)
(* a destroyed one fails (EINVAL), so that the monitor goes on without.  A *)
(* command that fails frees the connection, which both go on to use.  If   *)
(* the device of the keys cannot be opened, main() frees it as well and    *)
(* only then ends the program, with the monitor that it has created.  The  *)
(* player and the keys are external: they come for ever.  The crash on a   *)
(* status that the player has not given is left out.                       *)
(***************************************************************************)
VARIABLES g_isRunning, mutex1,
          destroyed,        \* the mutex
          freed,            \* the connection
          irPc,
          noDevice, kept, failed, misused
          \* history: was there no device, did main() go on with the mutex held, did a
          \* command fail, who has used the connection after it was freed

remoteVars == <<g_isRunning, mutex1, destroyed, freed, irPc, noDevice, kept, failed, misused>>

RemoteInit ==
  /\ g_isRunning = TRUE /\ mutex1 = NoThread /\ destroyed = FALSE /\ freed = FALSE
  /\ irPc = [main |-> "open", monitor |-> "loop"]
  /\ noDevice = FALSE /\ kept = FALSE /\ failed = FALSE /\ misused = {}

RemoteGoto(t, label) == irPc' = [irPc EXCEPT ![t] = label]

INT_handler ==
  /\ g_isRunning /\ g_isRunning' = FALSE
  /\ UNCHANGED <<mutex1, destroyed, freed, irPc, noDevice, kept, failed, misused>>

\* A command to the player by t, that may fail: handle_error frees the connection.
Command(t) ==
  /\ misused' = IF freed THEN misused \cup {t} ELSE misused
  /\ \/ UNCHANGED <<freed, failed>>
     \/ freed' = TRUE /\ failed' = TRUE
-----------------------------------------------------------------------------
OpenDevice ==
  /\ irPc["main"] = "open"
  /\ \/ RemoteGoto("main", "loop") /\ UNCHANGED <<freed, noDevice>>
     \/ RemoteGoto("main", "exit") /\ freed' = TRUE /\ noDevice' = TRUE
  /\ UNCHANGED <<g_isRunning, mutex1, destroyed, kept, failed, misused>>

\* exit() ends the monitor, wherever it is.
ExitRemote ==
  /\ irPc["main"] = "exit" /\ irPc' = [t \in DOMAIN irPc |-> "ended"]
  /\ UNCHANGED <<g_isRunning, mutex1, destroyed, freed, noDevice, kept, failed, misused>>

\* A key is read; what is not a key, or no event, is no step.
ReadKey ==
  /\ irPc["main"] = "loop" /\ g_isRunning /\ RemoteGoto("main", "lock")
  /\ UNCHANGED <<g_isRunning, mutex1, destroyed, freed, noDevice, kept, failed, misused>>

RemoteLock ==
  /\ irPc["main"] = "lock" /\ Lock(mutex1, "main") /\ RemoteGoto("main", "switch")
  /\ UNCHANGED <<g_isRunning, destroyed, freed, noDevice, kept, failed, misused>>

\* A known key, with or without a command, and the unlock.
KnownKey ==
  /\ irPc["main"] = "switch" /\ Unlock(mutex1) /\ RemoteGoto("main", "loop")
  /\ Command("main") \/ UNCHANGED <<freed, failed, misused>>
  /\ UNCHANGED <<g_isRunning, destroyed, noDevice, kept>>

\* `default: continue'.
UnknownKey ==
  /\ irPc["main"] = "switch" /\ kept' = TRUE /\ RemoteGoto("main", "loop")
  /\ UNCHANGED <<g_isRunning, mutex1, destroyed, freed, noDevice, failed, misused>>

Destroy ==
  /\ irPc["main"] = "loop" /\ ~ g_isRunning
  /\ destroyed' = (mutex1 = NoThread) /\ RemoteGoto("main", "join")
  /\ UNCHANGED <<g_isRunning, mutex1, freed, noDevice, kept, failed, misused>>

MonitorEnded == irPc["monitor"] = "ended"

\* pthread_join and mpd_connection_free.
RemoteJoin ==
  /\ irPc["main"] = "join" /\ MonitorEnded /\ freed' = TRUE /\ RemoteGoto("main", "ended")
  /\ UNCHANGED <<g_isRunning, mutex1, destroyed, noDevice, kept, failed, misused>>

remoteMain ==
  \/ OpenDevice \/ ExitRemote
  \/ ReadKey \/ RemoteLock \/ KnownKey \/ UnknownKey
  \/ Destroy \/ RemoteJoin
-----------------------------------------------------------------------------

GoesOn == g_isRunning

MonitorLoop ==
  /\ irPc["monitor"] = "loop" /\ RemoteGoto("monitor", IF GoesOn THEN "lock" ELSE "ended")
  /\ UNCHANGED <<g_isRunning, mutex1, destroyed, freed, noDevice, kept, failed, misused>>

\* BUG: without the mutex.
BugMonitorLock == UNCHANGED mutex1

MonitorLock ==
  IF destroyed THEN UNCHANGED mutex1 ELSE Lock(mutex1, "monitor")

Keepalive ==
  /\ irPc["monitor"] = "lock" /\ MonitorLock /\ RemoteGoto("monitor", "volume")
  /\ UNCHANGED <<g_isRunning, destroyed, freed, noDevice, kept, failed, misused>>

\* Also pthread_mutex_unlock, which changes nothing if the mutex is not locked.
ChangeVolume ==
  /\ irPc["monitor"] = "volume" /\ Command("monitor") /\ Unlock(mutex1)
  /\ RemoteGoto("monitor", "loop")
  /\ UNCHANGED <<g_isRunning, destroyed, noDevice, kept>>

monitor == MonitorLoop \/ Keepalive \/ ChangeVolume

\* main() waits for a mutex that it holds; the monitor waits for it or has ended.
Stuck ==
  mutex1 = "main" /\ irPc["main"] \in {"lock", "join"} /\ irPc["monitor"] \in {"lock", "ended"}

RemoteStopped == (irPc["main"] = "ended" \/ Stuck) /\ UNCHANGED remoteVars

RemoteNext == remoteMain \/ monitor \/ INT_handler \/ RemoteStopped

RemoteSpec == RemoteInit /\ [][RemoteNext]_remoteVars

\* main() may read keys for ever, and yet the monitor gets the mutex.
RemoteFairSpec == RemoteSpec /\ SF_remoteVars(remoteMain) /\ SF_remoteVars(monitor)
-----------------------------------------------------------------------------
RemoteTypeOK ==
  /\ g_isRunning \in BOOLEAN /\ mutex1 \in {"main", "monitor", NoThread}
  /\ destroyed \in BOOLEAN /\ freed \in BOOLEAN
  /\ irPc \in [main : {"open", "exit", "loop", "lock", "switch", "join", "ended"},
             monitor : {"loop", "lock", "volume", "ended"}]
  /\ {noDevice, kept, failed} \subseteq BOOLEAN /\ misused \subseteq {"main", "monitor"}
  /\ irPc.main = "switch" => mutex1 = "main"

\* Commands to the player do not mix, before and after the mutex is destroyed.
OneCommandAtATime == ~ (irPc["main"] = "switch" /\ irPc["monitor"] = "volume")

\* The connection is not used after main() has freed it at the end, but only after a
\* command has failed, or by the monitor when there is no device.
MisusedOnlyAfterFailure ==
  /\ misused # {} => failed \/ noDevice
  /\ "main" \in misused => failed

\* After SIGINT the program ends, unless an unknown key has left main() with the mutex.
EndsUnlessKept == (~ g_isRunning) ~> (irPc["main"] = "ended" \/ kept)

\* Without an unknown key main() is never stuck with the mutex.
StuckOnlyIfKept == Stuck => kept

\* The safety of ir_event.c: one command at a time, no use of a connection or mutex that
\* is gone but after a failure, and no other way to be stuck than an unknown key.
RemoteInv == RemoteTypeOK /\ OneCommandAtATime /\ MisusedOnlyAfterFailure /\ StuckOnlyIfKept
-----------------------------------------------------------------------------

(***************************************************************************)
(* 124mutex.c: main() reads lines while it holds the mutex, and lets a     *)
(* worker count the characters of each before it reads the next.  One      *)
(* condition serves both sides.  At the end of the input fgets() changes   *)
(* nothing.                                                                *)
(*                                                                         *)
(* work_area is "text", "end" or, when its first character is the null     *)
(* character, "".                                                          *)
(***************************************************************************)
CONSTANTS MaxLines        \* lines that are typed, at most (a bound)

ASSUME TextInputAssumption == MaxLines \in Nat

VARIABLES work_area, time_to_exit, work_mutex, work_cond,
          inputPc, workPc,
          typed, counted  \* lines typed, and lines the worker has counted or ended at

textVars == <<work_area, time_to_exit, work_mutex, work_cond, inputPc, workPc, typed, counted>>

TextInit ==
  /\ work_area = "" /\ time_to_exit = FALSE /\ work_mutex = "main" /\ work_cond = {}
  /\ inputPc = "read" /\ workPc = "sleep" /\ typed = <<>> /\ counted = <<>>

MainUnchanged == UNCHANGED <<workPc, counted, time_to_exit>>
WorkerUnchanged == UNCHANGED <<inputPc, typed>>

Fgets ==
  /\ inputPc = "read" /\ ~time_to_exit /\ inputPc' = "signal"
  /\ \/ \E l \in {"text", "end"} : /\ Len(typed) < MaxLines
                                   /\ work_area' = l /\ typed' = Append(typed, l)
     \/ UNCHANGED <<work_area, typed>>                          \* the end of the input
  /\ MainUnchanged /\ UNCHANGED <<work_mutex, work_cond>>

MainSignal ==
  /\ inputPc = "signal" /\ CondSignal(work_cond) /\ Unlock(work_mutex) /\ inputPc' = "lock"
  /\ MainUnchanged /\ UNCHANGED <<work_area, typed>>

\* The lock and the first look, or the way back from the wait.
MainLooks ==
  /\ \/ inputPc = "lock" /\ Lock(work_mutex, "main") /\ UNCHANGED work_cond
     \/ inputPc = "wait" /\ CondResume(work_cond, work_mutex, "main") /\ UNCHANGED work_cond
  /\ inputPc' = "look" /\ MainUnchanged /\ UNCHANGED <<work_area, typed>>

MainWaits ==
  /\ inputPc = "look" /\ work_area # "" /\ CondWait(work_cond, work_mutex, "main")
  /\ inputPc' = "wait" /\ MainUnchanged /\ UNCHANGED <<work_area, typed>>

MainGoesOn ==
  /\ inputPc = "look" /\ work_area = ""
  /\ inputPc' = IF time_to_exit THEN "join" ELSE "read"
  /\ work_mutex' = IF time_to_exit THEN NoThread ELSE work_mutex
  /\ MainUnchanged /\ UNCHANGED <<work_area, typed, work_cond>>

TextJoin ==
  /\ inputPc = "join" /\ workPc = "done" /\ inputPc' = "done"
  /\ MainUnchanged /\ UNCHANGED <<work_area, typed, work_mutex, work_cond>>

input == Fgets \/ MainSignal \/ MainLooks \/ MainWaits \/ MainGoesOn \/ TextJoin

WorkerLock ==
  /\ \/ workPc = "sleep" /\ Lock(work_mutex, "worker")
     \/ workPc = "wait" /\ CondResume(work_cond, work_mutex, "worker")
  /\ workPc' = "look"
  /\ WorkerUnchanged /\ UNCHANGED <<work_area, time_to_exit, work_cond, counted>>

AreaAfter == ""

\* The length of the line, or of no line, is printed; the signal and the wait.
CountLine ==
  /\ workPc = "look" /\ work_area # "end" /\ work_area' = AreaAfter
  /\ counted' = IF work_area = "" THEN counted ELSE Append(counted, work_area)
  /\ workPc' = "signal" /\ CondSignal(work_cond)
  /\ WorkerUnchanged /\ UNCHANGED <<time_to_exit, work_mutex>>

WorkerWaits ==
  /\ workPc = "signal" /\ CondWait(work_cond, work_mutex, "worker") /\ workPc' = "wait"
  /\ WorkerUnchanged /\ UNCHANGED <<work_area, time_to_exit, counted>>

EndsWork ==
  /\ workPc = "look" /\ work_area = "end" /\ counted' = Append(counted, work_area)
  /\ time_to_exit' = TRUE /\ CondSignal(work_cond) /\ Unlock(work_mutex) /\ workPc' = "done"
  /\ WorkerUnchanged /\ UNCHANGED work_area

thread_function == WorkerLock \/ CountLine \/ WorkerWaits \/ EndsWork

TextSpuriousWakeup ==
  /\ Spurious(work_cond)
  /\ UNCHANGED <<work_area, time_to_exit, work_mutex, inputPc, workPc, typed, counted>>

\* main() has ended, or sleeps and there is nobody left to wake it.
TextStopped ==
  /\ workPc = "done" /\ inputPc \in {"wait", "done"} /\ (inputPc = "wait" => "main" \in work_cond)
  /\ UNCHANGED textVars

TextNext == input \/ thread_function \/ TextSpuriousWakeup \/ TextStopped

\* Both threads get the mutex if it is free again and again.
TextSpec == TextInit /\ [][TextNext]_textVars /\ SF_textVars(input) /\ SF_textVars(thread_function)
-----------------------------------------------------------------------------
TextTypeOK ==
  /\ work_area \in {"", "text", "end"} /\ work_cond \subseteq {"main", "worker"}
  /\ work_mutex \in {"main", "worker", NoThread}

\* No line is read over one that is not counted, and none is counted twice: although one
\* condition serves both and nobody looks for a predicate before the worker waits.
LinesAreCounted ==
  /\ counted = SubSeq(typed, 1, Len(counted)) /\ Len(typed) <= Len(counted) + 1
  /\ work_area = "text" <=> counted # typed /\ typed[Len(typed)] = "text"
  /\ inputPc = "read" => typed = counted

\* The two are not both asleep, so no signal is lost.
SomebodyIsAwake == work_cond # {"main", "worker"}

\* The safety of 124mutex.c.
TextInputInv == TextTypeOK /\ LinesAreCounted /\ SomebodyIsAwake

\* Every line is counted, and "end" ends the worker.
LinesAreTaken == \A k \in 1 .. MaxLines : Len(typed) >= k ~> Len(counted) >= k
-----------------------------------------------------------------------------

(***************************************************************************)
(* 06mutex.c: main() reads numbers while it holds m and lets go of it for  *)
(* a moment after each; a thread takes m to read the next number and then, *)
(* without m, moves it to its place.  Nothing makes the two alternate.     *)
(*                                                                         *)
(* What an element is before it is read may be anything: here it is less   *)
(* or more than any number.                                                *)
(***************************************************************************)
CONSTANTS N,              \* numbers to read (a bound; 10)
          MaxNumber       \* numbers are 1 .. MaxNumber (a bound)

ASSUME InputSortAssumption == {N, MaxNumber} \subseteq Nat \ {0}

VARIABLES arr, sortMutex,
          entryPc, entry,       \* of main(): where it is, and numbers read
          sorterPc, next, temp, j, \* of the thread: where it is, and its i, t and j
          given,                \* the numbers read
          overtaken             \* the thread has taken an element that was not read yet

sortVars == <<arr, sortMutex, entryPc, entry, sorterPc, next, temp, j, given, overtaken>>

SortInit ==
  /\ arr \in {[k \in 0 .. N - 1 |-> x] : x \in {0, MaxNumber + 1}} /\ sortMutex = "main"
  /\ entryPc = "scanf" /\ entry = 0 /\ given = <<>>
  /\ sorterPc = "lock" /\ next = 0 /\ temp = 0 /\ j = 0 /\ overtaken = FALSE

ScanfAndUnlock ==
  /\ entryPc = "scanf" /\ \E x \in 1 .. MaxNumber : /\ arr' = [arr EXCEPT ![entry] = x]
                                                    /\ given' = Append(given, x)
  /\ sortMutex' = "none" /\ entryPc' = "lock" /\ entry' = entry + 1
  /\ UNCHANGED <<sorterPc, next, temp, j, overtaken>>

EntryLock ==
  /\ entryPc = "lock" /\ sortMutex = "none"
  /\ IF entry < N THEN sortMutex' = "main" /\ entryPc' = "scanf"
                  ELSE entryPc' = "join" /\ UNCHANGED sortMutex
  /\ UNCHANGED <<arr, entry, sorterPc, next, temp, j, given, overtaken>>

SortJoin ==
  /\ entryPc = "join" /\ sorterPc = "done" /\ entryPc' = "done"
  /\ UNCHANGED <<arr, sortMutex, entry, sorterPc, next, temp, j, given, overtaken>>

Take ==
  /\ sorterPc = "lock" /\ sortMutex = "none" /\ next < N
  /\ temp' = arr[next] /\ j' = next /\ sorterPc' = "move"
  /\ overtaken' = (overtaken \/ next >= entry)
  /\ UNCHANGED <<arr, sortMutex, entryPc, entry, next, given>>

Smaller == j > 0 /\ temp < arr[j - 1]

\* The thread compares and moves one element, or puts t down and goes on.
Move ==
  /\ sorterPc = "move" /\ Smaller
  /\ arr' = [arr EXCEPT ![j] = arr[j - 1]] /\ j' = j - 1
  /\ UNCHANGED <<sortMutex, entryPc, entry, sorterPc, next, temp, given, overtaken>>

Put ==
  /\ sorterPc = "move" /\ ~Smaller
  /\ arr' = [arr EXCEPT ![j] = temp] /\ next' = next + 1
  /\ sorterPc' = IF next' = N THEN "done" ELSE "lock"
  /\ UNCHANGED <<sortMutex, entryPc, entry, temp, j, given, overtaken>>

func == Take \/ Move \/ Put

SortStopped == entryPc = "done" /\ UNCHANGED sortVars

SortNext == ScanfAndUnlock \/ EntryLock \/ SortJoin \/ func \/ SortStopped

\* The number is typed in the end, and m, which is free again and again, is got.
SortSpec == SortInit /\ [][SortNext]_sortVars /\ WF_sortVars(SortNext) /\ SF_sortVars(func)
-----------------------------------------------------------------------------
SortTypeOK ==
  entry \in 0 .. N /\ next \in 0 .. N /\ j \in 0 .. N - 1 /\ sortMutex \in {"main", "none"}

CountIn(x, f) == Cardinality({k \in DOMAIN f : f[k] = x})

IsSorted == \A k \in 1 .. N - 1 : arr[k - 1] <= arr[k]

\* While the thread stays behind main() it sorts: between two numbers the first ones are
\* sorted, and at the end the array is what was read, in order.
SortsWhatWasRead ==
  ~overtaken =>
    /\ sorterPc = "lock" => \A k \in 1 .. next - 1 : arr[k - 1] <= arr[k]
    /\ entryPc = "done" => IsSorted /\ \A x \in 1 .. MaxNumber : CountIn(x, arr) = CountIn(x, given)

\* The safety of 06mutex.c.
InputSortInv == SortTypeOK /\ SortsWhatWasRead

\* main() prints the "Sorted array" in the end.
SortEnds == <>(entryPc = "done")
-----------------------------------------------------------------------------

\* Who asks gets the answer: of a lock manager and of a player; of two that look one is to
\* wait; each line that is typed is counted, and the thread sorts what was read before it
\* looked.
AnswersInv == AstInv /\ RemoteInv /\ WaitOrSignalInv /\ TextInputInv /\ InputSortInv
=============================================================================
