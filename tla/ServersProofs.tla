--------------------------- MODULE ServersProofs ----------------------------
(***************************************************************************)
(* Proofs about the programs that serve others, and those that ask them:   *)
(* the monitor of skynet_main.c, the copy of copy_deamon.c and its         *)
(* connections, the table and the message of multhread_server.c, and the   *)
(* clients of cfgSock.c, longhorn-rpc-client.c, con_ser.c and              *)
(* libudp_splice.c.                                                        *)
(***************************************************************************)
EXTENDS SkynetMonitor, CopyDaemon, ChatServer, Clients, FiniteSetTheorems, SequenceTheorems,
        TLAPS

(***************************************************************************)
(* For every number of workers and messages, and whichever threads the     *)
(* signal may be delivered to: TypeOK, SleepIsExact and NoSleepAfterQuit   *)
(* are invariants of SkynetMonitor.                                        *)
(***************************************************************************)

\* Where a thread holds the mutex by its own code.
Inside == {"quitting", "going", "awake", "woken"}

\* The mutex has one holder, which may be the handler on a thread that does not hold
\* it itself; the handler runs on a thread, and only sleepers wait on the condition.
LockInv ==
  /\ \A t \in Thread : pc[t] \in Inside => mutex = t
  /\ handler = "set" => mutex = victim /\ pc[victim] \notin Inside
  /\ handler # "none" => victim \in Thread
  /\ \A w \in cond : pc[w] = "asleep"

\* What has been dispatched had arrived before.
MessageInv == pending <= arrived

IInv == TypeOK /\ LockInv /\ MessageInv /\ SleepIsExact /\ NoSleepAfterQuit

Asleep == {w \in Worker : pc[w] = "asleep"}
-----------------------------------------------------------------------------
\* Sets of workers are finite, and a worker more or less counts for one.
LEMMA WorkersAreCounted ==
  ASSUME NEW S \in SUBSET Worker
  PROVE  count \in Nat /\ IsFiniteSet(S) /\ Cardinality(S) \in 0 .. count
<1>1. IsFiniteSet(Worker) /\ Cardinality(Worker) \in Nat
  BY MonitorAssumption, FS_CardinalityType
<1>2. IsFiniteSet(S) /\ Cardinality(S) <= Cardinality(Worker)
  BY <1>1, FS_Subset
<1>3. Cardinality(S) \in Nat
  BY <1>2, FS_CardinalityType
<1> QED
  BY <1>1, <1>2, <1>3 DEF count

\* One worker more falls asleep.
LEMMA OneMore ==
  ASSUME NEW S \in SUBSET Worker, NEW w \in Worker \ S
  PROVE  Cardinality(S \cup {w}) = Cardinality(S) + 1
  BY WorkersAreCounted, FS_AddElement

\* One worker less is asleep.
LEMMA OneLess ==
  ASSUME NEW S \in SUBSET Worker, NEW w \in S
  PROVE  Cardinality(S \ {w}) = Cardinality(S) - 1
  BY WorkersAreCounted, FS_RemoveElement

\* Workers, timer, socket and main are different threads.
LEMMA Names ==
  /\ Worker \subseteq Thread /\ "timer" \in Thread /\ "socket" \in Thread /\ "main" \in Thread
  /\ "timer" \notin Worker /\ "socket" \notin Worker /\ "main" \notin Worker
  /\ NoThread \notin Thread
  BY MonitorAssumption DEF Thread, NoThread
-----------------------------------------------------------------------------
\* At first nobody sleeps and nothing has been said.
LEMMA InitInv == Init => IInv
<1> SUFFICES ASSUME Init PROVE IInv
  OBVIOUS
<1> USE Names DEF Init
<1>1. Asleep = {}
  BY DEF Asleep
<1>2. sleep = Cardinality(Asleep)
  BY <1>1, FS_EmptySet
<1>3. TypeOK
  <2>1. sleep \in 0 .. count
    <3>1. Worker \in SUBSET Worker
      OBVIOUS
    <3> QED
      BY <3>1, WorkersAreCounted
  <2>2. pc \in [Thread -> {"loop", "quitting", "going", "dispatch", "fall_asleep",
                           "asleep", "awake", "poll", "wakeup", "woken", "join", "ended"}]
    OBVIOUS
  <2>3. pending \in 0 .. MaxMessages /\ arrived \in 0 .. MaxMessages
    BY MonitorAssumption
  <2> QED
    BY <2>1, <2>2, <2>3 DEF TypeOK
<1>4. LockInv /\ MessageInv /\ NoSleepAfterQuit
  BY DEF LockInv, Inside, MessageInv, NoSleepAfterQuit
<1> QED
  BY <1>2, <1>3, <1>4 DEF IInv, SleepIsExact, Asleep

\* A step that neither puts a worker to sleep nor wakes one up keeps the count.
LEMMA CountStays ==
  ASSUME SleepIsExact, sleep' = sleep, Asleep' = Asleep
  PROVE  SleepIsExact'
  BY DEF SleepIsExact, Asleep

\* Every step of the monitor's users keeps the count of sleepers right.
LEMMA StepInv == IInv /\ [Next]_vars => IInv'
<1> SUFFICES ASSUME IInv, [Next]_vars PROVE IInv'
  OBVIOUS
<1> USE Names DEF IInv, TypeOK, LockInv, Inside, MessageInv, NoSleepAfterQuit, Goto, AtWork
<1>1. ASSUME NEW t \in Thread, CheckQuit(t) PROVE IInv'
  <2>1. Asleep' = Asleep
    BY <1>1 DEF CheckQuit, Asleep
  <2> QED
    BY <1>1, <2>1, CountStays DEF CheckQuit, Lock
<1>2. ASSUME NEW t \in Thread, Release(t) PROVE IInv'
  <2>1. AfterUnlock(t) \in {"ended", "wakeup", "poll", "dispatch", "loop"}
    BY <1>2 DEF Release, AfterUnlock
  <2>2. Asleep' = Asleep
    BY <1>2, <2>1 DEF Release, Asleep
  <2> QED
    BY <1>2, <2>1, <2>2, CountStays DEF Release, Unlock
<1>3. ASSUME NEW w \in Worker, Dispatch(w) PROVE IInv'
  <2>1. Asleep' = Asleep
    BY <1>3 DEF Dispatch, Asleep
  <2> QED
    BY <1>3, <2>1, CountStays, MonitorAssumption DEF Dispatch
<1>4. ASSUME NEW w \in Worker, FallAsleep(w) PROVE IInv'
  <2>1. CASE quit
    <3>1. Asleep' = Asleep
      BY <1>4, <2>1 DEF FallAsleep, Asleep
    <3> QED
      BY <1>4, <2>1, <3>1, CountStays DEF FallAsleep
  <2>2. CASE ~ quit
    <3>1. w \notin Asleep /\ Asleep' = Asleep \cup {w}
      BY <1>4, <2>2 DEF FallAsleep, Asleep
    <3>2. /\ Cardinality(Asleep') = Cardinality(Asleep) + 1
          /\ Cardinality(Asleep') \in 0 .. count
      BY <3>1, OneMore, WorkersAreCounted DEF Asleep
    <3>3. sleep' = sleep + 1 /\ sleep = Cardinality(Asleep)
      BY <1>4, <2>2 DEF FallAsleep, SleepIsExact, Asleep
    <3>4. SleepIsExact' /\ sleep' \in 0 .. count
      BY <3>2, <3>3 DEF SleepIsExact, Asleep
    <3> QED
      BY <1>4, <2>2, <3>4 DEF FallAsleep, CondWait
  <2> QED
    BY <2>1, <2>2
<1>5. ASSUME NEW w \in Worker, WakeUp(w) PROVE IInv'
  <2>1. w \in Asleep /\ Asleep' = Asleep \ {w}
    BY <1>5 DEF WakeUp, Asleep
  <2>2. /\ Cardinality(Asleep') = Cardinality(Asleep) - 1
        /\ Cardinality(Asleep') \in 0 .. count
    BY <2>1, OneLess, WorkersAreCounted DEF Asleep
  <2>3. sleep' = sleep - 1 /\ sleep = Cardinality(Asleep)
    BY <1>5 DEF WakeUp, SleepIsExact, Asleep
  <2>4. SleepIsExact' /\ sleep' \in 0 .. count
    BY <2>2, <2>3 DEF SleepIsExact, Asleep
  <2> QED
    BY <1>5, <2>4 DEF WakeUp, CondResume
<1>6. CASE Poll
  <2>1. Asleep' = Asleep
    BY <1>6 DEF Poll, Asleep
  <2> QED
    BY <1>6, <2>1, CountStays, MonitorAssumption DEF Poll
<1>7. ASSUME NEW t \in {"timer", "socket"}, Wake(t) PROVE IInv'
  <2>1. Asleep' = Asleep
    BY <1>7 DEF Wake, Asleep
  <2>2. cond' \subseteq cond
    BY <1>7 DEF Wake, CondSignal
  <2> QED
    BY <1>7, <2>1, <2>2, CountStays DEF Wake, Lock
<1>8. ASSUME NEW t \in Thread, Deliver(t) PROVE IInv'
  BY <1>8, CountStays DEF Deliver, Asleep
<1>9. CASE Shutdown
  BY <1>9, CountStays DEF Shutdown, Asleep, Lock, CondBroadcast
<1>10. CASE ShutdownReturns
  BY <1>10, CountStays DEF ShutdownReturns, Asleep, Unlock
<1>11. CASE Destroy
  <2>1. Asleep' = Asleep
    BY <1>11 DEF Destroy, Asleep
  <2> QED
    BY <1>11, <2>1, CountStays DEF Destroy
<1>12. CASE SpuriousWakeup
  BY <1>12, CountStays DEF SpuriousWakeup, Spurious, Asleep
<1>13. CASE UNCHANGED vars
  BY <1>13, CountStays DEF vars, Asleep
<1> QED
  BY <1>1, <1>2, <1>3, <1>4, <1>5, <1>6, <1>7, <1>8, <1>9, <1>10, <1>11, <1>12, <1>13
     DEF Next, Work, Service, Handle, Terminated
-----------------------------------------------------------------------------
\* The inductive invariant: who holds the mutex, on a thread of its own or in the handler,
\* and how sleep follows from who is asleep (skynet_main.c:39-115, 150-158).
THEOREM Invariance == Spec => []IInv
  BY InitInv, StepInv, PTL DEF Spec

\* No two threads are in a critical section, the handler's included.
OneInside ==
  /\ \A t, u \in Thread : pc[t] \in Inside /\ pc[u] \in Inside => t = u
  /\ handler = "set" => \A t \in Thread : pc[t] \notin Inside

\* The mutex keeps every critical section to one thread, although the handler takes it
\* on a thread that did not ask for it (skynet_main.c:58-64, 80-85, 97-111, 150-158).
THEOREM OneInsideAlways == Spec => []OneInside
<1>1. IInv => OneInside
  BY Names DEF IInv, LockInv, OneInside
<1> QED
  BY Invariance, <1>1, PTL

\* The safety of the monitor for any number of workers and messages, and any threads
\* that may be interrupted: sleep is the number of the sleepers, never less than 0 or
\* more than the workers, and nobody sleeps after quit (skynet_main.c:39-115, 150-158).
THEOREM MonitorIsSafe == Spec => []SkynetInv
<1>1. IInv => SkynetInv
  BY DEF IInv, SkynetInv
<1> QED
  BY Invariance, <1>1, PTL
-----------------------------------------------------------------------------
(***************************************************************************)
(* For every size of the file and of the buffer and any number of          *)
(* connections, whatever the clients say and however much a read or a      *)
(* write leaves undone: CopyTypeOK, OffsetHoldsStill, DoneMeansCopied and  *)
(* RunsOnWhatWasTold are invariants of CopyDaemon, and no connection ever  *)
(* hears of an offset before one it has heard of (NeverBack).              *)
(***************************************************************************)

\* The worker and the connections are where they can be, and a thread has the mutex
\* exactly from its lock to its unlock.
OwnerInv ==
  /\ coPc["copyWorker"] \in {"open", "lock", "pread", "done", "ended", "failed"}
  /\ \A c \in Connection :
       coPc[c] \in {"recv", "lock", "send", "answer", "close", "ended"}
  /\ coPc["copyWorker"] = "pread" <=> offsetMutex = "copyWorker"
  /\ \A c \in Connection : coPc[c] \in {"send", "answer"} <=> offsetMutex = c

\* The worker is done with the whole file, or with a file it could not read.
Copied   == offset = FileSize \/ readLess
EndInv   == /\ coPc["copyWorker"] \in {"done", "ended"} => Copied
            /\ copyingDone => coPc["copyWorker"] = "ended"

\* What the offset has passed over is written, unless a pwrite came short.
WrittenInv == copied = 0 .. offset - 1 \/ wroteLess

\* Nobody hears of an offset that has not been reached.  Who has heard that the copy is
\* done does not ask for an offset again.
HeardInv ==
  \A c \in Connection :
    /\ told[c] # DONE => told[c] <= offset
    /\ told[c] = DONE => copyingDone /\ coPc[c] \notin {"lock", "send", "answer"}

CopyIInv == /\ CopyTypeOK /\ OwnerInv /\ EndInv /\ WrittenInv /\ HeardInv
            /\ OffsetHoldsStill
-----------------------------------------------------------------------------
\* At first the worker owns nothing and nothing has been copied.
LEMMA CopyInitInv == CopyInit => CopyIInv
<1> SUFFICES ASSUME CopyInit PROVE CopyIInv
  OBVIOUS
<1> USE CopyAssumption DEF CopyInit, NoThread, DONE
<1>1. CopyTypeOK
  <2>1. offset \in 0 .. FileSize /\ offsetMutex \in Connection \cup {"copyWorker", NoThread}
    OBVIOUS
  <2>2. /\ copyingDone \in BOOLEAN /\ copied \subseteq 0 .. FileSize - 1
        /\ readLess \in BOOLEAN /\ wroteLess \in BOOLEAN
    OBVIOUS
  <2>3. /\ coPc \in [Connection \cup {"copyWorker"} -> {"open", "recv"}]
        /\ told \in [Connection -> {-1}]
    OBVIOUS
  <2>4. -1 \in -1 .. DONE
    OBVIOUS
  <2> QED
    BY <2>1, <2>2, <2>3, <2>4 DEF CopyTypeOK
<1>2. OwnerInv
  BY DEF OwnerInv
<1>3. EndInv /\ WrittenInv /\ HeardInv /\ OffsetHoldsStill
  BY DEF EndInv, WrittenInv, HeardInv, OffsetHoldsStill
<1> QED
  BY <1>1, <1>2, <1>3 DEF CopyIInv

\* What the worker does to the offset: it takes a buffer further, within the file, or
\* leaves it; and it ends with less than the file only after a read that came short.
LEMMA BufferIs ==
  ASSUME CopyTypeOK, Copy
  PROVE  /\ offset' \in 0 .. FileSize /\ offset <= offset'
         /\ readLess' \in BOOLEAN /\ wroteLess' \in BOOLEAN
         /\ copied' \subseteq 0 .. FileSize - 1
         /\ coPc'["copyWorker"] = "done" => offset' = FileSize \/ readLess'
         /\ WrittenInv => WrittenInv'
<1> DEFINE GoesForward == /\ offset' \in 0 .. FileSize /\ offset <= offset'
                          /\ readLess' \in BOOLEAN /\ wroteLess' \in BOOLEAN
                          /\ copied' \subseteq 0 .. FileSize - 1
           Ends == coPc'["copyWorker"] = "done" => offset' = FileSize \/ readLess'
<1> USE CopyAssumption DEF CopyTypeOK
<1>1. rest \in Nat /\ offset + rest <= FileSize /\ (rest = 0 => offset = FileSize)
  BY DEF rest
<1>2. ASSUME NEW res \in 1 .. rest, NEW written \in 0 .. res, CopyBuffer(res, written)
      PROVE  GoesForward /\ Ends /\ (WrittenInv => WrittenInv')
  <2>1. /\ res \in Nat /\ written \in Nat /\ res >= 1 /\ written <= res
        /\ offset \in Nat /\ offset' = offset + res /\ offset' <= FileSize
    BY <1>1, <1>2 DEF CopyBuffer
  <2>2. /\ readLess' \in BOOLEAN /\ wroteLess' \in BOOLEAN
        /\ offset' \in 0 .. FileSize /\ offset <= offset'
    BY <1>2, <2>1 DEF CopyBuffer
  <2>3. copied' \subseteq 0 .. FileSize - 1
    BY <1>2, <2>1 DEF CopyBuffer
  <2>4. coPc'["copyWorker"] = "done" => offset' = FileSize \/ readLess'
    <3>1. coPc'["copyWorker"] = IF IsLast(res) THEN "done" ELSE "lock"
      BY <1>2 DEF CopyBuffer, CopyGoto
    <3>2. IsLast(res) /\ offset + res < FileSize => readLess'
      BY <1>2 DEF CopyBuffer
    <3>3. offset + res < FileSize \/ offset' = FileSize
      BY <2>1
    <3> QED
      BY <3>1, <3>2, <3>3
  <2>5. ASSUME WrittenInv PROVE WrittenInv'
    <3>1. CASE wroteLess \/ written < res
      BY <1>2, <3>1 DEF CopyBuffer, WrittenInv
    <3>2. CASE ~ wroteLess /\ written = res
      <4>1. copied' = (0 .. offset - 1) \cup (offset .. offset + res - 1)
        BY <1>2, <2>5, <3>2 DEF CopyBuffer, WrittenInv
      <4>2. copied' = 0 .. offset' - 1
        BY <2>1, <4>1
      <4> QED
        BY <4>2 DEF WrittenInv
    <3> QED
      BY <2>1, <3>1, <3>2
  <2> QED
    BY <2>2, <2>3, <2>4, <2>5
<1>3. CASE UNCHANGED <<offset, copied, wroteLess>> /\ UNCHANGED readLess
  BY <1>1, <1>3 DEF Copy, CopyGoto, CopyBuffer, WrittenInv
<1>4. CASE UNCHANGED <<offset, copied, wroteLess>> /\ readLess'
  BY <1>4 DEF WrittenInv
<1> QED
  BY <1>2, <1>3, <1>4 DEF Copy, NothingRead

\* Every step keeps the variables in their sets.
LEMMA CopyTypeStep == CopyTypeOK /\ OwnerInv /\ [CopyNext]_copyVars => CopyTypeOK'
<1> SUFFICES ASSUME CopyTypeOK, OwnerInv, [CopyNext]_copyVars PROVE CopyTypeOK'
  OBVIOUS
<1> USE DEF worker
<1>1. coPc' \in [Connection \cup {"copyWorker"} ->
                 {"open", "lock", "pread", "done", "ended", "failed",
                  "recv", "send", "answer", "close"}]
  BY DEF CopyTypeOK, CopyNext, copyWorker, sendOffset, CopyTerminated, copyVars, CopyGoto,
         Open, WorkerLock, Copy, CopyBuffer, Done, Recv, OffsetLock, Send, RecvAnswer,
         AfterMessage, RunDestination
<1>2. /\ offset' \in 0 .. FileSize /\ copyingDone' \in BOOLEAN
      /\ copied' \subseteq 0 .. FileSize - 1 /\ readLess' \in BOOLEAN /\ wroteLess' \in BOOLEAN
  <2>1. CASE UNCHANGED <<offset, copied, readLess, wroteLess>> /\ copyingDone' \in BOOLEAN
    BY <2>1 DEF CopyTypeOK
  <2>2. CASE Copy
    BY <2>2, BufferIs DEF CopyTypeOK, Copy
  <2> QED
    BY <2>1, <2>2 DEF CopyTypeOK, CopyNext, copyWorker, sendOffset, CopyTerminated, copyVars,
         Open, WorkerLock, Done, Recv, OffsetLock, Send, RecvAnswer, RunDestination
<1>3. offsetMutex' \in Connection \cup {"copyWorker", NoThread}
  BY DEF CopyTypeOK, CopyNext, copyWorker, sendOffset, CopyTerminated, copyVars, Lock, Unlock,
         Open, WorkerLock, Copy, Done, Recv, OffsetLock, Send, RecvAnswer, AfterMessage,
         RunDestination
<1>4. told' \in [Connection -> -1 .. DONE]
  <2>1. offset \in -1 .. DONE /\ DONE \in -1 .. DONE
    BY CopyAssumption DEF CopyTypeOK, DONE
  <2> QED
    BY <2>1 DEF CopyTypeOK, CopyNext, copyWorker, sendOffset, CopyTerminated, copyVars, Answer,
         Open, WorkerLock, Copy, Done, Recv, OffsetLock, Send, RecvAnswer, AfterMessage,
         RunDestination
<1> QED
  BY <1>1, <1>2, <1>3, <1>4 DEF CopyTypeOK

\* Only who has the mutex gives it back, and only a free one is taken.
LEMMA OwnerStep == CopyTypeOK /\ OwnerInv /\ [CopyNext]_copyVars => OwnerInv'
<1> SUFFICES ASSUME CopyTypeOK, OwnerInv, [CopyNext]_copyVars PROVE OwnerInv'
  OBVIOUS
<1> USE DEF OwnerInv, CopyTypeOK, CopyGoto
<1>1. "copyWorker" \notin Connection /\ NoThread \notin Connection /\ NoThread # "copyWorker"
  BY CopyAssumption DEF NoThread
<1>2. CASE copyWorker
  BY <1>1, <1>2 DEF copyWorker, Open, WorkerLock, Copy, CopyBuffer, Done, Lock, Unlock
<1>3. ASSUME NEW c \in Connection, sendOffset(c) PROVE OwnerInv'
  BY <1>1, <1>3 DEF sendOffset, Recv, OffsetLock, Send, RecvAnswer, AfterMessage,
                    RunDestination, Lock, Unlock
<1>4. CASE UNCHANGED copyVars
  BY <1>4 DEF copyVars
<1> QED
  BY <1>2, <1>3, <1>4 DEF CopyNext, CopyTerminated

\* The done flag is set by the step that finds nothing more to copy, and by no other.
LEMMA EndStep == CopyTypeOK /\ OwnerInv /\ EndInv /\ [CopyNext]_copyVars => EndInv'
<1> SUFFICES ASSUME CopyTypeOK, OwnerInv, EndInv, [CopyNext]_copyVars PROVE EndInv'
  OBVIOUS
<1> USE DEF EndInv, Copied, CopyTypeOK, CopyGoto, worker
<1>1. CASE copyWorker
  <2>1. CASE Copy
    BY <2>1, BufferIs DEF Copy, CopyBuffer, OwnerInv
  <2> QED
    BY <1>1, <2>1 DEF copyWorker, Open, WorkerLock, Done
<1>2. ASSUME NEW c \in Connection, sendOffset(c) PROVE EndInv'
  <2>1. c # "copyWorker"
    BY CopyAssumption
  <2> QED
    BY <1>2, <2>1 DEF sendOffset, Recv, OffsetLock, Send, RecvAnswer, AfterMessage, RunDestination
<1>3. CASE UNCHANGED copyVars
  BY <1>3 DEF copyVars
<1> QED
  BY <1>1, <1>2, <1>3 DEF CopyNext, CopyTerminated

\* A buffer that is written as a whole is written where the offset passes over it.
LEMMA WrittenStep == CopyTypeOK /\ WrittenInv /\ [CopyNext]_copyVars => WrittenInv'
<1> SUFFICES ASSUME CopyTypeOK, WrittenInv, [CopyNext]_copyVars PROVE WrittenInv'
  OBVIOUS
<1>1. CASE UNCHANGED <<offset, copied, wroteLess>>
  BY <1>1 DEF WrittenInv
<1>2. CASE Copy
  BY <1>2, BufferIs
<1> QED
  BY <1>1, <1>2 DEF CopyNext, copyWorker, sendOffset, CopyTerminated, copyVars, worker, Open,
         WorkerLock, Done, Recv, OffsetLock, Send, RecvAnswer, RunDestination

\* What is heard: a connection that has sent the offset has the mutex, and the copy stands.
LEMMA HeardStep ==
  ASSUME CopyTypeOK, OwnerInv, EndInv, HeardInv, OffsetHoldsStill, [CopyNext]_copyVars
  PROVE  HeardInv' /\ OffsetHoldsStill'
<1> USE DEF HeardInv, OffsetHoldsStill, CopyTypeOK, CopyGoto
<1>1. CASE copyWorker
  <2>1. /\ offset \in Nat /\ offset' \in Nat /\ offset <= offset'
        /\ (\E c \in Connection : coPc[c] = "answer") => offset' = offset
    <3>1. ASSUME Copy PROVE coPc["copyWorker"] = "pread" /\ offset' \in Nat /\ offset <= offset'
      <4>1. offset' \in 0 .. FileSize /\ offset <= offset'
        BY <3>1, BufferIs
      <4>2. coPc["copyWorker"] = "pread"
        BY <3>1 DEF Copy
      <4> QED
        BY <4>1, <4>2, CopyAssumption
    <3>2. ASSUME ~ Copy PROVE offset' = offset
      BY <1>1, <3>2 DEF copyWorker, Open, WorkerLock, Done, worker
    <3> QED
      BY <3>1, <3>2, CopyAssumption DEF OwnerInv
  <2>2. /\ told' = told
        /\ copyingDone => copyingDone'
        /\ \A c \in Connection : coPc'[c] = coPc[c]
    BY <1>1, CopyAssumption
       DEF copyWorker, Open, WorkerLock, Copy, CopyBuffer, Done, worker
  <2>3. \A c \in Connection : told[c] \in Int
    BY CopyAssumption DEF DONE
  <2> QED
    BY <2>1, <2>2, <2>3
<1>2. ASSUME NEW c \in Connection, sendOffset(c) PROVE HeardInv' /\ OffsetHoldsStill'
  <2>1. offset' = offset /\ copyingDone' = copyingDone
    BY <1>2 DEF sendOffset, Recv, OffsetLock, Send, RecvAnswer, AfterMessage, RunDestination, worker
  <2>2. offset <= FileSize /\ offset \in Nat /\ offset # DONE
    BY CopyAssumption DEF DONE
  <2>3. ASSUME NEW d \in Connection, d # c
        PROVE  told'[d] = told[d] /\ coPc'[d] = coPc[d]
    BY <1>2, <2>3 DEF sendOffset, Recv, OffsetLock, Send, RecvAnswer, AfterMessage, RunDestination,
                      Answer
  <2>4. /\ told'[c] # DONE => told'[c] <= offset'
        /\ told'[c] = DONE => copyingDone' /\ coPc'[c] \notin {"lock", "send", "answer"}
        /\ coPc'[c] = "answer" => told'[c] = offset'
    <3>1. ASSUME NEW m \in Message, Recv(c, m) PROVE <2>4!:
      BY <3>1, <2>1, <2>2 DEF Recv, Answer, AfterMessage
    <3>2. CASE OffsetLock(c)
      BY <3>2, <2>1, <2>2 DEF OffsetLock
    <3>3. CASE Send(c)
      BY <3>3, <2>1, <2>2 DEF Send, Answer
    <3>4. ASSUME NEW m \in Message, RecvAnswer(c, m) PROVE <2>4!:
      BY <3>4, <2>1, <2>2 DEF RecvAnswer, AfterMessage
    <3>5. CASE RunDestination(c)
      BY <3>5, <2>1, <2>2 DEF RunDestination
    <3> QED
      BY <1>2, <3>1, <3>2, <3>3, <3>4, <3>5 DEF sendOffset
  <2> QED
    BY <2>1, <2>3, <2>4
<1>3. CASE UNCHANGED copyVars
  BY <1>3 DEF copyVars, worker
<1> QED
  BY <1>1, <1>2, <1>3 DEF CopyNext, CopyTerminated

\* The inductive invariant: who has offsetMutex, how the copy has ended, and what each
\* connection has heard (copy_deamon.c:30-78, 136-170).
THEOREM CopyInvariance == CopySpec => []CopyIInv
<1>1. CopyIInv /\ [CopyNext]_copyVars => CopyIInv'
  BY CopyTypeStep, OwnerStep, EndStep, WrittenStep, HeardStep DEF CopyIInv
<1> QED
  BY CopyInitInv, <1>1, PTL DEF CopySpec

\* The safety of copy_deamon.c for any file, buffer and number of connections, clients that
\* close when they like, reads and writes that come short: the offset a client is
\* considering stays what it is, although the copy goes on between its questions; DONE
\* means that the offset has come to the end, although copyingDone is read without the
\* mutex; and a machine is started on what its client was told (copy_deamon.c:47-77, 141-169).
THEOREM CopyIsSafe == CopySpec => []CopyInv
<1>1. CopyIInv => CopyInv
  BY DEF CopyIInv, CopyInv, DoneMeansCopied, RunsOnWhatWasTold, HeardInv, EndInv, WrittenInv,
         Copied
<1> QED
  BY CopyInvariance, <1>1, PTL

\* No client hears of less than it has heard before, nor of an offset after DONE: the
\* copy only goes forward, and who has read copyingDone as 0 and then waited for the
\* mutex still gets an offset, not DONE (copy_deamon.c:65, 147-160).
THEOREM NobodyIsSentBack == CopySpec => NeverBack
<1>1. ASSUME CopyIInv, [CopyNext]_copyVars, NEW c \in Connection PROVE told'[c] >= told[c]
  <2>1. told[c] \in -1 .. DONE /\ offset \in Nat /\ offset <= DONE /\ DONE \in Nat
    BY <1>1, CopyAssumption DEF CopyIInv, CopyTypeOK, DONE
  <2>2. \/ told'[c] = told[c] \/ told'[c] = DONE
        \/ coPc[c] = "send" /\ told'[c] = offset
    <3>1. ASSUME NEW d \in Connection, Send(d) \/ \E m \in Message : Recv(d, m)
          PROVE  \/ told'[c] = told[c] \/ told'[c] = DONE
                 \/ coPc[c] = "send" /\ told'[c] = offset
      BY <1>1, <3>1 DEF CopyIInv, CopyTypeOK, Recv, Send, Answer
    <3>2. CASE told' = told
      BY <3>2
    <3> QED
      BY <1>1, <3>1, <3>2 DEF CopyNext, copyWorker, sendOffset, CopyTerminated, copyVars,
         Open, WorkerLock, Copy, Done, OffsetLock, RecvAnswer, RunDestination
  <2>3. coPc[c] = "send" => told[c] <= offset
    BY <1>1 DEF CopyIInv, HeardInv
  <2> QED
    BY <2>1, <2>2, <2>3
<1>2. CopyIInv /\ [CopyNext]_copyVars => [\A c \in Connection : told'[c] >= told[c]]_copyVars
  BY <1>1
<1> QED
  BY CopyInvariance, <1>2, PTL DEF CopySpec, NeverBack
-----------------------------------------------------------------------------

(***************************************************************************)
(* multhread_server.c, for any number of descriptors, places, connections  *)
(* and bytes, and any size of str: the table says who is connected, and no *)
(* byte is both written to the clients and replaced.                       *)
(***************************************************************************)

\* thread_proc holds the mutex while it writes.
WriterInv == mut = "proc" <=> chPc["proc"] = "write"

\* What thread_connect has in hand between two steps: a connection that is not in the
\* table yet or no more, or one that is; and events of connections other than that.
CurrentInv ==
  /\ chPc["connect"] \in {"save", "watch", "drop", "close"} =>
       currfd \in open /\ currfd \notin batch
  /\ chPc["connect"] \in {"save", "close"} => \A n \in Slot : clients[n] # currfd
  /\ batch \cup event \subseteq open \cup {Listen}

\* The places a byte may be in: str (for NoFd), msg (for Listen), and the sockets.
Place == Fd \cup {NoFd, Listen}
Held(p) == IF p = NoFd THEN str ELSE IF p = Listen THEN msg ELSE inbox[p]

\* Bytes that have gone through msg.
Gone == overwritten \cup broadcast

\* A byte is in one place, once, or gone.
ByteInv ==
  /\ Gone \subseteq 1 .. sent /\ broadcast \cap overwritten = {}
  /\ \A p \in Place : \A i \in 1 .. Len(Held(p)) :
       Held(p)[i] \in 1 .. sent /\ Held(p)[i] \notin Gone
  /\ \A p, q \in Place : \A i \in 1 .. Len(Held(p)) : \A j \in 1 .. Len(Held(q)) :
       Held(p)[i] = Held(q)[j] => p = q /\ i = j
  /\ Len(str) <= StrSize /\ Len(msg) <= StrSize

ChatIInv == ChatTypeOK /\ WriterInv /\ CurrentInv /\ TableIsExact /\ ByteInv

\* Names and numbers.
LEMMA ChatNames ==
  /\ max_clients \in Nat \ {0} /\ MaxFd \in Nat /\ StrSize \in Nat \ {0}
  /\ MaxBytes \in Nat /\ MaxConnections \in Nat
  /\ NoFd \notin Fd /\ Listen \notin Fd /\ NoFd # Listen /\ NoFd = 0 /\ "proc" # NoThread
  /\ Slot = 1 .. max_clients /\ Fd = 1 .. MaxFd /\ Byte = 1 .. MaxBytes
  BY ServerAssumption DEF NoFd, Fd, Listen, Byte, Slot, NoThread

\* What the places hold.
LEMMA PlacesHold ==
  ASSUME ChatTypeOK
  PROVE  /\ Held(NoFd) = str /\ Held(Listen) = msg /\ \A f \in Fd : Held(f) = inbox[f]
         /\ \A p \in Place : Held(p) \in Seq(Byte) /\ Len(Held(p)) \in Nat
                               /\ DOMAIN Held(p) = 1 .. Len(Held(p))
<1>1. Held(NoFd) = str /\ Held(Listen) = msg /\ \A f \in Fd : Held(f) = inbox[f]
  BY ChatNames DEF Held
<1>2. \A p \in Place : Held(p) \in Seq(Byte) BY <1>1 DEF ChatTypeOK, Place
<1>q. QED BY <1>1, <1>2, LenProperties

\* No byte is in two places, or gone from one.
LEMMA OnePlace ==
  ASSUME ByteInv, NEW p \in Place, NEW i \in 1 .. Len(Held(p))
  PROVE  /\ Held(p)[i] \in 1 .. sent /\ Held(p)[i] \notin Gone
         /\ \A q \in Place : \A j \in 1 .. Len(Held(q)) :
              Held(p)[i] = Held(q)[j] => p = q /\ i = j
  BY DEF ByteInv

\* A step that moves no byte.
LEMMA BytesStay ==
  ASSUME ByteInv, inbox' = inbox, str' = str, msg' = msg, sent' = sent,
         overwritten' = overwritten, broadcast' = broadcast
  PROVE  ByteInv'
  BY DEF ByteInv, Gone, Held

\* What is in the socket is lost with it.
LEMMA BytesAreLost ==
  ASSUME ChatTypeOK, ByteInv, NEW f \in Fd, CloseFd(f), str' = str, msg' = msg, sent' = sent,
         overwritten' = overwritten, broadcast' = broadcast
  PROVE  inbox' \in [Fd -> Seq(Byte)] /\ ByteInv'
<1>1. inbox' = [inbox EXCEPT ![f] = <<>>] BY DEF CloseFd
<1>2. inbox' \in [Fd -> Seq(Byte)] /\ \A g \in Fd : inbox'[g] = IF g = f THEN <<>> ELSE inbox[g]
  BY <1>1 DEF ChatTypeOK
<1>3. \A p \in Place : Held(p)' = IF p = f THEN <<>> ELSE Held(p)
  BY <1>2, ChatNames DEF Held, Place
<1>4. \A p \in Place : \A i \in 1 .. Len(Held(p)') : p # f /\ Held(p)' = Held(p)
  <2> SUFFICES ASSUME NEW p \in Place, NEW i \in 1 .. Len(Held(p)') PROVE p # f
    BY <1>3
  <2>1. CASE p = f
    <3>1. Len(Held(p)') = 0 BY <1>3, <2>1
    <3>q. QED BY <3>1
  <2>q. QED BY <2>1
<1>5. Gone' = Gone BY DEF Gone
<1>6. \A p \in Place : \A i \in 1 .. Len(Held(p)') :
        Held(p)'[i] \in 1 .. sent' /\ Held(p)'[i] \notin Gone'
  BY <1>4, <1>5 DEF ByteInv
<1>7. \A p, q \in Place : \A i \in 1 .. Len(Held(p)') : \A j \in 1 .. Len(Held(q)') :
        Held(p)'[i] = Held(q)'[j] => p = q /\ i = j
  <2> SUFFICES ASSUME NEW p \in Place, NEW q \in Place, NEW i \in 1 .. Len(Held(p)'),
                      NEW j \in 1 .. Len(Held(q)'), Held(p)'[i] = Held(q)'[j]
               PROVE  p = q /\ i = j
    OBVIOUS
  <2>1. Held(p)' = Held(p) /\ Held(q)' = Held(q) BY <1>4
  <2>2. i \in 1 .. Len(Held(p)) /\ j \in 1 .. Len(Held(q)) /\ Held(p)[i] = Held(q)[j] BY <2>1
  <2>q. QED BY <2>2 DEF ByteInv
<1>q. QED BY <1>2, <1>5, <1>6, <1>7 DEF ByteInv

\* The start of multhread_server.c.
LEMMA ChatStart == ChatInit => ChatIInv
<1> SUFFICES ASSUME ChatInit PROVE ChatIInv OBVIOUS
<1>e. /\ clients = [n \in Slot |-> NoFd] /\ msg = <<>> /\ mut = NoThread
      /\ batch = {} /\ currfd = NoFd /\ str = <<>> /\ slot = 1
      /\ open = {} /\ inbox = [f \in Fd |-> <<>>] /\ hungup = {} /\ event = {}
      /\ connections = 0 /\ sent = 0
      /\ overwritten = {} /\ broadcast = {} /\ behind = {}
  BY DEF ChatInit
<1>p. /\ DOMAIN chPc = {"connect", "proc"} /\ chPc["connect"] = "epoll" /\ chPc["proc"] = "lock"
  BY DEF ChatInit
<1>1. ChatTypeOK
  <2>1. clients \in [Slot -> Fd \cup {NoFd}] BY <1>e
  <2>2. inbox \in [Fd -> Seq(Byte)] BY <1>e
  <2>3. /\ slot \in 1 .. max_clients + 1 /\ connections \in 0 .. MaxConnections
        /\ sent \in 0 .. MaxBytes
    BY <1>e, ChatNames
  <2>q. QED BY <1>e, <1>p, <2>1, <2>2, <2>3 DEF ChatTypeOK
<1>2. WriterInv BY <1>e, <1>p, ChatNames DEF WriterInv
<1>3. CurrentInv BY <1>e, <1>p DEF CurrentInv
<1>4. TableIsExact BY <1>e DEF TableIsExact
<1>5. ByteInv
  <2>1. \A p \in Place : Held(p) = <<>> /\ Len(Held(p)) = 0 BY <1>e DEF Held, Place
  <2>2. \A p \in Place : 1 .. Len(Held(p)) = {} BY <2>1
  <2>3. Len(str) = 0 /\ Len(msg) = 0 BY <1>e
  <2>4. Len(str) <= StrSize /\ Len(msg) <= StrSize BY <2>3, ChatNames
  <2>5. Gone = {} /\ broadcast \cap overwritten = {} BY <1>e DEF Gone
  <2>q. QED BY <2>2, <2>4, <2>5 DEF ByteInv
<1>q. QED BY <1>1, <1>2, <1>3, <1>4, <1>5 DEF ChatIInv

\* Events are taken ...
LEMMA EpollKeeps ==
  ASSUME ChatIInv, Epoll
  PROVE  ChatIInv'
<1>a. ChatTypeOK /\ WriterInv /\ CurrentInv /\ TableIsExact /\ ByteInv BY DEF ChatIInv
<1>e. /\ chPc' = chPc /\ chPc["connect"] = "epoll" /\ batch' \subseteq event /\ event' = {}
      /\ clients' = clients /\ msg' = msg /\ mut' = mut /\ currfd' = currfd /\ str' = str
      /\ slot' = slot /\ open' = open /\ inbox' = inbox /\ hungup' = hungup
      /\ connections' = connections /\ sent' = sent
      /\ overwritten' = overwritten /\ broadcast' = broadcast /\ behind' = behind
  BY DEF Epoll, chatTable, peers, history
<1>1. ChatTypeOK' BY <1>a, <1>e DEF ChatTypeOK
<1>2. WriterInv' BY <1>a, <1>e DEF WriterInv
<1>3. CurrentInv' BY <1>a, <1>e DEF CurrentInv
<1>4. TableIsExact' BY <1>a, <1>e DEF TableIsExact
<1>5. ByteInv' BY <1>a, <1>e, BytesStay
<1>q. QED BY <1>1, <1>2, <1>3, <1>4, <1>5 DEF ChatIInv

\* ... that of the listening socket among them, which brings a connection or none.
LEMMA AcceptKeeps ==
  ASSUME ChatIInv, Accept
  PROVE  ChatIInv'
<1>a. ChatTypeOK /\ WriterInv /\ CurrentInv /\ TableIsExact /\ ByteInv BY DEF ChatIInv
<1>e. /\ chPc["connect"] = "epoll" /\ batch' = batch \ {Listen}
      /\ clients' = clients /\ msg' = msg /\ mut' = mut /\ str' = str /\ slot' = slot
      /\ inbox' = inbox /\ hungup' = hungup /\ event' = event
      /\ connections' = connections /\ sent' = sent
      /\ overwritten' = overwritten /\ broadcast' = broadcast /\ behind' = behind
  BY DEF Accept, chatTable, peers, history
<1>5. ByteInv' BY <1>a, <1>e, BytesStay
<1>s. CASE \E f \in Fd \ open : /\ open' = open \cup {f} /\ currfd' = f
                                /\ ChatGoto("connect", "save")
  <2>f. PICK f \in Fd \ open : /\ open' = open \cup {f} /\ currfd' = f
                               /\ ChatGoto("connect", "save")
    BY <1>s
  <2>p. /\ DOMAIN chPc' = {"connect", "proc"}
        /\ chPc'["connect"] = "save" /\ chPc'["proc"] = chPc["proc"]
    BY <1>a, <2>f DEF ChatGoto, ChatTypeOK
  <2>1. ChatTypeOK' BY <1>a, <1>e, <2>f, <2>p DEF ChatTypeOK
  <2>2. WriterInv' BY <1>a, <1>e, <2>p DEF WriterInv
  <2>3. CurrentInv' BY <1>a, <1>e, <2>f, <2>p, ChatNames DEF CurrentInv, TableIsExact
  <2>4. TableIsExact' BY <1>a, <1>e, <2>f, <2>p DEF TableIsExact
  <2>q. QED BY <2>1, <2>2, <2>3, <2>4, <1>5 DEF ChatIInv
<1>t. CASE open' = open /\ currfd' = currfd /\ chPc' = chPc
  <2>1. ChatTypeOK' BY <1>a, <1>e, <1>t DEF ChatTypeOK
  <2>2. WriterInv' BY <1>a, <1>e, <1>t DEF WriterInv
  <2>3. CurrentInv' BY <1>a, <1>e, <1>t DEF CurrentInv
  <2>4. TableIsExact' BY <1>a, <1>e, <1>t DEF TableIsExact
  <2>q. QED BY <2>1, <2>2, <2>3, <2>4, <1>5 DEF ChatIInv
<1>q. QED BY <1>s, <1>t DEF Accept

\* The connection gets a place, or none is free and it is closed.
LEMMA SaveKeeps ==
  ASSUME ChatIInv, Save
  PROVE  ChatIInv'
<1>a. ChatTypeOK /\ WriterInv /\ CurrentInv /\ TableIsExact /\ ByteInv BY DEF ChatIInv
<1>e. /\ chPc["connect"] = "save" /\ mut = NoThread
      /\ msg' = msg /\ mut' = mut /\ batch' = batch /\ str' = str /\ slot' = slot
      /\ connections' = connections /\ sent' = sent
      /\ overwritten' = overwritten /\ broadcast' = broadcast
  BY DEF Save, peers
<1>n. /\ currfd \in open /\ currfd \in Fd /\ currfd # NoFd /\ currfd \notin batch
      /\ \A n \in Slot : clients[n] # currfd
  BY <1>a, <1>e, ChatNames DEF CurrentInv, ChatTypeOK
<1>s. CASE \E n \in Slot : /\ IsFree(n) /\ clients' = [clients EXCEPT ![n] = currfd]
                           /\ ChatGoto("connect", "watch")
                           /\ UNCHANGED <<currfd, sockets, behind>>
  <2>f. PICK n \in Slot : /\ IsFree(n) /\ clients' = [clients EXCEPT ![n] = currfd]
                          /\ ChatGoto("connect", "watch")
                          /\ UNCHANGED <<currfd, sockets, behind>>
    BY <1>s
  <2>u. /\ currfd' = currfd /\ open' = open /\ inbox' = inbox /\ hungup' = hungup
        /\ event' = event /\ behind' = behind
    BY <2>f DEF sockets
  <2>p. /\ DOMAIN chPc' = {"connect", "proc"}
        /\ chPc'["connect"] = "watch" /\ chPc'["proc"] = chPc["proc"]
    BY <1>a, <2>f DEF ChatGoto, ChatTypeOK
  <2>c. /\ clients' \in [Slot -> Fd \cup {NoFd}] /\ clients[n] = NoFd
        /\ \A m \in Slot : clients'[m] = IF m = n THEN currfd ELSE clients[m]
    BY <1>a, <1>n, <2>f DEF ChatTypeOK, IsFree
  <2>1. ChatTypeOK' BY <1>a, <1>e, <2>u, <2>p, <2>c DEF ChatTypeOK
  <2>2. WriterInv' BY <1>a, <1>e, <2>p DEF WriterInv
  <2>3. CurrentInv' BY <1>a, <1>n, <1>e, <2>u, <2>p DEF CurrentInv
  <2>4. TableIsExact'
    <3>1. \A m \in Slot : clients'[m] # NoFd => clients'[m] \in open'
      BY <1>a, <1>n, <2>u, <2>c DEF TableIsExact
    <3>2. \A k, m \in Slot : clients'[k] = clients'[m] /\ clients'[k] # NoFd => k = m
      BY <1>a, <1>n, <2>c DEF TableIsExact
    <3>3. \A f \in open' : \E m \in Slot : clients'[m] = f
      <4>1. clients'[n] = currfd BY <2>c
      <4>2. \A f \in open : f # currfd => \E m \in Slot : clients[m] = f /\ m # n
        BY <1>a, <1>n, <2>c, ChatNames DEF TableIsExact, ChatTypeOK
      <4>q. QED BY <2>u, <2>c, <4>1, <4>2
    <3>q. QED BY <3>1, <3>2, <3>3 DEF TableIsExact
  <2>5. ByteInv' BY <1>a, <1>e, <2>u, BytesStay
  <2>q. QED BY <2>1, <2>2, <2>3, <2>4, <2>5 DEF ChatIInv
<1>t. CASE /\ \A n \in Slot : ~ IsFree(n)
           /\ CloseFd(currfd) /\ NextEvent /\ UNCHANGED clients
  <2>u. /\ open' = open \ {currfd} /\ hungup' = hungup \ {currfd} /\ clients' = clients
        /\ event' = event \ {currfd} /\ behind' = behind \ {currfd} /\ currfd' = NoFd
    BY <1>t DEF CloseFd, NextEvent
  <2>p. /\ DOMAIN chPc' = {"connect", "proc"}
        /\ chPc'["connect"] = "epoll" /\ chPc'["proc"] = chPc["proc"]
    BY <1>a, <1>t DEF NextEvent, ChatGoto, ChatTypeOK
  <2>5. inbox' \in [Fd -> Seq(Byte)] /\ ByteInv' BY <1>a, <1>n, <1>e, <1>t, BytesAreLost
  <2>1. ChatTypeOK' BY <1>a, <1>e, <2>u, <2>p, <2>5 DEF ChatTypeOK
  <2>2. WriterInv' BY <1>a, <1>e, <2>p DEF WriterInv
  <2>3. CurrentInv' BY <1>a, <1>n, <1>e, <2>u, <2>p DEF CurrentInv
  <2>4. TableIsExact' BY <1>a, <1>n, <2>u, <2>p DEF TableIsExact
  <2>q. QED BY <2>1, <2>2, <2>3, <2>4, <2>5 DEF ChatIInv
<1>q. QED BY <1>s, <1>t DEF Save

\* The connection is watched.
LEMMA WatchKeeps ==
  ASSUME ChatIInv, Watch
  PROVE  ChatIInv'
<1>a. ChatTypeOK /\ WriterInv /\ CurrentInv /\ TableIsExact /\ ByteInv BY DEF ChatIInv
<1>e. /\ chPc["connect"] = "watch" /\ event' \subseteq event \cup {currfd} /\ currfd' = NoFd
      /\ clients' = clients /\ msg' = msg /\ mut' = mut /\ batch' = batch /\ str' = str
      /\ slot' = slot /\ open' = open /\ inbox' = inbox /\ hungup' = hungup
      /\ connections' = connections /\ sent' = sent
      /\ overwritten' = overwritten /\ broadcast' = broadcast /\ behind' = behind
  BY DEF Watch, NextEvent, chatTable, peers, history
<1>p. /\ DOMAIN chPc' = {"connect", "proc"}
      /\ chPc'["connect"] = "epoll" /\ chPc'["proc"] = chPc["proc"]
  BY <1>a DEF Watch, NextEvent, ChatGoto, ChatTypeOK
<1>n. currfd \in open /\ currfd \in Fd BY <1>a, <1>e DEF CurrentInv, ChatTypeOK
<1>1. ChatTypeOK' BY <1>a, <1>e, <1>n, <1>p DEF ChatTypeOK
<1>2. WriterInv' BY <1>a, <1>e, <1>p DEF WriterInv
<1>3. CurrentInv' BY <1>a, <1>e, <1>n, <1>p DEF CurrentInv
<1>4. TableIsExact' BY <1>a, <1>e, <1>p DEF TableIsExact
<1>5. ByteInv' BY <1>a, <1>e, BytesStay
<1>q. QED BY <1>1, <1>2, <1>3, <1>4, <1>5 DEF ChatIInv

\* A read of some bytes, or of the end, or of nothing.
LEMMA ReadKeeps ==
  ASSUME ChatIInv, Read
  PROVE  ChatIInv'
<1>a. ChatTypeOK /\ WriterInv /\ CurrentInv /\ TableIsExact /\ ByteInv BY DEF ChatIInv
<1>f. PICK f \in batch \cap Fd :
        /\ batch' = batch \ {f} /\ currfd' = f
        /\ \/ \E n \in 1 .. StrSize :
                /\ n <= Len(inbox[f])
                /\ str' = SubSeq(inbox[f], 1, n)
                /\ inbox' = [inbox EXCEPT ![f] = SubSeq(@, n + 1, Len(@))]
                /\ behind' \subseteq behind \cup {f} /\ ChatGoto("connect", "store")
           \/ ChatGoto("connect", "drop") /\ UNCHANGED <<str, inbox, behind>>
  BY DEF Read
<1>e. /\ chPc["connect"] = "epoll"
      /\ clients' = clients /\ msg' = msg /\ mut' = mut /\ slot' = slot
      /\ open' = open /\ hungup' = hungup /\ event' = event
      /\ connections' = connections /\ sent' = sent
      /\ overwritten' = overwritten /\ broadcast' = broadcast
  BY DEF Read, chatTable, peers
<1>n. /\ f \in Fd /\ f \in open /\ inbox[f] \in Seq(Byte) /\ Gone' = Gone
      /\ clients' \in [Slot -> Fd \cup {NoFd}] /\ currfd' \in Fd /\ f \notin batch'
  BY <1>a, <1>f, <1>e, ChatNames DEF ChatTypeOK, CurrentInv, Gone
<1>s. CASE \E n \in 1 .. StrSize :
             /\ n <= Len(inbox[f])
             /\ str' = SubSeq(inbox[f], 1, n)
             /\ inbox' = [inbox EXCEPT ![f] = SubSeq(@, n + 1, Len(@))]
             /\ behind' \subseteq behind \cup {f} /\ ChatGoto("connect", "store")
  <2>f. PICK n \in 1 .. StrSize :
             /\ n <= Len(inbox[f])
             /\ str' = SubSeq(inbox[f], 1, n)
             /\ inbox' = [inbox EXCEPT ![f] = SubSeq(inbox[f], n + 1, Len(inbox[f]))]
             /\ behind' \subseteq behind \cup {f} /\ ChatGoto("connect", "store")
    BY <1>s
  <2>p. /\ DOMAIN chPc' = {"connect", "proc"}
        /\ chPc'["connect"] = "store" /\ chPc'["proc"] = chPc["proc"]
    BY <1>a, <2>f DEF ChatGoto, ChatTypeOK
  <2>n. /\ n \in Nat /\ n >= 1 /\ Len(inbox[f]) \in Nat /\ n <= Len(inbox[f]) /\ n <= StrSize
        /\ \A i \in 1 .. Len(inbox[f]) : inbox[f][i] \in Byte
    <3>1. n \in Nat /\ n >= 1 /\ n <= StrSize BY <2>f, ChatNames
    <3>q. QED BY <1>n, <2>f, <3>1, LenProperties, ElementOfSeq
  <2>r. /\ str' \in Seq(Byte) /\ Len(str') = n /\ \A i \in 1 .. n : str'[i] = inbox[f][i]
    <3>1. \A i \in 1 .. n : inbox[f][i] \in Byte BY <2>n
    <3>2. /\ SubSeq(inbox[f], 1, n) \in Seq(Byte)
          /\ Len(SubSeq(inbox[f], 1, n)) = IF 1 <= n THEN n - 1 + 1 ELSE 0
          /\ \A i \in 1 .. n - 1 + 1 : SubSeq(inbox[f], 1, n)[i] = inbox[f][1 + i - 1]
      BY <3>1, <2>n, SubSeqProperties
    <3>q. QED BY <3>2, <2>f, <2>n
  <2>i. /\ inbox' \in [Fd -> Seq(Byte)] /\ \A g \in Fd : g # f => inbox'[g] = inbox[g]
        /\ Len(inbox'[f]) = Len(inbox[f]) - n
        /\ \A i \in 1 .. Len(inbox[f]) - n : inbox'[f][i] = inbox[f][n + i]
    <3> DEFINE left == SubSeq(inbox[f], n + 1, Len(inbox[f]))
    <3>1. \A i \in n + 1 .. Len(inbox[f]) : inbox[f][i] \in Byte BY <2>n
    <3>2. /\ left \in Seq(Byte)
          /\ Len(left) = IF n + 1 <= Len(inbox[f]) THEN Len(inbox[f]) - (n + 1) + 1 ELSE 0
          /\ \A i \in 1 .. Len(inbox[f]) - (n + 1) + 1 : left[i] = inbox[f][n + 1 + i - 1]
      BY <3>1, <2>n, SubSeqProperties
    <3>3. inbox' = [inbox EXCEPT ![f] = left] BY <2>f
    <3> HIDE DEF left
    <3>4. /\ inbox' \in [Fd -> Seq(Byte)] /\ inbox'[f] = left
          /\ \A g \in Fd : g # f => inbox'[g] = inbox[g]
      BY <1>a, <1>n, <3>2, <3>3 DEF ChatTypeOK
    <3>5. Len(left) = Len(inbox[f]) - n BY <3>2, <2>n
    <3>6. \A i \in 1 .. Len(inbox[f]) - n : left[i] = inbox[f][n + i] BY <3>2, <2>n
    <3>q. QED BY <3>4, <3>5, <3>6
  <2>1. ChatTypeOK' BY <1>a, <1>f, <1>n, <1>e, <2>f, <2>p, <2>r, <2>i DEF ChatTypeOK
  <2>2. WriterInv' BY <1>a, <1>e, <2>p DEF WriterInv
  <2>3. CurrentInv' BY <1>a, <1>f, <1>e, <2>p DEF CurrentInv
  <2>4. TableIsExact' BY <1>a, <1>e, <2>p DEF TableIsExact
  <2>5. ByteInv'
    <3> DEFINE From(p) == IF p = NoFd THEN f ELSE p
               At(p, i) == IF p = f THEN n + i ELSE i
    <3>h. /\ Held(NoFd)' = str' /\ Held(f)' = inbox'[f]
          /\ \A p \in Place : p # NoFd /\ p # f => Held(p)' = Held(p)
      BY <1>n, <1>e, <2>i, ChatNames DEF Held, Place
    <3>o. Held(f) = inbox[f] /\ f # NoFd /\ f \in Place /\ NoFd \in Place
      BY <1>n, ChatNames DEF Held, Place
    <3>1. \A p \in Place : \A i \in 1 .. Len(Held(p)') :
            /\ i \in Nat /\ i >= 1 /\ (p = NoFd => i <= n)
            /\ From(p) \in Place /\ At(p, i) \in 1 .. Len(Held(From(p)))
            /\ Held(p)'[i] = Held(From(p))[At(p, i)]
      <4> SUFFICES ASSUME NEW p \in Place, NEW i \in 1 .. Len(Held(p)')
                   PROVE  /\ i \in Nat /\ i >= 1 /\ (p = NoFd => i <= n)
                          /\ From(p) \in Place /\ At(p, i) \in 1 .. Len(Held(From(p)))
                          /\ Held(p)'[i] = Held(From(p))[At(p, i)]
        OBVIOUS
      <4>1. CASE p = NoFd BY <4>1, <3>h, <3>o, <2>r, <2>n
      <4>2. CASE p = f
        <5>1. i \in 1 .. Len(inbox[f]) - n BY <4>2, <3>h, <2>i
        <5>2. i \in Nat /\ i >= 1 /\ n + i \in 1 .. Len(inbox[f]) BY <5>1, <2>n
        <5>q. QED BY <4>2, <5>1, <5>2, <3>h, <3>o, <2>i
      <4>3. CASE p # NoFd /\ p # f
        <5>1. Held(p)' = Held(p) /\ i \in 1 .. Len(Held(p)) BY <4>3, <3>h
        <5>2. Len(Held(p)) \in Nat BY <1>a, PlacesHold
        <5>q. QED BY <4>3, <5>1, <5>2
      <4>q. QED BY <4>1, <4>2, <4>3
    <3>2. \A p, q \in Place : \A i \in 1 .. Len(Held(p)') : \A j \in 1 .. Len(Held(q)') :
            From(p) = From(q) /\ At(p, i) = At(q, j) => p = q /\ i = j
      BY <3>1, <3>o, <2>n
    <3> HIDE DEF From, At
    <3>3. \A p \in Place : \A i \in 1 .. Len(Held(p)') :
            Held(p)'[i] \in 1 .. sent' /\ Held(p)'[i] \notin Gone'
      BY <1>a, <1>n, <1>e, <3>1 DEF ByteInv
    <3>4. \A p, q \in Place : \A i \in 1 .. Len(Held(p)') : \A j \in 1 .. Len(Held(q)') :
            Held(p)'[i] = Held(q)'[j] => p = q /\ i = j
      <4> SUFFICES ASSUME NEW p \in Place, NEW q \in Place, NEW i \in 1 .. Len(Held(p)'),
                          NEW j \in 1 .. Len(Held(q)'), Held(p)'[i] = Held(q)'[j]
                   PROVE  p = q /\ i = j
        OBVIOUS
      <4>1. /\ From(p) \in Place /\ At(p, i) \in 1 .. Len(Held(From(p)))
            /\ From(q) \in Place /\ At(q, j) \in 1 .. Len(Held(From(q)))
        BY <3>1
      <4>3. Held(From(p))[At(p, i)] = Held(From(q))[At(q, j)]
        <5>1. Held(p)'[i] = Held(From(p))[At(p, i)] BY <3>1
        <5>2. Held(q)'[j] = Held(From(q))[At(q, j)] BY <3>1
        <5>q. QED BY <5>1, <5>2
      <4>2. From(p) = From(q) /\ At(p, i) = At(q, j) BY <1>a, <4>1, <4>3, OnePlace
      <4>q. QED BY <4>2, <3>2
    <3>5. Len(str') <= StrSize /\ Len(msg') <= StrSize BY <1>a, <1>e, <2>r, <2>n DEF ByteInv
    <3>q. QED BY <1>a, <1>n, <1>e, <3>3, <3>4, <3>5 DEF ByteInv
  <2>q. QED BY <2>1, <2>2, <2>3, <2>4, <2>5 DEF ChatIInv
<1>t. CASE ChatGoto("connect", "drop") /\ UNCHANGED <<str, inbox, behind>>
  <2>p. /\ DOMAIN chPc' = {"connect", "proc"}
        /\ chPc'["connect"] = "drop" /\ chPc'["proc"] = chPc["proc"]
    BY <1>a, <1>t DEF ChatGoto, ChatTypeOK
  <2>u. str' = str /\ inbox' = inbox /\ behind' = behind BY <1>t
  <2>1. ChatTypeOK' BY <1>a, <1>f, <1>n, <1>e, <2>p, <2>u DEF ChatTypeOK
  <2>2. WriterInv' BY <1>a, <1>e, <2>p DEF WriterInv
  <2>3. CurrentInv' BY <1>a, <1>f, <1>n, <1>e, <2>p DEF CurrentInv
  <2>4. TableIsExact' BY <1>a, <1>e, <2>p DEF TableIsExact
  <2>5. ByteInv' BY <1>a, <1>e, <2>u, BytesStay
  <2>q. QED BY <2>1, <2>2, <2>3, <2>4, <2>5 DEF ChatIInv
<1>q. QED BY <1>f, <1>s, <1>t

\* What strncpy does to the sequence old.
LEMMA CopiedOver ==
  ASSUME NEW S, NEW new \in Seq(S), NEW old \in Seq(S),
         NEW after, after = new \o SubSeq(old, Len(new) + 1, Len(old))
  PROVE  /\ after \in Seq(S)
         /\ Len(after) = IF Len(new) < Len(old) THEN Len(old) ELSE Len(new)
         /\ \A i \in 1 .. Len(after) : after[i] = IF i <= Len(new) THEN new[i] ELSE old[i]
<1> DEFINE a == Len(new)
           b == Len(old)
           tail == SubSeq(old, a + 1, b)
           t == Len(tail)
<1>1. a \in Nat /\ b \in Nat BY LenProperties
<1>2. a + 1 \in Int /\ b \in Int BY <1>1
<1>3. \A i \in a + 1 .. b : old[i] \in S
  <2>1. \A i \in a + 1 .. b : i \in 1 .. b BY <1>1
  <2>q. QED BY <2>1, ElementOfSeq
<1> HIDE DEF a, b
<1>4. /\ tail \in Seq(S)
      /\ Len(tail) = IF a + 1 <= b THEN b - (a + 1) + 1 ELSE 0
      /\ \A i \in 1 .. b - (a + 1) + 1 : tail[i] = old[a + 1 + i - 1]
  BY <1>2, <1>3, SubSeqProperties
<1>5. /\ after \in Seq(S) /\ Len(after) = a + Len(tail)
      /\ \A i \in 1 .. a + Len(tail) : after[i] = IF i <= a THEN new[i] ELSE tail[i - a]
  <2>1. after = new \o tail /\ a = Len(new) BY DEF a, b
  <2>2. tail \in Seq(S) BY <1>4
  <2> HIDE DEF tail
  <2>3. /\ new \o tail \in Seq(S) /\ Len(new \o tail) = Len(new) + Len(tail)
        /\ \A i \in 1 .. Len(new) + Len(tail) :
             (new \o tail)[i] = IF i <= Len(new) THEN new[i] ELSE tail[i - Len(new)]
    BY <2>2, ConcatProperties
  <2>q. QED BY <2>1, <2>3
<1> HIDE DEF tail
<1>6. t = IF a < b THEN b - a ELSE 0
  <2>1. t = IF a + 1 <= b THEN b - (a + 1) + 1 ELSE 0 BY <1>4
  <2> HIDE DEF t
  <2>q. QED BY <1>1, <2>1
<1>7. \A i \in 1 .. a + t : ~ (i <= a) => tail[i - a] = old[i]
  <2> SUFFICES ASSUME NEW i \in 1 .. a + t, ~ (i <= a) PROVE tail[i - a] = old[i]
    OBVIOUS
  <2>1. i - a \in 1 .. b - (a + 1) + 1 /\ a + 1 + (i - a) - 1 = i
    <3> HIDE DEF t
    <3>q. QED BY <1>1, <1>6
  <2>2. tail[i - a] = old[a + 1 + (i - a) - 1] BY <1>4, <2>1
  <2>q. QED BY <2>1, <2>2
<1>8. Len(after) = a + t /\ a + t = IF a < b THEN b ELSE a
  <2>1. Len(after) = a + t BY <1>5
  <2> HIDE DEF t
  <2>q. QED BY <1>1, <1>6, <2>1
<1>9. \A i \in 1 .. Len(after) : after[i] = IF i <= a THEN new[i] ELSE old[i]
  BY <1>5, <1>7
<1>q. QED BY <1>5, <1>8, <1>9 DEF a, b

\* The bytes replace what thread_proc has not written.
LEMMA StoreKeeps ==
  ASSUME ChatIInv, Store
  PROVE  ChatIInv'
<1>a. ChatTypeOK /\ WriterInv /\ CurrentInv /\ TableIsExact /\ ByteInv BY DEF ChatIInv
<1>e. /\ chPc["connect"] = "store" /\ mut = NoThread
      /\ overwritten' = overwritten \cup {msg[i] : i \in DOMAIN msg \cap DOMAIN str}
      /\ msg' = str \o SubSeq(msg, Len(str) + 1, Len(msg)) /\ str' = <<>>
      /\ clients' = clients /\ mut' = mut /\ batch' = batch /\ currfd' = NoFd /\ slot' = slot
      /\ open' = open /\ inbox' = inbox /\ hungup' = hungup /\ event' = event
      /\ connections' = connections /\ sent' = sent
      /\ broadcast' = broadcast /\ behind' = behind
  BY DEF Store, NobodyWrites, NextEvent, sockets, peers
<1>p. /\ DOMAIN chPc' = {"connect", "proc"}
      /\ chPc'["connect"] = "epoll" /\ chPc'["proc"] = chPc["proc"]
  BY <1>a DEF Store, NextEvent, ChatGoto, ChatTypeOK
<1>n. /\ str \in Seq(Byte) /\ Len(str) \in Nat /\ DOMAIN str = 1 .. Len(str)
      /\ msg \in Seq(Byte) /\ Len(msg) \in Nat /\ DOMAIN msg = 1 .. Len(msg)
      /\ Len(str) <= StrSize /\ Len(msg) <= StrSize
  BY <1>a, LenProperties DEF ChatTypeOK, ByteInv
<1>m. /\ msg' \in Seq(Byte) /\ Len(msg') = IF Len(str) < Len(msg) THEN Len(msg) ELSE Len(str)
      /\ \A i \in 1 .. Len(msg') : msg'[i] = IF i <= Len(str) THEN str[i] ELSE msg[i]
  BY <1>e, <1>n, CopiedOver
<1>1. ChatTypeOK'
  <2>1. <<>> \in Seq(Byte) OBVIOUS
  <2>2. overwritten' \subseteq Byte BY <1>a, <1>e, <1>n, ElementOfSeq DEF ChatTypeOK
  <2>q. QED BY <1>a, <1>e, <1>p, <1>m, <2>1, <2>2 DEF ChatTypeOK
<1>2. WriterInv' BY <1>a, <1>e, <1>p DEF WriterInv
<1>3. CurrentInv' BY <1>a, <1>e, <1>p DEF CurrentInv
<1>4. TableIsExact' BY <1>a, <1>e, <1>p DEF TableIsExact
<1>5. ByteInv'
  <2> DEFINE Replaced == {msg[i] : i \in DOMAIN msg \cap DOMAIN str}
             From(p, i) == IF p = Listen /\ i <= Len(str) THEN NoFd ELSE p
  <2>h. /\ Held(NoFd)' = <<>> /\ Held(Listen)' = msg' /\ Held(NoFd) = str /\ Held(Listen) = msg
        /\ NoFd \in Place /\ Listen \in Place
        /\ \A p \in Place : p # NoFd /\ p # Listen => Held(p)' = Held(p)
        /\ \A p \in Place : Len(Held(p)) \in Nat
    BY <1>a, <1>e, ChatNames, PlacesHold DEF Held, Place
  <2>1. \A p \in Place : \A i \in 1 .. Len(Held(p)') :
          /\ p # NoFd /\ From(p, i) \in Place /\ i \in 1 .. Len(Held(From(p, i)))
          /\ (p = Listen => i <= Len(str) <=> From(p, i) = NoFd)
          /\ Held(p)'[i] = Held(From(p, i))[i]
    <3> SUFFICES ASSUME NEW p \in Place, NEW i \in 1 .. Len(Held(p)')
                 PROVE  /\ p # NoFd /\ From(p, i) \in Place /\ i \in 1 .. Len(Held(From(p, i)))
                        /\ (p = Listen => i <= Len(str) <=> From(p, i) = NoFd)
                        /\ Held(p)'[i] = Held(From(p, i))[i]
      OBVIOUS
    <3>0. p # NoFd
      <4>1. ASSUME p = NoFd PROVE FALSE
        <5>1. Len(Held(p)') = 0 BY <4>1, <2>h
        <5>q. QED BY <5>1
      <4>q. QED BY <4>1
    <3>1. CASE p = Listen
      <4>1. i \in 1 .. Len(msg') /\ Held(p)'[i] = msg'[i] BY <3>1, <2>h
      <4>2. CASE i <= Len(str) BY <3>0, <3>1, <4>1, <4>2, <2>h, <1>m, <1>n, ChatNames
      <4>3. CASE ~ (i <= Len(str)) BY <3>0, <3>1, <4>1, <4>3, <2>h, <1>m, <1>n, ChatNames
      <4>q. QED BY <4>2, <4>3
    <3>2. CASE p # Listen BY <3>0, <3>2, <2>h
    <3>q. QED BY <3>1, <3>2
  <2>2. \A p, q \in Place : \A i \in 1 .. Len(Held(p)') : \A j \in 1 .. Len(Held(q)') :
          From(p, i) = From(q, j) /\ i = j => p = q
    BY <2>1
  <2>3. \A p \in Place : \A i \in 1 .. Len(Held(p)') :
          ~ (From(p, i) = Listen /\ i \in DOMAIN str)
    BY <2>1, <1>n
  <2>4. Gone' = Gone \cup Replaced BY <1>e DEF Gone
  <2>5. \A b \in Replaced : \E i \in 1 .. Len(Held(Listen)) :
          i \in DOMAIN str /\ b = Held(Listen)[i]
    BY <1>n, <2>h
  <2> HIDE DEF From, Replaced
  <2>r. Replaced \subseteq 1 .. sent /\ Replaced \cap Gone = {}
    <3>1. \A i \in 1 .. Len(Held(Listen)) :
            Held(Listen)[i] \in 1 .. sent /\ Held(Listen)[i] \notin Gone
      BY <1>a, <2>h, OnePlace
    <3>q. QED BY <2>5, <3>1
  <2>6. Gone' \subseteq 1 .. sent'
    <3>1. Gone \subseteq 1 .. sent BY <1>a DEF ByteInv
    <3>q. QED BY <1>e, <2>4, <2>r, <3>1
  <2>7. broadcast' \cap overwritten' = {}
    <3>1. Replaced \cap Gone = {} BY <2>r
    <3>2. overwritten' = overwritten \cup Replaced BY <1>e DEF Replaced
    <3>q. QED BY <1>a, <1>e, <3>1, <3>2 DEF ByteInv, Gone
  <2>8. ASSUME NEW p \in Place, NEW i \in 1 .. Len(Held(p)')
        PROVE  Held(p)'[i] \in 1 .. sent' /\ Held(p)'[i] \notin Gone'
    <3>1. /\ From(p, i) \in Place /\ i \in 1 .. Len(Held(From(p, i)))
          /\ Held(p)'[i] = Held(From(p, i))[i]
      BY <2>1
    <3>2. Held(p)'[i] \in 1 .. sent' /\ Held(p)'[i] \notin Gone BY <1>a, <1>e, <3>1 DEF ByteInv
    <3>3. Held(p)'[i] \notin Replaced
      <4>1. ASSUME NEW k \in 1 .. Len(Held(Listen)), k \in DOMAIN str,
                   Held(From(p, i))[i] = Held(Listen)[k]
            PROVE  FALSE
        <5>1. From(p, i) = Listen /\ i = k BY <1>a, <3>1, <4>1, <2>h DEF ByteInv
        <5>q. QED BY <4>1, <5>1, <2>3
      <4>q. QED BY <3>1, <4>1, <2>5
    <3>q. QED BY <3>2, <3>3, <2>4
  <2>9. ASSUME NEW p \in Place, NEW q \in Place, NEW i \in 1 .. Len(Held(p)'),
               NEW j \in 1 .. Len(Held(q)'), Held(p)'[i] = Held(q)'[j]
        PROVE  p = q /\ i = j
    <3>1. From(p, i) = From(q, j) /\ i = j BY <1>a, <2>1, <2>9 DEF ByteInv
    <3>q. QED BY <3>1, <2>2
  <2>10. Len(str') <= StrSize /\ Len(msg') <= StrSize
    <3>1. Len(str') = 0 BY <1>e
    <3>q. QED BY <3>1, <1>n, <1>m, ChatNames
  <2>q. QED BY <2>6, <2>7, <2>8, <2>9, <2>10 DEF ByteInv
<1>q. QED BY <1>1, <1>2, <1>3, <1>4, <1>5 DEF ChatIInv

\* The client leaves the table ...
LEMMA DropKeeps ==
  ASSUME ChatIInv, Drop
  PROVE  ChatIInv'
<1>a. ChatTypeOK /\ WriterInv /\ CurrentInv /\ TableIsExact /\ ByteInv BY DEF ChatIInv
<1>e. /\ chPc["connect"] = "drop"
      /\ msg' = msg /\ mut' = mut /\ batch' = batch /\ currfd' = currfd /\ str' = str
      /\ slot' = slot /\ open' = open /\ inbox' = inbox /\ hungup' = hungup /\ event' = event
      /\ connections' = connections /\ sent' = sent
      /\ overwritten' = overwritten /\ broadcast' = broadcast /\ behind' = behind
  BY DEF Drop, locals, sockets, peers, history
<1>p. /\ DOMAIN chPc' = {"connect", "proc"}
      /\ chPc'["connect"] = "close" /\ chPc'["proc"] = chPc["proc"]
  BY <1>a DEF Drop, ChatGoto, ChatTypeOK
<1>c. /\ clients' \in [Slot -> Fd \cup {NoFd}]
      /\ \A n \in Slot : clients'[n] = IF clients[n] = currfd THEN NoFd ELSE clients[n]
  BY <1>a DEF Drop, ChatTypeOK
<1>n. currfd \in open /\ currfd # NoFd /\ currfd \notin batch
  BY <1>a, <1>e, ChatNames DEF CurrentInv, ChatTypeOK
<1>1. ChatTypeOK' BY <1>a, <1>e, <1>p, <1>c DEF ChatTypeOK
<1>2. WriterInv' BY <1>a, <1>e, <1>p DEF WriterInv
<1>3. CurrentInv' BY <1>a, <1>n, <1>e, <1>p, <1>c DEF CurrentInv
<1>4. TableIsExact'
  <2>1. \A n \in Slot : clients'[n] # NoFd => clients'[n] \in open'
    BY <1>a, <1>e, <1>c DEF TableIsExact
  <2>2. \A m, n \in Slot : clients'[m] = clients'[n] /\ clients'[m] # NoFd => m = n
    BY <1>a, <1>c DEF TableIsExact
  <2>3. \A f \in open' : (\E n \in Slot : clients'[n] = f) \/ f = currfd'
    BY <1>a, <1>e, <1>c DEF TableIsExact
  <2>q. QED BY <1>p, <2>1, <2>2, <2>3 DEF TableIsExact
<1>5. ByteInv' BY <1>a, <1>e, BytesStay
<1>q. QED BY <1>1, <1>2, <1>3, <1>4, <1>5 DEF ChatIInv

\* ... before its descriptor is closed.
LEMMA CloseKeeps ==
  ASSUME ChatIInv, Close
  PROVE  ChatIInv'
<1>a. ChatTypeOK /\ WriterInv /\ CurrentInv /\ TableIsExact /\ ByteInv BY DEF ChatIInv
<1>e. /\ chPc["connect"] = "close" /\ CloseFd(currfd) /\ open' = open \ {currfd}
      /\ hungup' = hungup \ {currfd} /\ event' = event \ {currfd} /\ behind' = behind \ {currfd}
      /\ clients' = clients /\ msg' = msg /\ mut' = mut /\ batch' = batch /\ currfd' = NoFd
      /\ str' = str /\ slot' = slot /\ connections' = connections /\ sent' = sent
      /\ overwritten' = overwritten /\ broadcast' = broadcast
  BY DEF Close, CloseFd, NextEvent, chatTable, peers
<1>p. /\ DOMAIN chPc' = {"connect", "proc"}
      /\ chPc'["connect"] = "epoll" /\ chPc'["proc"] = chPc["proc"]
  BY <1>a DEF Close, NextEvent, ChatGoto, ChatTypeOK
<1>n. currfd \in open /\ currfd \in Fd /\ currfd \notin batch
  BY <1>a, <1>e DEF CurrentInv, ChatTypeOK
<1>5. inbox' \in [Fd -> Seq(Byte)] /\ ByteInv' BY <1>a, <1>n, <1>e, BytesAreLost
<1>1. ChatTypeOK' BY <1>a, <1>e, <1>p, <1>5 DEF ChatTypeOK
<1>2. WriterInv' BY <1>a, <1>e, <1>p DEF WriterInv
<1>3. CurrentInv' BY <1>a, <1>n, <1>e, <1>p DEF CurrentInv
<1>4. TableIsExact' BY <1>a, <1>e, <1>p DEF TableIsExact, CurrentInv
<1>q. QED BY <1>1, <1>2, <1>3, <1>4, <1>5 DEF ChatIInv

\* thread_proc begins a round ...
LEMMA ProcLockKeeps ==
  ASSUME ChatIInv, ProcLock
  PROVE  ChatIInv'
<1>a. ChatTypeOK /\ WriterInv /\ CurrentInv /\ TableIsExact /\ ByteInv BY DEF ChatIInv
<1>e. /\ chPc["proc"] = "lock" /\ mut = NoThread /\ mut' = "proc" /\ slot' = slot
      /\ clients' = clients /\ msg' = msg /\ batch' = batch /\ currfd' = currfd /\ str' = str
      /\ open' = open /\ inbox' = inbox /\ hungup' = hungup /\ event' = event
      /\ connections' = connections /\ sent' = sent
      /\ overwritten' = overwritten /\ broadcast' = broadcast /\ behind' = behind
  BY DEF ProcLock, Lock, locals, sockets, peers, history
<1>p. /\ DOMAIN chPc' = {"connect", "proc"}
      /\ chPc'["connect"] = chPc["connect"] /\ chPc'["proc"] = "write"
  BY <1>a DEF ProcLock, ChatGoto, ChatTypeOK
<1>1. ChatTypeOK' BY <1>a, <1>e, <1>p DEF ChatTypeOK
<1>2. WriterInv' BY <1>e, <1>p DEF WriterInv
<1>3. CurrentInv' BY <1>a, <1>e, <1>p DEF CurrentInv
<1>4. TableIsExact' BY <1>a, <1>e, <1>p DEF TableIsExact
<1>5. ByteInv' BY <1>a, <1>e, BytesStay
<1>q. QED BY <1>1, <1>2, <1>3, <1>4, <1>5 DEF ChatIInv

\* ... writes to a client ...
LEMMA ProcWriteKeeps ==
  ASSUME ChatIInv, ProcWrite
  PROVE  ChatIInv'
<1>a. ChatTypeOK /\ WriterInv /\ CurrentInv /\ TableIsExact /\ ByteInv BY DEF ChatIInv
<1>e. /\ slot <= max_clients /\ slot' = slot + 1 /\ chPc' = chPc
      /\ clients' = clients /\ msg' = msg /\ mut' = mut /\ batch' = batch
      /\ currfd' = currfd /\ str' = str
      /\ open' = open /\ inbox' = inbox /\ hungup' = hungup /\ event' = event
      /\ connections' = connections /\ sent' = sent
      /\ overwritten' = overwritten /\ broadcast' = broadcast /\ behind' = behind
  BY DEF ProcWrite, MoreClients, chatTable, locals, sockets, peers, history
<1>1. ChatTypeOK'
  <2>1. slot' \in 1 .. max_clients + 1 BY <1>a, <1>e, ChatNames DEF ChatTypeOK
  <2>q. QED BY <1>a, <1>e, <2>1 DEF ChatTypeOK
<1>2. WriterInv' BY <1>a, <1>e DEF WriterInv
<1>3. CurrentInv' BY <1>a, <1>e DEF CurrentInv
<1>4. TableIsExact' BY <1>a, <1>e DEF TableIsExact
<1>5. ByteInv' BY <1>a, <1>e, BytesStay
<1>q. QED BY <1>1, <1>2, <1>3, <1>4, <1>5 DEF ChatIInv

\* ... and clears the message.
LEMMA ProcClearKeeps ==
  ASSUME ChatIInv, ProcClear
  PROVE  ChatIInv'
<1>a. ChatTypeOK /\ WriterInv /\ CurrentInv /\ TableIsExact /\ ByteInv BY DEF ChatIInv
<1>e. /\ chPc["proc"] = "write"
      /\ broadcast' = broadcast \cup ToSet(msg) /\ msg' = <<>> /\ mut' = NoThread /\ slot' = 1
      /\ clients' = clients /\ batch' = batch /\ currfd' = currfd /\ str' = str
      /\ open' = open /\ inbox' = inbox /\ hungup' = hungup /\ event' = event
      /\ connections' = connections /\ sent' = sent
      /\ overwritten' = overwritten /\ behind' = behind
  BY DEF ProcClear, Cleared, Unlock, locals, sockets, peers
<1>p. /\ DOMAIN chPc' = {"connect", "proc"}
      /\ chPc'["connect"] = chPc["connect"] /\ chPc'["proc"] = "lock"
  BY <1>a DEF ProcClear, ChatGoto, ChatTypeOK
<1>h. /\ Held(Listen)' = <<>> /\ Held(Listen) = msg /\ Listen \in Place
      /\ \A p \in Place : p # Listen => Held(p)' = Held(p)
      /\ DOMAIN msg = 1 .. Len(msg) /\ msg \in Seq(Byte)
  BY <1>a, <1>e, ChatNames, PlacesHold DEF Held, Place, ChatTypeOK
<1>w. ToSet(msg) = {Held(Listen)[i] : i \in 1 .. Len(Held(Listen))} BY <1>h DEF ToSet
<1>1. ChatTypeOK'
  <2>1. <<>> \in Seq(Byte) /\ slot' \in 1 .. max_clients + 1 BY <1>e, ChatNames
  <2>2. ToSet(msg) \subseteq Byte BY <1>h, <1>w, ElementOfSeq
  <2>q. QED BY <1>a, <1>e, <1>p, <2>1, <2>2 DEF ChatTypeOK
<1>2. WriterInv' BY <1>e, <1>p, ChatNames DEF WriterInv
<1>3. CurrentInv' BY <1>a, <1>e, <1>p DEF CurrentInv
<1>4. TableIsExact' BY <1>a, <1>e, <1>p DEF TableIsExact
<1>5. ByteInv'
  <2>1. Gone' = Gone \cup ToSet(msg) BY <1>e DEF Gone
  <2>2. ToSet(msg) \subseteq 1 .. sent /\ ToSet(msg) \cap Gone = {}
    BY <1>a, <1>h, <1>w, OnePlace
  <2>3. Gone' \subseteq 1 .. sent'
    <3>1. Gone \subseteq 1 .. sent BY <1>a DEF ByteInv
    <3>q. QED BY <1>e, <2>1, <2>2, <3>1
  <2>4. broadcast' \cap overwritten' = {} BY <1>a, <1>e, <2>2 DEF ByteInv, Gone
  <2>5. \A p \in Place : \A i \in 1 .. Len(Held(p)') : p # Listen /\ Held(p)' = Held(p)
    <3> SUFFICES ASSUME NEW p \in Place, NEW i \in 1 .. Len(Held(p)') PROVE p # Listen
      BY <1>h
    <3>1. ASSUME p = Listen PROVE FALSE
      <4>1. Len(Held(p)') = 0 BY <3>1, <1>h
      <4>q. QED BY <4>1
    <3>q. QED BY <3>1
  <2>6. ASSUME NEW p \in Place, NEW i \in 1 .. Len(Held(p)')
        PROVE  Held(p)'[i] \in 1 .. sent' /\ Held(p)'[i] \notin Gone'
    <3>1. p # Listen /\ Held(p)' = Held(p) /\ i \in 1 .. Len(Held(p)) BY <2>5
    <3>2. Held(p)[i] \in 1 .. sent /\ Held(p)[i] \notin Gone BY <1>a, <3>1 DEF ByteInv
    <3>3. \A k \in 1 .. Len(Held(Listen)) : Held(p)[i] # Held(Listen)[k]
      BY <1>a, <1>h, <3>1 DEF ByteInv
    <3>q. QED BY <1>e, <1>w, <2>1, <3>1, <3>2, <3>3
  <2>7. ASSUME NEW p \in Place, NEW q \in Place, NEW i \in 1 .. Len(Held(p)'),
               NEW j \in 1 .. Len(Held(q)'), Held(p)'[i] = Held(q)'[j]
        PROVE  p = q /\ i = j
    <3>1. Held(p)' = Held(p) /\ Held(q)' = Held(q) BY <2>5
    <3>2. i \in 1 .. Len(Held(p)) /\ j \in 1 .. Len(Held(q)) /\ Held(p)[i] = Held(q)[j]
      BY <2>7, <3>1
    <3>q. QED BY <1>a, <3>2 DEF ByteInv
  <2>8. Len(str') <= StrSize /\ Len(msg') <= StrSize
    <3>1. Len(msg') = 0 BY <1>e
    <3>q. QED BY <1>a, <1>e, <3>1, ChatNames DEF ByteInv
  <2>q. QED BY <2>3, <2>4, <2>6, <2>7, <2>8 DEF ByteInv
<1>q. QED BY <1>1, <1>2, <1>3, <1>4, <1>5 DEF ChatIInv

\* A peer connects ...
LEMMA ConnectKeeps ==
  ASSUME ChatIInv, Connect
  PROVE  ChatIInv'
<1>a. ChatTypeOK /\ WriterInv /\ CurrentInv /\ TableIsExact /\ ByteInv BY DEF ChatIInv
<1>e. /\ connections < MaxConnections /\ connections' = connections + 1
      /\ event' = event \cup {Listen} /\ chPc' = chPc
      /\ clients' = clients /\ msg' = msg /\ mut' = mut /\ batch' = batch
      /\ currfd' = currfd /\ str' = str /\ slot' = slot
      /\ open' = open /\ inbox' = inbox /\ hungup' = hungup /\ sent' = sent
      /\ overwritten' = overwritten /\ broadcast' = broadcast /\ behind' = behind
  BY DEF Connect, chatTable, locals, history
<1>1. ChatTypeOK'
  <2>1. connections' \in 0 .. MaxConnections BY <1>a, <1>e, ChatNames DEF ChatTypeOK
  <2>q. QED BY <1>a, <1>e, <2>1 DEF ChatTypeOK
<1>2. WriterInv' BY <1>a, <1>e DEF WriterInv
<1>3. CurrentInv' BY <1>a, <1>e DEF CurrentInv
<1>4. TableIsExact' BY <1>a, <1>e DEF TableIsExact
<1>5. ByteInv' BY <1>a, <1>e, BytesStay
<1>q. QED BY <1>1, <1>2, <1>3, <1>4, <1>5 DEF ChatIInv

\* ... and sends bytes nobody has sent before.
LEMMA PeerSendKeeps ==
  ASSUME ChatIInv, PeerSend
  PROVE  ChatIInv'
<1>a. ChatTypeOK /\ WriterInv /\ CurrentInv /\ TableIsExact /\ ByteInv BY DEF ChatIInv
<1>f. PICK f \in open \ hungup, k \in 1 .. MaxBytes - sent :
        /\ inbox' = [inbox EXCEPT ![f] = @ \o [i \in 1 .. k |-> sent + i]]
        /\ event' = event \cup {f} /\ sent' = sent + k
  BY DEF PeerSend
<1>e. /\ chPc' = chPc /\ clients' = clients /\ msg' = msg /\ mut' = mut /\ batch' = batch
      /\ currfd' = currfd /\ str' = str /\ slot' = slot /\ open' = open /\ hungup' = hungup
      /\ connections' = connections
      /\ overwritten' = overwritten /\ broadcast' = broadcast /\ behind' = behind
  BY DEF PeerSend, chatTable, locals, history
<1>n. /\ f \in Fd /\ f \in open /\ inbox[f] \in Seq(Byte) /\ Len(inbox[f]) \in Nat
      /\ sent \in Nat /\ k \in Nat /\ k >= 1 /\ sent' \in 0 .. MaxBytes /\ Gone' = Gone
  BY <1>a, <1>f, <1>e, ChatNames, LenProperties DEF ChatTypeOK, Gone
<1>i. /\ inbox' \in [Fd -> Seq(Byte)] /\ \A g \in Fd : g # f => inbox'[g] = inbox[g]
      /\ Len(inbox'[f]) = Len(inbox[f]) + k
      /\ \A i \in 1 .. Len(inbox[f]) + k :
           inbox'[f][i] = IF i <= Len(inbox[f]) THEN inbox[f][i] ELSE sent + (i - Len(inbox[f]))
  <2> DEFINE more == [i \in 1 .. k |-> sent + i]
  <2>1. more \in [1 .. k -> Byte] /\ \A i \in 1 .. k : more[i] = sent + i
    BY <1>a, <1>f, <1>n, ChatNames DEF ChatTypeOK
  <2>2. inbox' = [inbox EXCEPT ![f] = inbox[f] \o more] BY <1>f
  <2> HIDE DEF more
  <2>3. more \in Seq(Byte) BY <2>1, <1>n, SeqDef
  <2>4. Len(more) = k
    <3>1. DOMAIN more = 1 .. k /\ DOMAIN more = 1 .. Len(more) /\ Len(more) \in Nat
      BY <2>1, <2>3, LenProperties
    <3>q. QED BY <3>1, <1>n
  <2>5. /\ inbox[f] \o more \in Seq(Byte) /\ Len(inbox[f] \o more) = Len(inbox[f]) + k
        /\ \A i \in 1 .. Len(inbox[f]) + k :
             (inbox[f] \o more)[i] = IF i <= Len(inbox[f]) THEN inbox[f][i]
                                                           ELSE more[i - Len(inbox[f])]
    BY <1>n, <2>3, <2>4, ConcatProperties
  <2>6. /\ inbox' \in [Fd -> Seq(Byte)] /\ inbox'[f] = inbox[f] \o more
        /\ \A g \in Fd : g # f => inbox'[g] = inbox[g]
    BY <1>a, <1>n, <2>2, <2>5 DEF ChatTypeOK
  <2>7. ASSUME NEW i \in 1 .. Len(inbox[f]) + k, ~ (i <= Len(inbox[f]))
        PROVE  (inbox[f] \o more)[i] = sent + (i - Len(inbox[f]))
    <3>1. i - Len(inbox[f]) \in 1 .. k BY <2>7, <1>n
    <3>2. more[i - Len(inbox[f])] = sent + (i - Len(inbox[f])) BY <3>1, <2>1
    <3>q. QED BY <2>5, <2>7, <3>2
  <2>q. QED BY <2>5, <2>6, <2>7
<1>1. ChatTypeOK'
  <2>1. event' \subseteq Fd \cup {Listen} BY <1>a, <1>f, <1>n DEF ChatTypeOK
  <2>q. QED BY <1>a, <1>e, <1>n, <1>i, <2>1 DEF ChatTypeOK
<1>2. WriterInv' BY <1>a, <1>e DEF WriterInv
<1>3. CurrentInv' BY <1>a, <1>f, <1>n, <1>e DEF CurrentInv
<1>4. TableIsExact' BY <1>a, <1>e DEF TableIsExact
<1>5. ByteInv'
  <2> DEFINE New(p, i) == p = f /\ ~ (i <= Len(inbox[f]))
  <2>h. /\ Held(f)' = inbox'[f] /\ Held(f) = inbox[f] /\ f \in Place
        /\ \A p \in Place : p # f => Held(p)' = Held(p)
        /\ \A p \in Place : Len(Held(p)) \in Nat
    BY <1>a, <1>n, <1>e, <1>i, ChatNames, PlacesHold DEF Held, Place
  <2>1. \A b \in 1 .. sent : b \in 1 .. sent' BY <1>f, <1>n
  <2>2. ASSUME NEW p \in Place, NEW i \in 1 .. Len(Held(p)'), ~ New(p, i)
        PROVE  i \in 1 .. Len(Held(p)) /\ Held(p)'[i] = Held(p)[i]
    <3>1. CASE p = f
      <4>1. i \in 1 .. Len(inbox[f]) + k BY <3>1, <2>h, <1>i
      <4>2. i \in 1 .. Len(inbox[f]) BY <2>2, <3>1, <4>1, <1>n
      <4>q. QED BY <2>2, <3>1, <4>1, <4>2, <2>h, <1>i
    <3>2. CASE p # f BY <3>2, <2>h
    <3>q. QED BY <3>1, <3>2
  <2>3. ASSUME NEW p \in Place, NEW i \in 1 .. Len(Held(p)'), New(p, i)
        PROVE  /\ p = f /\ i \in Nat /\ Held(p)'[i] = sent + (i - Len(inbox[f]))
               /\ Held(p)'[i] \in 1 .. sent' /\ Held(p)'[i] \notin 1 .. sent
    <3> DEFINE l == Len(inbox[f])
    <3>1. i \in 1 .. l + k /\ p = f /\ ~ (i <= l) BY <2>3, <2>h, <1>i
    <3>2. Held(p)'[i] = sent + (i - l) BY <3>1, <2>h, <1>i
    <3>3. i \in Nat /\ sent + (i - l) \in 1 .. sent + k /\ sent + (i - l) \notin 1 .. sent
      <4>1. l \in Nat /\ k \in Nat /\ sent \in Nat BY <1>n
      <4> HIDE DEF l
      <4>q. QED BY <3>1, <4>1
    <3>4. sent' = sent + k BY <1>f
    <3> HIDE DEF l
    <3>5. Held(p)'[i] \in 1 .. sent' /\ Held(p)'[i] \notin 1 .. sent BY <3>2, <3>3, <3>4
    <3>q. QED BY <3>1, <3>2, <3>3, <3>5 DEF l
  <2> HIDE DEF New
  <2>4. ASSUME NEW p \in Place, NEW i \in 1 .. Len(Held(p)')
        PROVE  Held(p)'[i] \in 1 .. sent' /\ Held(p)'[i] \notin Gone'
    <3>1. CASE New(p, i) BY <1>a, <1>n, <2>3, <3>1 DEF ByteInv
    <3>2. CASE ~ New(p, i) BY <1>a, <1>n, <2>1, <2>2, <3>2 DEF ByteInv
    <3>q. QED BY <3>1, <3>2
  <2>5. ASSUME NEW p \in Place, NEW q \in Place, NEW i \in 1 .. Len(Held(p)'),
               NEW j \in 1 .. Len(Held(q)'), Held(p)'[i] = Held(q)'[j]
        PROVE  p = q /\ i = j
    <3>1. CASE New(p, i) /\ New(q, j)
      <4>1. /\ p = f /\ q = f /\ i \in Nat /\ j \in Nat
            /\ sent + (i - Len(inbox[f])) = sent + (j - Len(inbox[f]))
        BY <2>3, <2>5, <3>1
      <4>q. QED BY <4>1, <1>n
    <3>2. CASE ~ New(p, i) /\ ~ New(q, j) BY <1>a, <2>2, <2>5, <3>2 DEF ByteInv
    <3>3. ASSUME NEW r \in Place, NEW l \in 1 .. Len(Held(r)'), ~ New(r, l)
          PROVE  Held(r)'[l] \in 1 .. sent
      BY <1>a, <2>2, <3>3 DEF ByteInv
    <3>4. CASE New(p, i) /\ ~ New(q, j) BY <2>3, <2>5, <3>3, <3>4
    <3>5. CASE ~ New(p, i) /\ New(q, j) BY <2>3, <2>5, <3>3, <3>5
    <3>q. QED BY <3>1, <3>2, <3>4, <3>5
  <2>6. Gone' \subseteq 1 .. sent' BY <1>a, <1>n, <2>1 DEF ByteInv
  <2>q. QED BY <1>a, <1>e, <2>4, <2>5, <2>6 DEF ByteInv
<1>q. QED BY <1>1, <1>2, <1>3, <1>4, <1>5 DEF ChatIInv

\* A peer hangs up.
LEMMA HangUpKeeps ==
  ASSUME ChatIInv, HangUp
  PROVE  ChatIInv'
<1>a. ChatTypeOK /\ WriterInv /\ CurrentInv /\ TableIsExact /\ ByteInv BY DEF ChatIInv
<1>f. PICK f \in open \ hungup : hungup' = hungup \cup {f} /\ event' = event \cup {f}
  BY DEF HangUp
<1>e. /\ chPc' = chPc /\ clients' = clients /\ msg' = msg /\ mut' = mut /\ batch' = batch
      /\ currfd' = currfd /\ str' = str /\ slot' = slot /\ open' = open /\ inbox' = inbox
      /\ connections' = connections /\ sent' = sent
      /\ overwritten' = overwritten /\ broadcast' = broadcast /\ behind' = behind
  BY DEF HangUp, chatTable, locals, peers, history
<1>1. ChatTypeOK' BY <1>a, <1>f, <1>e DEF ChatTypeOK
<1>2. WriterInv' BY <1>a, <1>e DEF WriterInv
<1>3. CurrentInv' BY <1>a, <1>f, <1>e DEF CurrentInv
<1>4. TableIsExact' BY <1>a, <1>e DEF TableIsExact
<1>5. ByteInv' BY <1>a, <1>e, BytesStay
<1>q. QED BY <1>1, <1>2, <1>3, <1>4, <1>5 DEF ChatIInv

\* Nothing happens.
LEMMA QuietKeeps == ASSUME ChatIInv, UNCHANGED chatVars PROVE ChatIInv'
<1>a. ChatTypeOK /\ WriterInv /\ CurrentInv /\ TableIsExact /\ ByteInv BY DEF ChatIInv
<1>e. /\ chPc' = chPc /\ clients' = clients /\ msg' = msg /\ mut' = mut /\ batch' = batch
      /\ currfd' = currfd /\ str' = str /\ slot' = slot /\ open' = open /\ inbox' = inbox
      /\ hungup' = hungup /\ event' = event /\ connections' = connections /\ sent' = sent
      /\ overwritten' = overwritten /\ broadcast' = broadcast /\ behind' = behind
  BY DEF chatVars, chatTable, locals, sockets, peers, history
<1>1. ChatTypeOK' BY <1>a, <1>e DEF ChatTypeOK
<1>2. WriterInv' BY <1>a, <1>e DEF WriterInv
<1>3. CurrentInv' BY <1>a, <1>e DEF CurrentInv
<1>4. TableIsExact' BY <1>a, <1>e DEF TableIsExact
<1>5. ByteInv' BY <1>a, <1>e, BytesStay
<1>q. QED BY <1>1, <1>2, <1>3, <1>4, <1>5 DEF ChatIInv

\* The inductive invariant: who holds mut, what thread_connect has in hand, who is in the
\* table, and where each byte is (multhread_server.c:38-141).
THEOREM ChatInvariance == ChatSpec => []ChatIInv
<1>1. ASSUME ChatIInv, [ChatNext]_chatVars PROVE ChatIInv'
  <2>1. CASE thread_connect
    BY <1>1, <2>1, EpollKeeps, AcceptKeeps, SaveKeeps, WatchKeeps, ReadKeeps, StoreKeeps,
       DropKeeps, CloseKeeps
      DEF thread_connect
  <2>2. CASE thread_proc
    BY <1>1, <2>2, ProcLockKeeps, ProcWriteKeeps, ProcClearKeeps DEF thread_proc
  <2>3. CASE Connect BY <1>1, <2>3, ConnectKeeps
  <2>4. CASE PeerSend BY <1>1, <2>4, PeerSendKeeps
  <2>5. CASE HangUp BY <1>1, <2>5, HangUpKeeps
  <2>6. CASE UNCHANGED chatVars BY <1>1, <2>6, QuietKeeps
  <2>7. CASE Quiet BY <2>6, <2>7 DEF Quiet
  <2>q. QED BY <1>1, <2>1, <2>2, <2>3, <2>4, <2>5, <2>6, <2>7 DEF ChatNext
<1>q. QED BY ChatStart, <1>1, PTL DEF ChatSpec

\* The safety of multhread_server.c for any number of descriptors, places in the table,
\* connections and bytes, and any size of str: thread_proc writes to the clients there are
\* and to nobody else, although descriptors are used again and an event may be one that is
\* over; and a byte that is read is written or replaced, not both, although one message
\* serves all and a shorter one covers the beginning of it only
\* (multhread_server.c:63-119, 128-139).
THEOREM ClientsAreKnown == ChatSpec => []ChatInv
<1>1. ASSUME ChatIInv PROVE NoByteTwice
  <2>1. /\ Held(Listen) = msg /\ Listen \in Place /\ DOMAIN msg = 1 .. Len(msg)
    BY <1>1, PlacesHold DEF ChatIInv, Place
  <2>2. ToSet(msg) = {Held(Listen)[i] : i \in 1 .. Len(Held(Listen))} BY <2>1 DEF ToSet
  <2>3. ToSet(msg) \cap Gone = {} BY <1>1, <2>1, <2>2 DEF ChatIInv, ByteInv
  <2>q. QED BY <1>1, <2>3 DEF ChatIInv, ByteInv, NoByteTwice, Gone
<1>2. ChatIInv => ChatInv BY <1>1 DEF ChatIInv, ChatInv
<1>q. QED BY ChatInvariance, <1>2, PTL

\* All clients are written the same message, and the table stays what it is for the
\* round: thread_connect leaves both alone while thread_proc has mut
\* (multhread_server.c:79-90, 106-119, 128-139).
THEOREM OneMessageForAll == ChatSpec => MessageIsSteady
<1>1. ASSUME ChatIInv, [ChatNext]_chatVars, chPc["proc"] = "write", chPc'["proc"] = "write"
      PROVE  msg' = msg /\ clients' = clients
  <2>1. mut = "proc" /\ mut # NoThread BY <1>1, ChatNames DEF ChatIInv, WriterInv
  <2>2. CASE \/ Epoll \/ Accept \/ Watch \/ Read \/ Close \/ ProcWrite
             \/ Connect \/ PeerSend \/ HangUp
    BY <2>2 DEF Epoll, Accept, Watch, Read, Close, ProcWrite, Connect, PeerSend, HangUp, chatTable
  <2>3. ~ Save /\ ~ Store /\ ~ Drop BY <2>1 DEF Save, Store, Drop, NobodyWrites
  <2>4. ~ ProcLock BY <1>1 DEF ProcLock
  <2>5. ~ ProcClear
    <3>1. DOMAIN chPc = {"connect", "proc"} BY <1>1 DEF ChatIInv, ChatTypeOK
    <3>q. QED BY <1>1, <3>1 DEF ProcClear, ChatGoto
  <2>6. CASE UNCHANGED chatVars BY <2>6 DEF chatVars, chatTable
  <2>7. CASE Quiet BY <2>7 DEF Quiet, chatVars, chatTable
  <2>q. QED BY <1>1, <2>2, <2>3, <2>4, <2>5, <2>6, <2>7
            DEF ChatNext, thread_connect, thread_proc
<1>2. ChatIInv /\ [ChatNext]_chatVars =>
        [chPc["proc"] = "write" /\ chPc'["proc"] = "write" =>
           msg' = msg /\ clients' = clients]_chatVars
  BY <1>1
<1>q. QED BY ChatInvariance, <1>2, PTL DEF ChatSpec, MessageIsSteady
-----------------------------------------------------------------------------

(***************************************************************************)
(* cfgSock.c, for any number of threads, buffers and calls: a call gets    *)
(* the answer to its own request, or as much later as receives failed, in  *)
(* a buffer that lasts for as many calls as there are buffers, and the     *)
(* socket is closed once.                                                  *)
(***************************************************************************)

\* Where a call has a buffer, and where it holds s_atomic with it.
Holding == {"send", "recv", "unlock"}
Buffered == Holding \cup {"use"}

\* Whoever is in a request holds the mutex; the program initialises, saves and
\* uninitialises alone.
ConfigLockInv ==
  /\ \A t \in ConfigThread : cfPc[t] \in Holding \cup {"format"} <=> s_atomic = t
  /\ cfPc["program"] # "idle" => \A t \in ConfigCaller : cfPc[t] = "idle"
  /\ \A t \in ConfigCaller : cfPc[t] # "uninit"

\* Calls that are to take a buffer, for the bound on them.
ToFormat == {u \in ConfigThread : cfPc[u] \in {"lock", "format"}}
BudgetInv == calls + Cardinality(ToFormat) <= ConfigMaxCalls

\* A receive that has failed is that of a call of its own.
MissedInv ==
  /\ missed <= calls
  /\ \A t \in ConfigThread : cfPc[t] \in {"send", "recv"} => missed < calls

\* The buffers are taken in turn, each by one call.
BufferInv ==
  /\ s_buf_index = calls % Buffers
  /\ \A t \in ConfigThread : cfPc[t] \in Buffered =>
       call[t] \in 1 .. calls /\ conf_buf[t] = (call[t] - 1) % Buffers
  /\ \A t \in ConfigThread : cfPc[t] \in Holding => call[t] = calls
  /\ \A t, u \in ConfigThread :
       cfPc[t] \in Buffered /\ cfPc[u] \in Buffered /\ call[t] = call[u] => t = u

ConfigIInv ==
  /\ ConfigTypeOK /\ ConfigLockInv /\ BudgetInv /\ MissedInv /\ AnswerIsMine
  /\ SocketIsClosedOnce /\ BufferInv /\ BufferLasts

\* Division by the number of buffers.
LEMMA RemainderIs ==
  ASSUME NEW m \in Nat \ {0}, NEW n \in Nat
  PROVE  n % m \in 0 .. m - 1 /\ n \div m \in Nat /\ n = m * (n \div m) + (n % m)
<1>1. n \div m \in Nat /\ n % m \in 0 .. m - 1 BY SMTT(60)
<1>2. n % m = n - m * (n \div m) BY SMTT(60)
<1>3. m * (n \div m) \in Int BY <1>1
<1>q. QED BY <1>1, <1>2, <1>3

\* A number with that quotient and that remainder.
LEMMA RemainderOf ==
  ASSUME NEW m \in Nat \ {0}, NEW q \in Nat, NEW r \in 0 .. m - 1
  PROVE  (m * q + r) % m = r
  BY SMTT(60)

\* The buffer after that of call n is that of call n + 1.
LEMMA NextRemainder ==
  ASSUME NEW m \in Nat \ {0}, NEW n \in Nat
  PROVE  n % m \in 0 .. m - 1 /\ ((n % m) + 1) % m = (n + 1) % m
<1>1. PICK q \in Nat, r \in 0 .. m - 1 : n = m * q + r /\ r = n % m BY RemainderIs
<1>2. m * q \in Nat BY <1>1
<1>3. CASE r + 1 < m
  <2>1. r + 1 \in 0 .. m - 1 /\ n + 1 = m * q + (r + 1) BY <1>1, <1>2, <1>3
  <2>2. (n + 1) % m = r + 1 BY <2>1, RemainderOf
  <2>3. (r + 1) % m = r + 1
    <3>1. (m * 0 + (r + 1)) % m = r + 1 BY <2>1, RemainderOf
    <3>2. m * 0 + (r + 1) = r + 1 BY <2>1
    <3>q. QED BY <3>1, <3>2
  <2>q. QED BY <1>1, <2>2, <2>3
<1>4. CASE r + 1 = m
  <2>1. n + 1 = m * q + m
    <3>1. PICK x \in Nat : x = m * q BY <1>2
    <3>2. n = x + r /\ r \in Nat
      <4>1. n = m * q + r /\ r \in Nat BY <1>1
      <4>q. QED BY <3>1, <4>1
    <3>3. n + 1 = x + m BY <1>4, <3>1, <3>2
    <3>q. QED BY <3>1, <3>3
  <2>2. m * q + m = m * (q + 1) + 0 BY SMTT(60)
  <2>3. (n + 1) % m = 0
    <3>1. (m * (q + 1) + 0) % m = 0
      <4>1. q + 1 \in Nat /\ 0 \in 0 .. m - 1 OBVIOUS
      <4>q. QED BY <4>1, RemainderOf
    <3>2. n + 1 = m * (q + 1) + 0 BY <2>1, <2>2
    <3>q. QED BY <3>1, <3>2
  <2>4. m % m = 0
    <3>1. (m * 1 + 0) % m = 0 BY RemainderOf
    <3>2. m * 1 + 0 = m OBVIOUS
    <3>q. QED BY <3>1, <3>2
  <2>q. QED BY <1>1, <1>4, <2>3, <2>4
<1>q. QED BY <1>1, <1>3, <1>4

\* A multiple of m that is not 0 is m or more.
LEMMA OneMultiple ==
  ASSUME NEW m \in Nat \ {0}, NEW d \in Nat, d >= 1
  PROVE  m * d >= m /\ m * d \in Nat
  BY SMTT(60)

\* Two calls with the same buffer are m calls apart.
LEMMA SameRemainder ==
  ASSUME NEW m \in Nat \ {0}, NEW a \in Nat, NEW b \in Nat, a < b, a % m = b % m
  PROVE  b - a >= m
<1>1. PICK q \in Nat, r \in 0 .. m - 1 : a = m * q + r /\ r = a % m BY RemainderIs
<1>2. PICK p \in Nat : b = m * p + r BY <1>1, RemainderIs
<1>3. p > q
  <2>1. CASE p <= q
    <3>1. PICK d \in Nat : q = p + d BY <2>1
    <3>2. m * q = m * p + m * d /\ m * d \in Nat /\ m * p \in Nat BY <3>1, SMTT(60)
    <3>q. QED BY <1>1, <1>2, <3>2
  <2>q. QED BY <2>1
<1>4. PICK d \in Nat : d >= 1 /\ p = q + d
  <2>1. p - q \in Nat /\ p - q >= 1 /\ p = q + (p - q) BY <1>3
  <2>q. QED BY <2>1
<1>5. m * p = m * q + m * d /\ m * q \in Nat BY <1>4, SMTT(60)
<1>6. m * d >= m /\ m * d \in Nat BY <1>4, OneMultiple
<1>q. QED BY <1>1, <1>2, <1>5, <1>6

ConfigLabels == {"idle", "lock", "format", "send", "recv", "unlock", "use", "uninit"}

\* Names and numbers.
LEMMA ConfigNames ==
  /\ ConfigThread = ConfigCaller \cup {"program"} /\ "program" \notin ConfigCaller
  /\ NoThread \notin ConfigThread /\ Buffers \in Nat \ {0} /\ ConfigMaxCalls \in Nat
  BY CfgSockAssumption DEF ConfigThread, NoThread

\* Threads that are to take a buffer can be counted.
LEMMA FormattersAreCounted ==
  ASSUME NEW S \in SUBSET ConfigThread
  PROVE  IsFiniteSet(S) /\ Cardinality(S) \in Nat
<1>1. IsFiniteSet(ConfigThread)
  <2>1. IsFiniteSet({"program"}) BY FS_Singleton
  <2>q. QED BY <2>1, CfgSockAssumption, FS_Union DEF ConfigThread
<1>2. IsFiniteSet(S) BY <1>1, FS_Subset
<1>q. QED BY <1>2, FS_CardinalityType

\* The start of cfgSock.c.
LEMMA ConfigStart == ConfigInit => ConfigIInv
<1> SUFFICES ASSUME ConfigInit PROVE ConfigIInv OBVIOUS
<1>n. /\ ConfigThread = ConfigCaller \cup {"program"} /\ "program" \notin ConfigCaller
      /\ NoThread \notin ConfigThread /\ Buffers \in Nat \ {0} /\ ConfigMaxCalls \in Nat
  BY ConfigNames
<1>e. /\ si_init_flag = FALSE /\ s_conf_fd = -1 /\ s_buf_index = 0 /\ s_atomic = NoThread
      /\ s_conf_buf = [b \in 0 .. Buffers - 1 |-> Fresh] /\ answers = <<>> /\ calls = 0
      /\ cfPc = [t \in ConfigThread |-> "idle"] /\ call = [t \in ConfigThread |-> 0]
      /\ conf_buf = [t \in ConfigThread |-> 0]
      /\ closed = [opened |-> 0, closed |-> 0] /\ missed = 0
  BY DEF ConfigInit
<1>p. \A t \in ConfigThread : cfPc[t] = "idle" BY <1>e
<1>1. ConfigTypeOK
  <2>1. Fresh \in Content BY <1>n DEF Fresh, Content
  <2>2. s_conf_buf \in [0 .. Buffers - 1 -> Content] /\ missed \in 0 .. ConfigMaxCalls
    BY <1>n, <1>e, <2>1
  <2>3. closed \in [opened : Nat, closed : Nat] BY <1>e
  <2>4. /\ call \in [ConfigThread -> 0 .. ConfigMaxCalls] /\ s_buf_index \in 0 .. Buffers - 1
        /\ conf_buf \in [ConfigThread -> 0 .. Buffers - 1]
    BY <1>n, <1>e
  <2>5. answers \in Seq(0 .. ConfigMaxCalls) BY <1>e
  <2>6. calls \in 0 .. ConfigMaxCalls BY <1>n, <1>e
  <2>7. si_init_flag \in BOOLEAN /\ s_conf_fd \in {-1, 3} BY <1>e
  <2>8. s_atomic \in ConfigThread \cup {NoThread} /\ cfPc \in [ConfigThread -> {"idle"}] BY <1>e
  <2>q. QED BY <2>2, <2>3, <2>4, <2>5, <2>6, <2>7, <2>8 DEF ConfigTypeOK
<1>2. ConfigLockInv BY <1>n, <1>e, <1>p DEF ConfigLockInv, Holding
<1>3. BudgetInv
  <2>1. ToFormat = {} BY <1>p DEF ToFormat
  <2>2. Cardinality(ToFormat) = 0 BY <2>1, FS_EmptySet
  <2>q. QED BY <1>n, <1>e, <2>2 DEF BudgetInv
<1>4. MissedInv /\ AnswerIsMine
  <2>1. Len(answers) = 0 BY <1>e
  <2>q. QED BY <1>e, <1>p, <2>1 DEF MissedInv, AnswerIsMine
<1>5. SocketIsClosedOnce
  <2>1. closed.closed = 0 /\ closed.opened = 0 BY <1>e
  <2>2. s_conf_fd = -1 /\ ~ si_init_flag BY <1>e
  <2>3. si_init_flag = (s_conf_fd # -1) BY <1>e
  <2>4. closed.closed = closed.opened - (IF si_init_flag THEN 1 ELSE 0)
    <3>1. (IF si_init_flag THEN 1 ELSE 0) = 0 BY <2>2
    <3>2. 0 - 0 = 0 OBVIOUS
    <3>q. QED BY <2>1, <3>1, <3>2
  <2>q. QED BY <2>3, <2>4 DEF SocketIsClosedOnce
<1>6. BufferInv
  <2>1. 0 % Buffers = 0
    <3>1. (Buffers * 0 + 0) % Buffers = 0 BY <1>n, RemainderOf
    <3>q. QED BY <1>n, <3>1
  <2>q. QED BY <1>e, <1>p, <2>1 DEF BufferInv, Buffered, Holding
<1>7. BufferLasts BY <1>n, <1>p DEF BufferLasts
<1>q. QED BY <1>1, <1>2, <1>3, <1>4, <1>5, <1>6, <1>7 DEF ConfigIInv

\* cfgSockInit().
LEMMA InitKeeps ==
  ASSUME ConfigIInv, cfgSockInit
  PROVE  ConfigIInv'
<1>a. /\ ConfigTypeOK /\ ConfigLockInv /\ BudgetInv /\ MissedInv /\ AnswerIsMine
      /\ SocketIsClosedOnce /\ BufferInv /\ BufferLasts
  BY DEF ConfigIInv
<1>n. /\ ConfigThread = ConfigCaller \cup {"program"} /\ "program" \notin ConfigCaller
      /\ NoThread \notin ConfigThread /\ Buffers \in Nat \ {0} /\ ConfigMaxCalls \in Nat
  BY ConfigNames
<1>e. /\ \A u \in ConfigThread : cfPc[u] = "idle"
      /\ ~ si_init_flag
      /\ si_init_flag' = TRUE
      /\ s_conf_fd' = 3
      /\ s_atomic' = NoThread
      /\ answers' = <<>> /\ missed' = 0
      /\ closed' = [closed EXCEPT !.opened = @ + 1]
      /\ s_buf_index' = s_buf_index /\ s_conf_buf' = s_conf_buf /\ calls' = calls
      /\ call' = call /\ conf_buf' = conf_buf
  BY DEF cfgSockInit, Alone
<1>p. cfPc' = cfPc BY DEF cfgSockInit, Alone
<1>c. /\ closed' \in [opened : Nat, closed : Nat] /\ closed'.opened = closed.opened + 1
      /\ closed'.closed = closed.closed /\ closed.opened \in Nat /\ closed.closed \in Nat
  <2>1. closed \in [opened : Nat, closed : Nat] BY <1>a DEF ConfigTypeOK
  <2>q. QED BY <1>e, <2>1
<1>s. Len(answers') = 0 /\ calls \in Nat /\ answers' \in Seq(0 .. ConfigMaxCalls)
  BY <1>a, <1>e DEF ConfigTypeOK
<1>1. ConfigTypeOK'
  <2>1. /\ si_init_flag' \in BOOLEAN /\ s_conf_fd' \in {-1, 3} /\ missed' \in 0 .. ConfigMaxCalls
        /\ s_atomic' \in ConfigThread \cup {NoThread}
    BY <1>n, <1>e
  <2>2. closed' \in [opened : Nat, closed : Nat] /\ answers' \in Seq(0 .. ConfigMaxCalls)
    BY <1>c, <1>s
  <2>3. /\ s_buf_index' = s_buf_index /\ s_conf_buf' = s_conf_buf /\ calls' = calls
        /\ call' = call /\ conf_buf' = conf_buf
    BY <1>e
  <2>q. QED BY <1>a, <1>p, <2>1, <2>2, <2>3 DEF ConfigTypeOK
<1>2. ConfigLockInv' BY <1>a, <1>n, <1>e, <1>p, <1>c DEF ConfigLockInv, Holding
<1>3. BudgetInv'
  <2>1. ToFormat' = ToFormat BY <1>n, <1>e, <1>p DEF ToFormat
  <2>q. QED BY <1>a, <1>e, <2>1 DEF BudgetInv
<1>4. MissedInv' BY <1>e, <1>p, <1>s DEF MissedInv
<1>5. AnswerIsMine' BY <1>e, <1>p, <1>s DEF AnswerIsMine
<1>6. SocketIsClosedOnce'
  <2>1. closed.closed = closed.opened BY <1>a, <1>e, <1>c DEF SocketIsClosedOnce
  <2>2. closed'.closed = closed'.opened - 1 BY <1>c, <2>1
  <2>3. si_init_flag' = (s_conf_fd' # -1)
    <3>1. s_conf_fd' # -1
      <4>1. 3 # -1 OBVIOUS
      <4>q. QED BY <1>e, <4>1
    <3>2. si_init_flag' BY <1>e
    <3>q. QED BY <1>e, <3>1, <3>2
  <2>4. closed'.closed = closed'.opened - (IF si_init_flag' THEN 1 ELSE 0)
    <3>1. (IF si_init_flag' THEN 1 ELSE 0) = 1 BY <1>e
    <3>q. QED BY <2>2, <3>1
  <2>q. QED BY <2>3, <2>4 DEF SocketIsClosedOnce
<1>7. BufferInv' BY <1>a, <1>n, <1>e, <1>p, <1>c DEF BufferInv, Buffered, Holding
<1>8. BufferLasts' BY <1>a, <1>n, <1>e, <1>p, <1>c DEF BufferLasts, Buffered, Holding
<1>q. QED BY <1>1, <1>2, <1>3, <1>4, <1>5, <1>6, <1>7, <1>8 DEF ConfigIInv

\* A call begins with a look at the flag ...
LEMMA BeginKeeps ==
  ASSUME ConfigIInv, NEW t \in ConfigThread, Begin(t)
  PROVE  ConfigIInv'
<1>a. /\ ConfigTypeOK /\ ConfigLockInv /\ BudgetInv /\ MissedInv /\ AnswerIsMine
      /\ SocketIsClosedOnce /\ BufferInv /\ BufferLasts
  BY DEF ConfigIInv
<1>n. /\ ConfigThread = ConfigCaller \cup {"program"} /\ "program" \notin ConfigCaller
      /\ NoThread \notin ConfigThread /\ Buffers \in Nat \ {0} /\ ConfigMaxCalls \in Nat
  BY ConfigNames
<1>e. /\ cfPc[t] = "idle" /\ cfPc["program"] = "idle"
      /\ t = "program" => \A u \in ConfigThread : cfPc[u] = "idle"
      /\ calls + Cardinality(ToFormat) < ConfigMaxCalls
      /\ si_init_flag' = si_init_flag /\ s_conf_fd' = s_conf_fd /\ s_buf_index' = s_buf_index
      /\ s_conf_buf' = s_conf_buf /\ s_atomic' = s_atomic /\ answers' = answers
      /\ calls' = calls /\ call' = call /\ conf_buf' = conf_buf
      /\ closed' = closed /\ missed' = missed
  BY DEF Begin, Alone, ToFormat, library
<1>p. /\ cfPc' \in [ConfigThread -> ConfigLabels]
      /\ \A d \in ConfigThread : cfPc'[d] = IF d = t THEN "lock" ELSE cfPc[d]
  BY <1>a, <1>n DEF Begin, ConfigGoto, ConfigTypeOK, ConfigLabels
<1>1. ConfigTypeOK' BY <1>a, <1>n, <1>e, <1>p DEF ConfigTypeOK, ConfigLabels
<1>2. ConfigLockInv' BY <1>a, <1>n, <1>e, <1>p DEF ConfigLockInv, Holding
<1>3. BudgetInv'
  <2>1. ToFormat' = ToFormat \cup {t} /\ t \notin ToFormat /\ ToFormat \in SUBSET ConfigThread
    BY <1>n, <1>e, <1>p DEF ToFormat
  <2>2. IsFiniteSet(ToFormat) /\ Cardinality(ToFormat) \in Nat BY <2>1, FormattersAreCounted
  <2>3. Cardinality(ToFormat') = Cardinality(ToFormat) + 1 BY <2>1, <2>2, FS_AddElement
  <2>4. calls \in Nat BY <1>a DEF ConfigTypeOK
  <2>q. QED BY <1>n, <1>e, <2>2, <2>3, <2>4 DEF BudgetInv
<1>4. MissedInv' BY <1>a, <1>n, <1>e, <1>p DEF MissedInv
<1>5. AnswerIsMine' BY <1>a, <1>n, <1>e, <1>p DEF AnswerIsMine
<1>6. SocketIsClosedOnce' BY <1>a, <1>n, <1>e, <1>p DEF SocketIsClosedOnce, ConfigTypeOK
<1>7. BufferInv' BY <1>a, <1>n, <1>e, <1>p DEF BufferInv, Buffered, Holding
<1>8. BufferLasts' BY <1>a, <1>n, <1>e, <1>p DEF BufferLasts, Buffered, Holding
<1>q. QED BY <1>1, <1>2, <1>3, <1>4, <1>5, <1>6, <1>7, <1>8 DEF ConfigIInv

\* ... takes the mutex ...
LEMMA EnterKeeps ==
  ASSUME ConfigIInv, NEW t \in ConfigThread, Enter(t)
  PROVE  ConfigIInv'
<1>a. /\ ConfigTypeOK /\ ConfigLockInv /\ BudgetInv /\ MissedInv /\ AnswerIsMine
      /\ SocketIsClosedOnce /\ BufferInv /\ BufferLasts
  BY DEF ConfigIInv
<1>n. /\ ConfigThread = ConfigCaller \cup {"program"} /\ "program" \notin ConfigCaller
      /\ NoThread \notin ConfigThread /\ Buffers \in Nat \ {0} /\ ConfigMaxCalls \in Nat
  BY ConfigNames
<1>e. /\ cfPc[t] = "lock"
      /\ s_atomic = NoThread
      /\ s_atomic' = t
      /\ si_init_flag' = si_init_flag /\ s_conf_fd' = s_conf_fd /\ s_buf_index' = s_buf_index
      /\ s_conf_buf' = s_conf_buf /\ answers' = answers /\ calls' = calls /\ call' = call
      /\ conf_buf' = conf_buf /\ closed' = closed /\ missed' = missed
  BY DEF Enter, Lock
<1>p. /\ cfPc' \in [ConfigThread -> ConfigLabels]
      /\ \A d \in ConfigThread : cfPc'[d] = IF d = t THEN "format" ELSE cfPc[d]
  BY <1>a, <1>n DEF Enter, ConfigGoto, ConfigTypeOK, ConfigLabels
<1>1. ConfigTypeOK' BY <1>a, <1>n, <1>e, <1>p DEF ConfigTypeOK, ConfigLabels
<1>2. ConfigLockInv' BY <1>a, <1>n, <1>e, <1>p DEF ConfigLockInv, Holding
<1>3. BudgetInv'
  <2>1. ToFormat' = ToFormat BY <1>n, <1>e, <1>p DEF ToFormat
  <2>q. QED BY <1>a, <1>e, <2>1 DEF BudgetInv
<1>4. MissedInv' BY <1>a, <1>n, <1>e, <1>p DEF MissedInv
<1>5. AnswerIsMine' BY <1>a, <1>n, <1>e, <1>p DEF AnswerIsMine
<1>6. SocketIsClosedOnce' BY <1>a, <1>n, <1>e, <1>p DEF SocketIsClosedOnce, ConfigTypeOK
<1>7. BufferInv' BY <1>a, <1>n, <1>e, <1>p DEF BufferInv, Buffered, Holding
<1>8. BufferLasts' BY <1>a, <1>n, <1>e, <1>p DEF BufferLasts, Buffered, Holding
<1>q. QED BY <1>1, <1>2, <1>3, <1>4, <1>5, <1>6, <1>7, <1>8 DEF ConfigIInv

\* ... and a buffer.
LEMMA FormatKeeps ==
  ASSUME ConfigIInv, NEW t \in ConfigThread, Format(t)
  PROVE  ConfigIInv'
<1>a. /\ ConfigTypeOK /\ ConfigLockInv /\ BudgetInv /\ MissedInv /\ AnswerIsMine
      /\ SocketIsClosedOnce /\ BufferInv /\ BufferLasts
  BY DEF ConfigIInv
<1>n. /\ ConfigThread = ConfigCaller \cup {"program"} /\ "program" \notin ConfigCaller
      /\ NoThread \notin ConfigThread /\ Buffers \in Nat \ {0} /\ ConfigMaxCalls \in Nat
  BY ConfigNames
<1>e. /\ cfPc[t] = "format"
      /\ calls' = calls + 1
      /\ call' = [call EXCEPT ![t] = calls + 1]
      /\ conf_buf' = [conf_buf EXCEPT ![t] = s_buf_index]
      /\ s_buf_index' = (s_buf_index + 1) % Buffers
      /\ s_conf_buf' = [s_conf_buf EXCEPT ![s_buf_index] = Command(t, @)]
      /\ si_init_flag' = si_init_flag /\ s_conf_fd' = s_conf_fd /\ s_atomic' = s_atomic
      /\ answers' = answers /\ closed' = closed /\ missed' = missed
  BY DEF Format, NextIndex
<1>p. /\ cfPc' \in [ConfigThread -> ConfigLabels]
      /\ \A d \in ConfigThread : cfPc'[d] = IF d = t THEN "send" ELSE cfPc[d]
  BY <1>a, <1>n DEF Format, ConfigGoto, ConfigTypeOK, ConfigLabels
<1>t. /\ calls \in Nat /\ calls + 1 \in 0 .. ConfigMaxCalls /\ s_buf_index \in 0 .. Buffers - 1
      /\ calls + Cardinality(ToFormat') + 1 <= ConfigMaxCalls /\ Cardinality(ToFormat') \in Nat
  <2>1. ToFormat' = ToFormat \ {t} /\ t \in ToFormat /\ ToFormat \in SUBSET ConfigThread
    BY <1>n, <1>e, <1>p DEF ToFormat
  <2>2. IsFiniteSet(ToFormat) /\ Cardinality(ToFormat) \in Nat BY <2>1, FormattersAreCounted
  <2>3. Cardinality(ToFormat') = Cardinality(ToFormat) - 1 BY <2>1, <2>2, FS_RemoveElement
  <2>4. IsFiniteSet(ToFormat') /\ Cardinality(ToFormat') \in Nat BY <2>1, FormattersAreCounted
  <2>5. calls \in Nat /\ s_buf_index \in 0 .. Buffers - 1 BY <1>a DEF ConfigTypeOK
  <2>q. QED BY <1>a, <1>n, <2>2, <2>3, <2>4, <2>5 DEF BudgetInv
<1>b. /\ s_buf_index = calls % Buffers /\ s_buf_index' = (calls + 1) % Buffers
      /\ s_buf_index' \in 0 .. Buffers - 1
  <2>1. s_buf_index = calls % Buffers BY <1>a DEF BufferInv
  <2>2. s_buf_index' = (calls + 1) % Buffers BY <1>n, <1>t, <1>e, <2>1, NextRemainder
  <2>3. calls + 1 \in Nat BY <1>t
  <2>4. (calls + 1) % Buffers \in 0 .. Buffers - 1 BY <1>n, <2>3, NextRemainder
  <2>q. QED BY <2>1, <2>2, <2>4
<1>o. /\ s_atomic = t /\ \A u \in ConfigThread : u # t => cfPc[u] \notin Holding
      /\ t = "program" => \A u \in ConfigCaller : cfPc[u] = "idle"
  BY <1>a, <1>n, <1>e DEF ConfigLockInv, Holding
<1>f. /\ s_conf_buf' \in [0 .. Buffers - 1 -> Content]
      /\ \A b \in 0 .. Buffers - 1 : b # s_buf_index => s_conf_buf'[b] = s_conf_buf[b]
      /\ t # "program" => s_conf_buf'[s_buf_index].by = calls + 1
  <2>1. s_conf_buf \in [0 .. Buffers - 1 -> Content] BY <1>a DEF ConfigTypeOK
  <2>2. Command(t, s_conf_buf[s_buf_index]) \in Content BY <1>t, <2>1 DEF Command, Content
  <2>3. t # "program" => Command(t, s_conf_buf[s_buf_index]).by = calls + 1 BY DEF Command
  <2>q. QED BY <1>e, <1>t, <2>1, <2>2, <2>3
<1>c. /\ call' \in [ConfigThread -> 0 .. ConfigMaxCalls] /\ call'[t] = calls + 1
      /\ conf_buf' \in [ConfigThread -> 0 .. Buffers - 1] /\ conf_buf'[t] = s_buf_index
      /\ \A u \in ConfigThread : u # t => call'[u] = call[u] /\ conf_buf'[u] = conf_buf[u]
  BY <1>a, <1>e, <1>t DEF ConfigTypeOK
<1>1. ConfigTypeOK'
  <2>1. calls' \in 0 .. ConfigMaxCalls BY <1>e, <1>t
  <2>2. /\ si_init_flag' = si_init_flag /\ s_conf_fd' = s_conf_fd /\ s_atomic' = s_atomic
        /\ answers' = answers /\ closed' = closed /\ missed' = missed
    BY <1>e
  <2>q. QED BY <1>a, <1>p, <1>b, <1>f, <1>c, <2>1, <2>2 DEF ConfigTypeOK, ConfigLabels
<1>2. ConfigLockInv'
  <2>1. s_atomic' = s_atomic /\ cfPc[t] = "format" BY <1>e
  <2>q. QED BY <1>a, <1>n, <1>p, <1>o, <2>1 DEF ConfigLockInv, Holding
<1>3. BudgetInv' BY <1>n, <1>e, <1>t DEF BudgetInv
<1>4. MissedInv'
  <2>1. missed \in Nat /\ missed <= calls BY <1>a DEF MissedInv, ConfigTypeOK
  <2>2. missed' <= calls' /\ missed' < calls' BY <1>e, <1>t, <2>1
  <2>q. QED BY <2>2 DEF MissedInv
<1>5. AnswerIsMine' BY <1>a, <1>e, <1>p, <1>o, <1>c DEF AnswerIsMine, Holding
<1>6. SocketIsClosedOnce' BY <1>a, <1>n, <1>e, <1>p, <1>t, <1>b, <1>o, <1>f, <1>c
                          DEF SocketIsClosedOnce, ConfigTypeOK
<1>7. BufferInv'
  <2>1. \A u \in ConfigThread : u # t /\ cfPc'[u] \in Buffered =>
          /\ cfPc[u] \in Buffered /\ call[u] \in 1 .. calls
          /\ conf_buf[u] = (call[u] - 1) % Buffers
    BY <1>a, <1>p DEF BufferInv
  <2>2. \A u \in ConfigThread : cfPc'[u] \in Buffered =>
          call'[u] \in 1 .. calls' /\ conf_buf'[u] = (call'[u] - 1) % Buffers
    BY <1>e, <1>t, <1>b, <1>c, <2>1
  <2>3. \A u \in ConfigThread : cfPc'[u] \in Holding => call'[u] = calls'
    BY <1>e, <1>p, <1>o, <1>c
  <2>4. \A u, v \in ConfigThread :
          cfPc'[u] \in Buffered /\ cfPc'[v] \in Buffered /\ call'[u] = call'[v] => u = v
    <3>1. \A u \in ConfigThread : u # t /\ cfPc'[u] \in Buffered => call'[u] # calls + 1
      BY <1>t, <1>c, <2>1
    <3>q. QED BY <1>a, <1>c, <2>1, <3>1 DEF BufferInv
  <2>q. QED BY <1>e, <1>b, <2>2, <2>3, <2>4 DEF BufferInv
<1>8. BufferLasts'
  <2> SUFFICES ASSUME NEW u \in ConfigCaller, cfPc'[u] \in Buffered, calls' - call'[u] < Buffers
               PROVE  s_conf_buf'[conf_buf'[u]].by = call'[u]
    BY DEF BufferLasts, Buffered, Holding
  <2>1. t # "program" /\ u \in ConfigThread
    <3>1. t = "program" => cfPc'[u] = "idle" BY <1>n, <1>p, <1>o
    <3>q. QED BY <1>n, <3>1 DEF Buffered, Holding
  <2>2. CASE u = t BY <1>e, <1>f, <1>c, <2>1, <2>2
  <2>3. CASE u # t
    <3>1. /\ cfPc[u] \in Buffered /\ call[u] \in 1 .. calls
          /\ conf_buf[u] = (call[u] - 1) % Buffers
      BY <1>a, <1>p, <2>1, <2>3 DEF BufferInv
    <3>2. call[u] - 1 \in Nat /\ call[u] - 1 < calls /\ calls - (call[u] - 1) < Buffers
      BY <1>n, <1>t, <1>e, <1>c, <2>1, <2>3, <3>1
    <3>3. conf_buf[u] # s_buf_index
      <4>1. ASSUME (call[u] - 1) % Buffers = calls % Buffers PROVE FALSE
        <5>1. calls - (call[u] - 1) >= Buffers BY <1>n, <1>t, <3>2, <4>1, SameRemainder
        <5>q. QED BY <1>n, <1>t, <3>2, <5>1
      <4>q. QED BY <1>b, <3>1, <4>1
    <3>4. conf_buf[u] \in 0 .. Buffers - 1 BY <1>a, <2>1 DEF ConfigTypeOK
    <3>5. s_conf_buf'[conf_buf'[u]] = s_conf_buf[conf_buf[u]]
      BY <1>f, <1>c, <2>1, <2>3, <3>3, <3>4
    <3>6. calls - call[u] < Buffers BY <1>n, <1>t, <3>1, <3>2
    <3>7. s_conf_buf[conf_buf[u]].by = call[u]
      BY <1>a, <3>1, <3>6 DEF BufferLasts, Buffered, Holding
    <3>q. QED BY <1>c, <2>1, <2>3, <3>5, <3>7
  <2>q. QED BY <2>2, <2>3
<1>q. QED BY <1>1, <1>2, <1>3, <1>4, <1>5, <1>6, <1>7, <1>8 DEF ConfigIInv

\* The command is sent and answered, ...
LEMMA ConfigSendKeeps ==
  ASSUME ConfigIInv, NEW t \in ConfigThread, ConfigSend(t)
  PROVE  ConfigIInv'
<1>a. /\ ConfigTypeOK /\ ConfigLockInv /\ BudgetInv /\ MissedInv /\ AnswerIsMine
      /\ SocketIsClosedOnce /\ BufferInv /\ BufferLasts
  BY DEF ConfigIInv
<1>n. /\ ConfigThread = ConfigCaller \cup {"program"} /\ "program" \notin ConfigCaller
      /\ NoThread \notin ConfigThread /\ Buffers \in Nat \ {0} /\ ConfigMaxCalls \in Nat
  BY ConfigNames
<1>e. /\ cfPc[t] = "send"
      /\ answers' = Append(answers, call[t])
      /\ si_init_flag' = si_init_flag /\ s_conf_fd' = s_conf_fd /\ s_buf_index' = s_buf_index
      /\ s_conf_buf' = s_conf_buf /\ s_atomic' = s_atomic /\ calls' = calls /\ call' = call
      /\ conf_buf' = conf_buf /\ closed' = closed /\ missed' = missed
  BY DEF ConfigSend, library
<1>p. /\ cfPc' \in [ConfigThread -> ConfigLabels]
      /\ \A d \in ConfigThread : cfPc'[d] = IF d = t THEN "recv" ELSE cfPc[d]
  BY <1>a, <1>n DEF ConfigSend, ConfigGoto, ConfigTypeOK, ConfigLabels
<1>o. s_atomic = t /\ \A u \in ConfigThread : u # t => cfPc[u] \notin Holding \cup {"format"}
  BY <1>a, <1>n, <1>e DEF ConfigLockInv, Holding
<1>s. /\ answers' \in Seq(0 .. ConfigMaxCalls)
      /\ Len(answers') = missed + 1 /\ answers'[missed + 1] = call[t]
  <2>1. \A u \in ConfigThread : cfPc[u] # "recv" BY <1>e, <1>o DEF Holding
  <2>2. Len(answers) = missed BY <1>a, <2>1 DEF AnswerIsMine
  <2>3. answers \in Seq(0 .. ConfigMaxCalls) /\ call[t] \in 0 .. ConfigMaxCalls
    BY <1>a DEF ConfigTypeOK
  <2>q. QED BY <1>e, <2>2, <2>3
<1>1. ConfigTypeOK' BY <1>a, <1>n, <1>e, <1>p, <1>o, <1>s DEF ConfigTypeOK, ConfigLabels
<1>2. ConfigLockInv' BY <1>a, <1>n, <1>e, <1>p, <1>o DEF ConfigLockInv, Holding
<1>3. BudgetInv'
  <2>1. ToFormat' = ToFormat BY <1>n, <1>e, <1>p DEF ToFormat
  <2>q. QED BY <1>a, <1>e, <2>1 DEF BudgetInv
<1>4. MissedInv' BY <1>a, <1>e, <1>p DEF MissedInv
<1>5. AnswerIsMine'
  <2>1. \A u \in ConfigThread : cfPc'[u] = "recv" <=> u = t BY <1>p, <1>o DEF Holding
  <2>2. Len(answers') = missed' + 1 /\ answers'[missed' + 1] = call'[t] BY <1>e, <1>s
  <2>q. QED BY <2>1, <2>2 DEF AnswerIsMine
<1>6. SocketIsClosedOnce' BY <1>a, <1>e DEF SocketIsClosedOnce
<1>7. BufferInv' BY <1>a, <1>e, <1>p DEF BufferInv, Buffered, Holding
<1>8. BufferLasts' BY <1>a, <1>n, <1>e, <1>p DEF BufferLasts, Buffered, Holding
<1>q. QED BY <1>1, <1>2, <1>3, <1>4, <1>5, <1>6, <1>7, <1>8 DEF ConfigIInv

\* ... or not, and the socket is closed, ...
LEMMA ConfigSendFailsKeeps ==
  ASSUME ConfigIInv, NEW t \in ConfigThread, ConfigSendFails(t)
  PROVE  ConfigIInv'
<1>a. /\ ConfigTypeOK /\ ConfigLockInv /\ BudgetInv /\ MissedInv /\ AnswerIsMine
      /\ SocketIsClosedOnce /\ BufferInv /\ BufferLasts
  BY DEF ConfigIInv
<1>n. /\ ConfigThread = ConfigCaller \cup {"program"} /\ "program" \notin ConfigCaller
      /\ NoThread \notin ConfigThread /\ Buffers \in Nat \ {0} /\ ConfigMaxCalls \in Nat
  BY ConfigNames
<1>e. /\ cfPc[t] = "send" /\ si_init_flag
      /\ s_conf_fd' = -1
      /\ si_init_flag' = FALSE
      /\ closed' = [closed EXCEPT !.closed = @ + 1]
      /\ answers' = <<>> /\ missed' = 0
      /\ s_buf_index' = s_buf_index /\ s_conf_buf' = s_conf_buf /\ s_atomic' = s_atomic
      /\ calls' = calls /\ call' = call /\ conf_buf' = conf_buf
  BY DEF ConfigSendFails
<1>p. /\ cfPc' \in [ConfigThread -> ConfigLabels]
      /\ \A d \in ConfigThread : cfPc'[d] = IF d = t THEN "unlock" ELSE cfPc[d]
  BY <1>a, <1>n DEF ConfigSendFails, ConfigGoto, ConfigTypeOK, ConfigLabels
<1>o. s_atomic = t /\ \A u \in ConfigThread : u # t => cfPc[u] \notin Holding \cup {"format"}
  BY <1>a, <1>n, <1>e DEF ConfigLockInv, Holding
<1>c. /\ closed' \in [opened : Nat, closed : Nat] /\ closed'.opened = closed.opened
      /\ closed'.closed = closed.closed + 1 /\ closed.opened \in Nat /\ closed.closed \in Nat
  <2>1. closed \in [opened : Nat, closed : Nat] BY <1>a DEF ConfigTypeOK
  <2>q. QED BY <1>e, <2>1
<1>1. ConfigTypeOK'
  <2>1. answers' \in Seq(0 .. ConfigMaxCalls) /\ missed' \in 0 .. ConfigMaxCalls BY <1>n, <1>e
  <2>q. QED BY <1>a, <1>n, <1>e, <1>p, <1>c, <2>1 DEF ConfigTypeOK, ConfigLabels
<1>2. ConfigLockInv' BY <1>a, <1>n, <1>e, <1>p, <1>o, <1>c DEF ConfigLockInv, Holding
<1>3. BudgetInv'
  <2>1. ToFormat' = ToFormat BY <1>n, <1>e, <1>p DEF ToFormat
  <2>q. QED BY <1>a, <1>e, <2>1 DEF BudgetInv
<1>4. MissedInv'
  <2>1. calls \in Nat BY <1>a DEF ConfigTypeOK
  <2>q. QED BY <1>e, <1>p, <1>o, <2>1 DEF MissedInv, Holding
<1>5. AnswerIsMine'
  <2>1. Len(answers') = 0 BY <1>e
  <2>q. QED BY <1>e, <1>p, <1>o, <2>1 DEF AnswerIsMine, Holding
<1>6. SocketIsClosedOnce'
  <2>1. closed.closed = closed.opened - 1 BY <1>a, <1>e DEF SocketIsClosedOnce
  <2>2. closed'.closed = closed'.opened BY <1>c, <2>1
  <2>3. si_init_flag' = (s_conf_fd' # -1) BY <1>e
  <2>q. QED BY <1>e, <1>c, <2>2, <2>3 DEF SocketIsClosedOnce
<1>7. BufferInv' BY <1>a, <1>e, <1>p DEF BufferInv, Buffered, Holding
<1>8. BufferLasts' BY <1>a, <1>n, <1>e, <1>p, <1>o, <1>c DEF BufferLasts, Buffered, Holding
<1>q. QED BY <1>1, <1>2, <1>3, <1>4, <1>5, <1>6, <1>7, <1>8 DEF ConfigIInv

\* ... or has been closed.
LEMMA SendNotKeeps ==
  ASSUME ConfigIInv, NEW t \in ConfigThread, SendNot(t)
  PROVE  ConfigIInv'
<1>a. /\ ConfigTypeOK /\ ConfigLockInv /\ BudgetInv /\ MissedInv /\ AnswerIsMine
      /\ SocketIsClosedOnce /\ BufferInv /\ BufferLasts
  BY DEF ConfigIInv
<1>n. /\ ConfigThread = ConfigCaller \cup {"program"} /\ "program" \notin ConfigCaller
      /\ NoThread \notin ConfigThread /\ Buffers \in Nat \ {0} /\ ConfigMaxCalls \in Nat
  BY ConfigNames
<1>e. /\ cfPc[t] = "send"
      /\ si_init_flag' = si_init_flag /\ s_conf_fd' = s_conf_fd /\ s_buf_index' = s_buf_index
      /\ s_conf_buf' = s_conf_buf /\ s_atomic' = s_atomic /\ answers' = answers
      /\ calls' = calls /\ call' = call /\ conf_buf' = conf_buf
      /\ closed' = closed /\ missed' = missed
  BY DEF SendNot, library
<1>p. /\ cfPc' \in [ConfigThread -> ConfigLabels]
      /\ \A d \in ConfigThread : cfPc'[d] = IF d = t THEN "unlock" ELSE cfPc[d]
  BY <1>a, <1>n DEF SendNot, ConfigGoto, ConfigTypeOK, ConfigLabels
<1>o. s_atomic = t /\ \A u \in ConfigThread : u # t => cfPc[u] \notin Holding \cup {"format"}
  BY <1>a, <1>n, <1>e DEF ConfigLockInv, Holding
<1>1. ConfigTypeOK' BY <1>a, <1>n, <1>e, <1>p, <1>o DEF ConfigTypeOK, ConfigLabels
<1>2. ConfigLockInv' BY <1>a, <1>n, <1>e, <1>p, <1>o DEF ConfigLockInv, Holding
<1>3. BudgetInv'
  <2>1. ToFormat' = ToFormat BY <1>n, <1>e, <1>p DEF ToFormat
  <2>q. QED BY <1>a, <1>e, <2>1 DEF BudgetInv
<1>4. MissedInv' BY <1>a, <1>e, <1>p, <1>o DEF MissedInv, Holding
<1>5. AnswerIsMine' BY <1>a, <1>n, <1>e, <1>p, <1>o DEF AnswerIsMine
<1>6. SocketIsClosedOnce' BY <1>a, <1>n, <1>e, <1>p, <1>o DEF SocketIsClosedOnce, ConfigTypeOK
<1>7. BufferInv' BY <1>a, <1>n, <1>e, <1>p, <1>o DEF BufferInv, Buffered, Holding
<1>8. BufferLasts' BY <1>a, <1>n, <1>e, <1>p, <1>o DEF BufferLasts, Buffered, Holding
<1>q. QED BY <1>1, <1>2, <1>3, <1>4, <1>5, <1>6, <1>7, <1>8 DEF ConfigIInv

\* What a caller leaves in its buffer is in the buffer of no other call.
LEMMA PutLasts ==
  ASSUME ConfigIInv, NEW t \in ConfigThread, cfPc[t] = "recv", ConfigGoto(t, "unlock"),
         NEW what \in {"answer", "nothing"}, NEW c \in 0 .. ConfigMaxCalls, Put(t, what, c),
         calls' = calls, call' = call, conf_buf' = conf_buf
  PROVE  s_conf_buf' \in [0 .. Buffers - 1 -> Content] /\ BufferLasts'
<1>a. ConfigTypeOK /\ ConfigLockInv /\ BufferInv /\ BufferLasts BY DEF ConfigIInv
<1>n. ConfigThread = ConfigCaller \cup {"program"} /\ Buffers \in Nat \ {0} BY ConfigNames
<1>e. /\ cfPc[t] = "recv" /\ calls' = calls /\ call' = call /\ conf_buf' = conf_buf
      /\ s_conf_buf' = [s_conf_buf EXCEPT ![conf_buf[t]] =
                          [what |-> what, call |-> c, by |-> call[t]]]
  BY DEF Put
<1>p. \A d \in ConfigThread : cfPc'[d] = IF d = t THEN "unlock" ELSE cfPc[d]
  BY <1>a DEF ConfigGoto, ConfigTypeOK
<1>f. /\ s_conf_buf' \in [0 .. Buffers - 1 -> Content]
      /\ conf_buf[t] \in 0 .. Buffers - 1 /\ s_conf_buf'[conf_buf[t]].by = call[t]
      /\ \A b \in 0 .. Buffers - 1 : b # conf_buf[t] => s_conf_buf'[b] = s_conf_buf[b]
  <2>1. s_conf_buf \in [0 .. Buffers - 1 -> Content] /\ conf_buf[t] \in 0 .. Buffers - 1
    BY <1>a DEF ConfigTypeOK
  <2>2. [what |-> what, call |-> c, by |-> call[t]] \in Content
    BY <1>a DEF ConfigTypeOK, Content
  <2>q. QED BY <1>e, <2>1, <2>2
<1>8. BufferLasts'
  <2> SUFFICES ASSUME NEW u \in ConfigCaller, cfPc'[u] \in Buffered, calls' - call'[u] < Buffers
               PROVE  s_conf_buf'[conf_buf'[u]].by = call'[u]
    BY DEF BufferLasts, Buffered, Holding
  <2>1. /\ u \in ConfigThread /\ cfPc[u] \in Buffered /\ call[u] \in 1 .. calls /\ calls \in Nat
        /\ conf_buf[u] = (call[u] - 1) % Buffers /\ conf_buf[u] \in 0 .. Buffers - 1
        /\ calls - call[u] < Buffers
    <3>1. u \in ConfigThread /\ cfPc[u] \in Buffered
      BY <1>n, <1>e, <1>p DEF Buffered, Holding
    <3>2. call[u] \in 1 .. calls /\ conf_buf[u] = (call[u] - 1) % Buffers
      BY <1>a, <3>1 DEF BufferInv
    <3>3. calls \in Nat /\ conf_buf[u] \in 0 .. Buffers - 1 BY <1>a, <3>1 DEF ConfigTypeOK
    <3>q. QED BY <1>e, <3>1, <3>2, <3>3
  <2>2. /\ cfPc[t] \in Buffered /\ call[t] = calls /\ calls \in 1 .. calls
        /\ conf_buf[t] = (calls - 1) % Buffers
    BY <1>a, <1>e DEF BufferInv, Buffered, Holding
  <2>3. CASE u = t BY <1>e, <1>f, <2>3
  <2>4. CASE u # t
    <3>1. call[u] # calls BY <1>a, <2>1, <2>2, <2>4 DEF BufferInv
    <3>2. /\ call[u] - 1 \in Nat /\ calls - 1 \in Nat /\ call[u] - 1 < calls - 1
          /\ (calls - 1) - (call[u] - 1) < Buffers
      <4>1. ASSUME NEW k \in 1 .. calls, k # calls, calls - k < Buffers
            PROVE  /\ k - 1 \in Nat /\ calls - 1 \in Nat /\ k - 1 < calls - 1
                   /\ (calls - 1) - (k - 1) < Buffers
        BY <1>n, <2>1, <4>1
      <4>q. QED BY <2>1, <3>1, <4>1
    <3>3. conf_buf[u] # conf_buf[t]
      <4>1. ASSUME (call[u] - 1) % Buffers = (calls - 1) % Buffers PROVE FALSE
        <5>1. (calls - 1) - (call[u] - 1) >= Buffers BY <1>n, <3>2, <4>1, SameRemainder
        <5>q. QED BY <1>n, <2>1, <3>2, <5>1
      <4>q. QED BY <2>1, <2>2, <4>1
    <3>4. s_conf_buf[conf_buf[u]].by = call[u]
      BY <1>a, <2>1 DEF BufferLasts, Buffered, Holding
    <3>q. QED BY <1>e, <1>f, <2>1, <3>3, <3>4
  <2>q. QED BY <2>3, <2>4
<1>q. QED BY <1>f, <1>8

\* The answer is received into the buffer.
LEMMA ConfigRecvKeeps ==
  ASSUME ConfigIInv, NEW t \in ConfigThread, ConfigRecv(t)
  PROVE  ConfigIInv'
<1>a. /\ ConfigTypeOK /\ ConfigLockInv /\ BudgetInv /\ MissedInv /\ AnswerIsMine
      /\ SocketIsClosedOnce /\ BufferInv /\ BufferLasts
  BY DEF ConfigIInv
<1>n. /\ ConfigThread = ConfigCaller \cup {"program"} /\ "program" \notin ConfigCaller
      /\ NoThread \notin ConfigThread /\ Buffers \in Nat \ {0} /\ ConfigMaxCalls \in Nat
  BY ConfigNames
<1>e. /\ cfPc[t] = "recv"
      /\ answers' = Tail(answers)
      /\ si_init_flag' = si_init_flag /\ s_conf_fd' = s_conf_fd /\ s_buf_index' = s_buf_index
      /\ s_atomic' = s_atomic /\ calls' = calls /\ call' = call /\ conf_buf' = conf_buf
      /\ closed' = closed /\ missed' = missed
  BY DEF ConfigRecv
<1>p. /\ cfPc' \in [ConfigThread -> ConfigLabels]
      /\ \A d \in ConfigThread : cfPc'[d] = IF d = t THEN "unlock" ELSE cfPc[d]
  BY <1>a, <1>n DEF ConfigRecv, ConfigGoto, ConfigTypeOK, ConfigLabels
<1>o. s_atomic = t /\ \A u \in ConfigThread : u # t => cfPc[u] \notin Holding \cup {"format"}
  BY <1>a, <1>n, <1>e DEF ConfigLockInv, Holding
<1>s. /\ answers' \in Seq(0 .. ConfigMaxCalls) /\ Len(answers') = missed
      /\ Head(answers) \in 0 .. ConfigMaxCalls
  <2>1. Len(answers) = missed + 1 BY <1>a, <1>e DEF AnswerIsMine
  <2>2. answers \in Seq(0 .. ConfigMaxCalls) /\ missed \in Nat BY <1>a DEF ConfigTypeOK
  <2>3. answers # <<>> BY DEF ConfigRecv
  <2>4. /\ Head(answers) \in 0 .. ConfigMaxCalls /\ Tail(answers) \in Seq(0 .. ConfigMaxCalls)
        /\ Len(Tail(answers)) = Len(answers) - 1
    BY <2>2, <2>3, HeadTailProperties
  <2>q. QED BY <1>e, <2>1, <2>2, <2>4
<1>f. s_conf_buf' \in [0 .. Buffers - 1 -> Content] /\ BufferLasts'
  BY <1>e, <1>s, PutLasts DEF ConfigRecv
<1>1. ConfigTypeOK' BY <1>a, <1>n, <1>e, <1>p, <1>s, <1>f DEF ConfigTypeOK, ConfigLabels
<1>2. ConfigLockInv' BY <1>a, <1>n, <1>e, <1>p, <1>o DEF ConfigLockInv, Holding
<1>3. BudgetInv'
  <2>1. ToFormat' = ToFormat BY <1>n, <1>e, <1>p DEF ToFormat
  <2>q. QED BY <1>a, <1>e, <2>1 DEF BudgetInv
<1>4. MissedInv' BY <1>a, <1>e, <1>p DEF MissedInv
<1>5. AnswerIsMine' BY <1>e, <1>p, <1>o, <1>s DEF AnswerIsMine, Holding
<1>6. SocketIsClosedOnce' BY <1>a, <1>e DEF SocketIsClosedOnce
<1>7. BufferInv' BY <1>a, <1>n, <1>e, <1>p, <1>o DEF BufferInv, Buffered, Holding
<1>8. BufferLasts' BY <1>f
<1>q. QED BY <1>1, <1>2, <1>3, <1>4, <1>5, <1>6, <1>7, <1>8 DEF ConfigIInv

\* Or the receive fails, and the answer stays in the socket.
LEMMA ConfigRecvFailsKeeps ==
  ASSUME ConfigIInv, NEW t \in ConfigThread, ConfigRecvFails(t)
  PROVE  ConfigIInv'
<1>a. /\ ConfigTypeOK /\ ConfigLockInv /\ BudgetInv /\ MissedInv /\ AnswerIsMine
      /\ SocketIsClosedOnce /\ BufferInv /\ BufferLasts
  BY DEF ConfigIInv
<1>n. /\ ConfigThread = ConfigCaller \cup {"program"} /\ "program" \notin ConfigCaller
      /\ NoThread \notin ConfigThread /\ Buffers \in Nat \ {0} /\ ConfigMaxCalls \in Nat
  BY ConfigNames
<1>e. /\ cfPc[t] = "recv"
      /\ answers' = answers
      /\ si_init_flag' = si_init_flag /\ s_conf_fd' = s_conf_fd /\ s_buf_index' = s_buf_index
      /\ s_atomic' = s_atomic /\ calls' = calls /\ call' = call /\ conf_buf' = conf_buf
      /\ closed' = closed
  BY DEF ConfigRecvFails
<1>p. /\ cfPc' \in [ConfigThread -> ConfigLabels]
      /\ \A d \in ConfigThread : cfPc'[d] = IF d = t THEN "unlock" ELSE cfPc[d]
  BY <1>a, <1>n DEF ConfigRecvFails, ConfigGoto, ConfigTypeOK, ConfigLabels
<1>o. s_atomic = t /\ \A u \in ConfigThread : u # t => cfPc[u] \notin Holding \cup {"format"}
  BY <1>a, <1>n, <1>e DEF ConfigLockInv, Holding
<1>s. missed \in Nat /\ missed' = missed + 1 /\ missed + 1 <= calls /\ calls \in 0 .. ConfigMaxCalls
  BY <1>a, <1>e DEF MissedInv, ConfigTypeOK, ConfigRecvFails
<1>f. s_conf_buf' \in [0 .. Buffers - 1 -> Content] /\ BufferLasts'
  <2>1. 0 \in 0 .. ConfigMaxCalls BY <1>n
  <2>q. QED BY <1>e, <2>1, PutLasts DEF ConfigRecvFails
<1>1. ConfigTypeOK' BY <1>a, <1>n, <1>e, <1>p, <1>s, <1>f DEF ConfigTypeOK, ConfigLabels
<1>2. ConfigLockInv' BY <1>a, <1>n, <1>e, <1>p, <1>o DEF ConfigLockInv, Holding
<1>3. BudgetInv'
  <2>1. ToFormat' = ToFormat BY <1>n, <1>e, <1>p DEF ToFormat
  <2>q. QED BY <1>a, <1>e, <2>1 DEF BudgetInv
<1>4. MissedInv' BY <1>e, <1>p, <1>o, <1>s DEF MissedInv, Holding
<1>5. AnswerIsMine'
  <2>1. Len(answers) = missed + 1 BY <1>a, <1>e DEF AnswerIsMine
  <2>q. QED BY <1>e, <1>p, <1>o, <1>s, <2>1 DEF AnswerIsMine, Holding
<1>6. SocketIsClosedOnce' BY <1>a, <1>e DEF SocketIsClosedOnce
<1>7. BufferInv' BY <1>a, <1>n, <1>e, <1>p, <1>o DEF BufferInv, Buffered, Holding
<1>8. BufferLasts' BY <1>f
<1>q. QED BY <1>1, <1>2, <1>3, <1>4, <1>5, <1>6, <1>7, <1>8 DEF ConfigIInv

\* The mutex is given back ...
LEMMA LeaveKeeps ==
  ASSUME ConfigIInv, NEW t \in ConfigThread, Leave(t)
  PROVE  ConfigIInv'
<1>a. /\ ConfigTypeOK /\ ConfigLockInv /\ BudgetInv /\ MissedInv /\ AnswerIsMine
      /\ SocketIsClosedOnce /\ BufferInv /\ BufferLasts
  BY DEF ConfigIInv
<1>n. /\ ConfigThread = ConfigCaller \cup {"program"} /\ "program" \notin ConfigCaller
      /\ NoThread \notin ConfigThread /\ Buffers \in Nat \ {0} /\ ConfigMaxCalls \in Nat
  BY ConfigNames
<1>e. /\ cfPc[t] = "unlock"
      /\ s_atomic' = NoThread
      /\ si_init_flag' = si_init_flag /\ s_conf_fd' = s_conf_fd /\ s_buf_index' = s_buf_index
      /\ s_conf_buf' = s_conf_buf /\ answers' = answers /\ calls' = calls /\ call' = call
      /\ conf_buf' = conf_buf /\ closed' = closed /\ missed' = missed
  BY DEF Leave, Unlock
<1>p. /\ cfPc' \in [ConfigThread -> ConfigLabels]
      /\ \A d \in ConfigThread : cfPc'[d] = IF d = t THEN "use" ELSE cfPc[d]
  BY <1>a, <1>n DEF Leave, ConfigGoto, ConfigTypeOK, ConfigLabels
<1>o. s_atomic = t /\ \A u \in ConfigThread : u # t => cfPc[u] \notin Holding \cup {"format"}
  BY <1>a, <1>n, <1>e DEF ConfigLockInv, Holding
<1>1. ConfigTypeOK' BY <1>a, <1>n, <1>e, <1>p, <1>o DEF ConfigTypeOK, ConfigLabels
<1>2. ConfigLockInv' BY <1>a, <1>n, <1>e, <1>p, <1>o DEF ConfigLockInv, Holding
<1>3. BudgetInv'
  <2>1. ToFormat' = ToFormat BY <1>n, <1>e, <1>p DEF ToFormat
  <2>q. QED BY <1>a, <1>e, <2>1 DEF BudgetInv
<1>4. MissedInv' BY <1>a, <1>e, <1>p, <1>o DEF MissedInv, Holding
<1>5. AnswerIsMine' BY <1>a, <1>n, <1>e, <1>p, <1>o DEF AnswerIsMine
<1>6. SocketIsClosedOnce' BY <1>a, <1>n, <1>e, <1>p, <1>o DEF SocketIsClosedOnce, ConfigTypeOK
<1>7. BufferInv' BY <1>a, <1>n, <1>e, <1>p, <1>o DEF BufferInv, Buffered, Holding
<1>8. BufferLasts' BY <1>a, <1>n, <1>e, <1>p, <1>o DEF BufferLasts, Buffered, Holding
<1>q. QED BY <1>1, <1>2, <1>3, <1>4, <1>5, <1>6, <1>7, <1>8 DEF ConfigIInv

\* ... and the buffer read.
LEMMA UseKeeps ==
  ASSUME ConfigIInv, NEW t \in ConfigThread, Use(t)
  PROVE  ConfigIInv'
<1>a. /\ ConfigTypeOK /\ ConfigLockInv /\ BudgetInv /\ MissedInv /\ AnswerIsMine
      /\ SocketIsClosedOnce /\ BufferInv /\ BufferLasts
  BY DEF ConfigIInv
<1>n. /\ ConfigThread = ConfigCaller \cup {"program"} /\ "program" \notin ConfigCaller
      /\ NoThread \notin ConfigThread /\ Buffers \in Nat \ {0} /\ ConfigMaxCalls \in Nat
  BY ConfigNames
<1>e. /\ cfPc[t] = "use"
      /\ si_init_flag' = si_init_flag /\ s_conf_fd' = s_conf_fd /\ s_buf_index' = s_buf_index
      /\ s_conf_buf' = s_conf_buf /\ s_atomic' = s_atomic /\ answers' = answers
      /\ calls' = calls /\ call' = call /\ conf_buf' = conf_buf
      /\ closed' = closed /\ missed' = missed
  BY DEF Use, library
<1>p. /\ cfPc' \in [ConfigThread -> ConfigLabels]
      /\ \A d \in ConfigThread :
           cfPc'[d] = IF d = t THEN (IF t = "program" THEN "uninit" ELSE "idle") ELSE cfPc[d]
  BY <1>a, <1>n DEF Use, ConfigGoto, ConfigTypeOK, ConfigLabels
<1>1. ConfigTypeOK' BY <1>a, <1>n, <1>e, <1>p DEF ConfigTypeOK, ConfigLabels
<1>2. ConfigLockInv' BY <1>a, <1>n, <1>e, <1>p DEF ConfigLockInv, Holding
<1>3. BudgetInv'
  <2>1. ToFormat' = ToFormat BY <1>n, <1>e, <1>p DEF ToFormat
  <2>q. QED BY <1>a, <1>e, <2>1 DEF BudgetInv
<1>4. MissedInv' BY <1>a, <1>n, <1>e, <1>p DEF MissedInv
<1>5. AnswerIsMine' BY <1>a, <1>n, <1>e, <1>p DEF AnswerIsMine
<1>6. SocketIsClosedOnce' BY <1>a, <1>n, <1>e, <1>p DEF SocketIsClosedOnce, ConfigTypeOK
<1>7. BufferInv' BY <1>a, <1>n, <1>e, <1>p DEF BufferInv, Buffered, Holding
<1>8. BufferLasts' BY <1>a, <1>n, <1>e, <1>p DEF BufferLasts, Buffered, Holding
<1>q. QED BY <1>1, <1>2, <1>3, <1>4, <1>5, <1>6, <1>7, <1>8 DEF ConfigIInv

\* cfgSockUninit() closes the socket.
LEMMA UninitKeeps ==
  ASSUME ConfigIInv, cfgSockUninit
  PROVE  ConfigIInv'
<1>a. /\ ConfigTypeOK /\ ConfigLockInv /\ BudgetInv /\ MissedInv /\ AnswerIsMine
      /\ SocketIsClosedOnce /\ BufferInv /\ BufferLasts
  BY DEF ConfigIInv
<1>n. /\ ConfigThread = ConfigCaller \cup {"program"} /\ "program" \notin ConfigCaller
      /\ NoThread \notin ConfigThread /\ Buffers \in Nat \ {0} /\ ConfigMaxCalls \in Nat
  BY ConfigNames
<1>e. /\ cfPc["program"] = "uninit"
      /\ closed' = [closed EXCEPT !.closed = IF s_conf_fd > 0 THEN @ + 1 ELSE @]
      /\ s_conf_fd' = -1
      /\ si_init_flag' = FALSE
      /\ answers' = <<>> /\ missed' = 0
      /\ s_buf_index' = s_buf_index /\ s_conf_buf' = s_conf_buf /\ s_atomic' = s_atomic
      /\ calls' = calls /\ call' = call /\ conf_buf' = conf_buf
  BY DEF cfgSockUninit, MustClose
<1>p. /\ cfPc' \in [ConfigThread -> ConfigLabels]
      /\ \A d \in ConfigThread : cfPc'[d] = IF d = "program" THEN "idle" ELSE cfPc[d]
  BY <1>a, <1>n DEF cfgSockUninit, ConfigGoto, ConfigTypeOK, ConfigLabels
<1>c. /\ closed' \in [opened : Nat, closed : Nat] /\ closed'.opened = closed.opened
      /\ closed'.closed = (IF s_conf_fd > 0 THEN closed.closed + 1 ELSE closed.closed)
      /\ closed.opened \in Nat /\ closed.closed \in Nat /\ s_conf_fd \in {-1, 3}
  <2>1. closed \in [opened : Nat, closed : Nat] /\ s_conf_fd \in {-1, 3}
    BY <1>a DEF ConfigTypeOK
  <2>2. PICK k \in Nat : /\ k = IF s_conf_fd > 0 THEN closed.closed + 1 ELSE closed.closed
                        /\ closed' = [closed EXCEPT !.closed = k]
    <3>1. CASE s_conf_fd > 0
      <4>1. closed' = [closed EXCEPT !.closed = closed.closed + 1] BY <1>e, <3>1
      <4>2. closed.closed + 1 \in Nat BY <2>1
      <4>q. QED BY <3>1, <4>1, <4>2
    <3>2. CASE ~ (s_conf_fd > 0)
      <4>1. closed' = [closed EXCEPT !.closed = closed.closed] BY <1>e, <3>2
      <4>q. QED BY <2>1, <3>2, <4>1
    <3>q. QED BY <3>1, <3>2
  <2>3. closed' \in [opened : Nat, closed : Nat] BY <2>1, <2>2
  <2>4. closed'.opened = closed.opened /\ closed'.closed = k BY <2>1, <2>2
  <2>q. QED BY <2>1, <2>2, <2>3, <2>4
<1>o. \A u \in ConfigCaller : cfPc[u] = "idle" BY <1>a, <1>e DEF ConfigLockInv
<1>1. ConfigTypeOK'
  <2>1. answers' \in Seq(0 .. ConfigMaxCalls) /\ missed' \in 0 .. ConfigMaxCalls BY <1>n, <1>e
  <2>q. QED BY <1>a, <1>n, <1>e, <1>p, <1>c, <2>1 DEF ConfigTypeOK, ConfigLabels
<1>2. ConfigLockInv' BY <1>a, <1>n, <1>e, <1>p, <1>c, <1>o DEF ConfigLockInv, Holding
<1>3. BudgetInv'
  <2>1. ToFormat' = ToFormat BY <1>n, <1>e, <1>p DEF ToFormat
  <2>q. QED BY <1>a, <1>e, <2>1 DEF BudgetInv
<1>4. MissedInv'
  <2>1. calls \in Nat BY <1>a DEF ConfigTypeOK
  <2>q. QED BY <1>n, <1>e, <1>p, <1>o, <2>1 DEF MissedInv
<1>5. AnswerIsMine'
  <2>1. Len(answers') = 0 BY <1>e
  <2>q. QED BY <1>n, <1>e, <1>p, <1>o, <2>1 DEF AnswerIsMine
<1>6. SocketIsClosedOnce'
  <2>1. closed'.closed = closed'.opened
    <3>1. CASE si_init_flag
      <4>1. s_conf_fd = 3 BY <1>a, <1>c, <3>1 DEF SocketIsClosedOnce
      <4>2. closed.closed = closed.opened - 1 BY <1>a, <3>1 DEF SocketIsClosedOnce
      <4>q. QED BY <1>c, <4>1, <4>2
    <3>2. CASE ~ si_init_flag
      <4>1. s_conf_fd = -1 BY <1>a, <3>2 DEF SocketIsClosedOnce
      <4>2. closed.closed = closed.opened BY <1>a, <1>c, <3>2 DEF SocketIsClosedOnce
      <4>q. QED BY <1>c, <4>1, <4>2
    <3>q. QED BY <3>1, <3>2
  <2>2. si_init_flag' = (s_conf_fd' # -1) BY <1>e
  <2>q. QED BY <1>e, <1>c, <2>1, <2>2 DEF SocketIsClosedOnce
<1>7. BufferInv' BY <1>a, <1>n, <1>e, <1>p, <1>c, <1>o DEF BufferInv, Buffered, Holding
<1>8. BufferLasts' BY <1>a, <1>n, <1>e, <1>p, <1>c, <1>o DEF BufferLasts, Buffered, Holding
<1>q. QED BY <1>1, <1>2, <1>3, <1>4, <1>5, <1>6, <1>7, <1>8 DEF ConfigIInv

\* Nothing changes.
LEMMA ConfigRestKeeps == ASSUME ConfigIInv, UNCHANGED configVars PROVE ConfigIInv'
<1>a. /\ ConfigTypeOK /\ ConfigLockInv /\ BudgetInv /\ MissedInv /\ AnswerIsMine
      /\ SocketIsClosedOnce /\ BufferInv /\ BufferLasts
  BY DEF ConfigIInv
<1>e. /\ si_init_flag' = si_init_flag /\ s_conf_fd' = s_conf_fd /\ s_buf_index' = s_buf_index
      /\ s_conf_buf' = s_conf_buf /\ s_atomic' = s_atomic /\ answers' = answers
      /\ calls' = calls /\ cfPc' = cfPc /\ call' = call /\ conf_buf' = conf_buf
      /\ closed' = closed /\ missed' = missed
  BY DEF configVars, library
<1>1. ConfigTypeOK' BY <1>a, <1>e DEF ConfigTypeOK
<1>2. ConfigLockInv' BY <1>a, <1>e DEF ConfigLockInv
<1>3. BudgetInv' BY <1>a, <1>e DEF BudgetInv, ToFormat
<1>4. MissedInv' /\ AnswerIsMine' BY <1>a, <1>e DEF MissedInv, AnswerIsMine
<1>5. SocketIsClosedOnce' BY <1>a, <1>e DEF SocketIsClosedOnce
<1>6. BufferInv' BY <1>a, <1>e DEF BufferInv
<1>7. BufferLasts' BY <1>a, <1>e DEF BufferLasts
<1>q. QED BY <1>1, <1>2, <1>3, <1>4, <1>5, <1>6, <1>7 DEF ConfigIInv

\* For any number of threads, buffers and calls: a call receives the answer to its own
\* request, or to that of a call as many before it as receives have failed; it reads what it
\* left in its buffer after the unlock unless as many calls as there are buffers have taken
\* theirs since; and the socket is closed once, whoever finds out that it must be
\* (cfgSock.c:30-236).
THEOREM CallsAreAnswered == ConfigSpec => []CfgSockInv
<1>1. ASSUME ConfigIInv, [ConfigNext]_configVars PROVE ConfigIInv'
  <2>1. ASSUME NEW t \in ConfigThread, Begin(t) \/ request(t) \/ ConfigSendFails(t)
                                        \/ ConfigRecvFails(t)
        PROVE  ConfigIInv'
    BY <1>1, <2>1, BeginKeeps, EnterKeeps, FormatKeeps, ConfigSendKeeps, SendNotKeeps,
       ConfigRecvKeeps, LeaveKeeps, UseKeeps, ConfigSendFailsKeeps, ConfigRecvFailsKeeps DEF request
  <2>2. CASE cfgSockInit BY <1>1, <2>2, InitKeeps
  <2>3. CASE cfgSockUninit BY <1>1, <2>3, UninitKeeps
  <2>4. CASE UNCHANGED configVars BY <1>1, <2>4, ConfigRestKeeps
  <2>5. CASE Rest BY <2>4, <2>5 DEF Rest
  <2>q. QED BY <1>1, <2>1, <2>2, <2>3, <2>4, <2>5 DEF ConfigNext
<1>2. ConfigIInv => CfgSockInv BY DEF ConfigIInv, CfgSockInv
<1>q. QED BY ConfigStart, <1>1, <1>2, PTL DEF ConfigSpec

(***************************************************************************)
(* longhorn-rpc-client.c, for any number of callers and requests: each     *)
(* request has a number of its own, and is used after the free, or comes   *)
(* back without its data, only if its caller woke up by itself.            *)
(***************************************************************************)

\* The states of the response thread that has a response in hand, and those of a caller
\* that has a request.
Handling == {"find", "delete", "copy", "signal"}
Unsent == {"add", "store", "send"}
Asking == Unsent \cup {"wait", "asleep"}

RpcLabelInv ==
  /\ rpPc["response_process"] \in Handling \cup {"receive", "ended"}
  /\ \A c \in RpcCaller : rpPc[c] \in Asking \cup {"idle"}

\* The response to request r is on its way, or in hand.
Due(r) == r \in responses \/ (resp = r /\ rpPc["response_process"] \in Handling)

\* Numbers are given once.
NumberInv ==
  /\ \A c \in RpcCaller : req[c] \in 0 .. seq
  /\ responses \subseteq 1 .. seq /\ resp \in 0 .. seq /\ rpFreed \subseteq 1 .. seq
  /\ \A c \in RpcCaller : rpPc[c] \in Asking => req[c] # 0 /\ req[c] \notin rpFreed
  /\ rpPc["response_process"] \in Handling => resp # 0

\* A request gets one response, which has been copied when it is signalled, ...
ResponseInv ==
  /\ rpPc["response_process"] \in Handling => resp \notin responses
  /\ rpPc["response_process"] = "signal" => resp \in filled
  /\ \A c \in RpcCaller : rpPc[c] \in Unsent => ~ Due(req[c])

\* ... after which its caller may return.
WakeInv ==
  /\ \A c \in RpcCaller : rpPc[c] = "asleep" /\ c \notin waiting =>
       \/ req[c] \in woken
       \/ req[c] \in filled /\ ~ Due(req[c])
  /\ \A r \in rpFreed : Due(r) => r \in woken

RpcIInv ==
  /\ RpcTypeOK /\ RpcLabelInv /\ NumbersAreUnique /\ NumberInv /\ ResponseInv /\ WakeInv
  /\ TouchedOnlyIfWoken /\ ReturnsWithData

\* A caller makes a request ...
LEMMA NewRequestKeeps ==
  ASSUME RpcIInv, NEW c \in RpcCaller, NewRequest(c)
  PROVE  RpcIInv'
<1>a. /\ RpcTypeOK /\ RpcLabelInv /\ NumbersAreUnique /\ NumberInv /\ ResponseInv /\ WakeInv
      /\ TouchedOnlyIfWoken /\ ReturnsWithData
  BY DEF RpcIInv
<1>n. /\ RpcMaxCalls \in Nat /\ SeqNumber = 1 .. RpcMaxCalls /\ seq \in 0 .. RpcMaxCalls
      /\ RpcThread = RpcCaller \cup {"response_process"} /\ "response_process" \notin RpcCaller
      /\ NoThread \notin RpcCaller
  BY <1>a, RpcAssumption DEF SeqNumber, RpcThread, RpcTypeOK
<1>e. /\ rpPc[c] = "idle" /\ seq < RpcMaxCalls
      /\ seq' = seq + 1
      /\ req' = [req EXCEPT ![c] = seq + 1]
      /\ msg_table' = msg_table /\ rpMutex' = rpMutex /\ responses' = responses
      /\ resp' = resp /\ table' = table /\ waiting' = waiting /\ filled' = filled
      /\ rpFreed' = rpFreed /\ early' = early /\ lost' = lost /\ woken' = woken
      /\ returned' = returned /\ touched' = touched
  BY DEF NewRequest, new_seq, RpcGoto, rpcHistory
<1>p. /\ rpPc' = [rpPc EXCEPT ![c] = "add"]
      /\ \A d \in RpcThread : rpPc'[d] = IF d = c THEN "add" ELSE rpPc[d]
  BY <1>a, <1>n DEF NewRequest, RpcGoto, RpcTypeOK
<1>r. \A d \in RpcCaller : req'[d] = IF d = c THEN seq + 1 ELSE req[d] BY <1>a, <1>e
                                                                       DEF RpcTypeOK
<1>f. seq + 1 \notin responses /\ seq + 1 # resp /\ seq + 1 \notin rpFreed /\ seq + 1 # 0
      /\ \A d \in RpcCaller : req[d] # seq + 1
  BY <1>a, <1>n DEF NumberInv
<1>1. RpcTypeOK' BY <1>a, <1>n, <1>e, <1>p, <1>r, <1>f DEF RpcTypeOK, RpcLabelInv, NumberInv
<1>2. RpcLabelInv' BY <1>a, <1>n, <1>e, <1>p, <1>r, <1>f
                   DEF RpcLabelInv, Handling, Asking, Unsent
<1>3. NumbersAreUnique' BY <1>a, <1>n, <1>e, <1>p, <1>r, <1>f DEF NumbersAreUnique
<1>4. NumberInv' BY <1>a, <1>n, <1>e, <1>p, <1>r, <1>f DEF NumberInv, Asking, Unsent, Handling
<1>5. ResponseInv' BY <1>a, <1>n, <1>e, <1>p, <1>r, <1>f DEF ResponseInv, Due, Handling, Unsent
<1>6. WakeInv' BY <1>a, <1>n, <1>e, <1>p, <1>r, <1>f DEF WakeInv, Due, Handling
<1>7. TouchedOnlyIfWoken' BY <1>a, <1>n, <1>e, <1>p, <1>r, <1>f DEF TouchedOnlyIfWoken
<1>8. ReturnsWithData' BY <1>a, <1>n, <1>e, <1>p, <1>r, <1>f DEF ReturnsWithData
<1>q. QED BY <1>1, <1>2, <1>3, <1>4, <1>5, <1>6, <1>7, <1>8 DEF RpcIInv

\* ... loads the table ...
LEMMA AddLoadKeeps ==
  ASSUME RpcIInv, NEW c \in RpcCaller, AddLoad(c)
  PROVE  RpcIInv'
<1>a. /\ RpcTypeOK /\ RpcLabelInv /\ NumbersAreUnique /\ NumberInv /\ ResponseInv /\ WakeInv
      /\ TouchedOnlyIfWoken /\ ReturnsWithData
  BY DEF RpcIInv
<1>n. /\ RpcMaxCalls \in Nat /\ SeqNumber = 1 .. RpcMaxCalls /\ seq \in 0 .. RpcMaxCalls
      /\ RpcThread = RpcCaller \cup {"response_process"} /\ "response_process" \notin RpcCaller
      /\ NoThread \notin RpcCaller
  BY <1>a, RpcAssumption DEF SeqNumber, RpcThread, RpcTypeOK
<1>e. /\ rpPc[c] = "add"
      /\ rpMutex' = c
      /\ table' = [table EXCEPT ![c] = msg_table]
      /\ seq' = seq /\ msg_table' = msg_table /\ responses' = responses /\ req' = req
      /\ resp' = resp /\ waiting' = waiting /\ filled' = filled /\ rpFreed' = rpFreed
      /\ early' = early /\ lost' = lost /\ woken' = woken /\ returned' = returned
      /\ touched' = touched
  BY DEF AddLoad, Lock, RpcGoto, rpcHistory
<1>p. /\ rpPc' = [rpPc EXCEPT ![c] = "store"]
      /\ \A d \in RpcThread : rpPc'[d] = IF d = c THEN "store" ELSE rpPc[d]
  BY <1>a, <1>n DEF AddLoad, RpcGoto, RpcTypeOK
<1>r. /\ req[c] \in 1 .. seq /\ req[c] \in SeqNumber /\ req[c] \notin rpFreed
      /\ \A d \in RpcCaller : req[d] = req[c] => d = c
  BY <1>a, <1>n, <1>e DEF NumberInv, NumbersAreUnique, Asking, Unsent
<1>1. RpcTypeOK' BY <1>a, <1>n, <1>e, <1>p, <1>r DEF RpcTypeOK, RpcLabelInv, NumberInv
<1>2. RpcLabelInv' BY <1>a, <1>n, <1>e, <1>p, <1>r DEF RpcLabelInv, Handling, Asking, Unsent
<1>3. NumbersAreUnique' BY <1>a, <1>n, <1>e, <1>p, <1>r DEF NumbersAreUnique
<1>4. NumberInv' BY <1>a, <1>n, <1>e, <1>p, <1>r DEF NumberInv, Asking, Unsent, Handling
<1>5. ResponseInv' BY <1>a, <1>n, <1>e, <1>p, <1>r DEF ResponseInv, Due, Handling, Unsent
<1>6. WakeInv' BY <1>a, <1>n, <1>e, <1>p, <1>r DEF WakeInv, Due, Handling
<1>7. TouchedOnlyIfWoken' BY <1>a, <1>n, <1>e, <1>p, <1>r DEF TouchedOnlyIfWoken
<1>8. ReturnsWithData' BY <1>a, <1>n, <1>e, <1>p, <1>r DEF ReturnsWithData
<1>q. QED BY <1>1, <1>2, <1>3, <1>4, <1>5, <1>6, <1>7, <1>8 DEF RpcIInv

\* ... and stores it with its request, ...
LEMMA AddStoreKeeps ==
  ASSUME RpcIInv, NEW c \in RpcCaller, AddStore(c)
  PROVE  RpcIInv'
<1>a. /\ RpcTypeOK /\ RpcLabelInv /\ NumbersAreUnique /\ NumberInv /\ ResponseInv /\ WakeInv
      /\ TouchedOnlyIfWoken /\ ReturnsWithData
  BY DEF RpcIInv
<1>n. /\ RpcMaxCalls \in Nat /\ SeqNumber = 1 .. RpcMaxCalls /\ seq \in 0 .. RpcMaxCalls
      /\ RpcThread = RpcCaller \cup {"response_process"} /\ "response_process" \notin RpcCaller
      /\ NoThread \notin RpcCaller
  BY <1>a, RpcAssumption DEF SeqNumber, RpcThread, RpcTypeOK
<1>e. /\ rpPc[c] = "store"
      /\ rpMutex' = NoThread
      /\ msg_table' = table[c] \cup {req[c]}
      /\ seq' = seq /\ responses' = responses /\ req' = req /\ resp' = resp /\ table' = table
      /\ waiting' = waiting /\ filled' = filled /\ rpFreed' = rpFreed /\ early' = early
      /\ lost' = lost /\ woken' = woken /\ returned' = returned /\ touched' = touched
  BY DEF AddStore, Unlock, RpcGoto, rpcHistory
<1>p. /\ rpPc' = [rpPc EXCEPT ![c] = "send"]
      /\ \A d \in RpcThread : rpPc'[d] = IF d = c THEN "send" ELSE rpPc[d]
  BY <1>a, <1>n DEF AddStore, RpcGoto, RpcTypeOK
<1>r. /\ req[c] \in 1 .. seq /\ req[c] \in SeqNumber /\ req[c] \notin rpFreed
      /\ \A d \in RpcCaller : req[d] = req[c] => d = c
  BY <1>a, <1>n, <1>e DEF NumberInv, NumbersAreUnique, Asking, Unsent
<1>1. RpcTypeOK' BY <1>a, <1>n, <1>e, <1>p, <1>r DEF RpcTypeOK, RpcLabelInv, NumberInv
<1>2. RpcLabelInv' BY <1>a, <1>n, <1>e, <1>p, <1>r DEF RpcLabelInv, Handling, Asking, Unsent
<1>3. NumbersAreUnique' BY <1>a, <1>n, <1>e, <1>p, <1>r DEF NumbersAreUnique
<1>4. NumberInv' BY <1>a, <1>n, <1>e, <1>p, <1>r DEF NumberInv, Asking, Unsent, Handling
<1>5. ResponseInv' BY <1>a, <1>n, <1>e, <1>p, <1>r DEF ResponseInv, Due, Handling, Unsent
<1>6. WakeInv' BY <1>a, <1>n, <1>e, <1>p, <1>r DEF WakeInv, Due, Handling
<1>7. TouchedOnlyIfWoken' BY <1>a, <1>n, <1>e, <1>p, <1>r DEF TouchedOnlyIfWoken
<1>8. ReturnsWithData' BY <1>a, <1>n, <1>e, <1>p, <1>r DEF ReturnsWithData
<1>q. QED BY <1>1, <1>2, <1>3, <1>4, <1>5, <1>6, <1>7, <1>8 DEF RpcIInv

\* ... and sends it, ...
LEMMA RpcSendKeeps ==
  ASSUME RpcIInv, NEW c \in RpcCaller, RpcSend(c)
  PROVE  RpcIInv'
<1>a. /\ RpcTypeOK /\ RpcLabelInv /\ NumbersAreUnique /\ NumberInv /\ ResponseInv /\ WakeInv
      /\ TouchedOnlyIfWoken /\ ReturnsWithData
  BY DEF RpcIInv
<1>n. /\ RpcMaxCalls \in Nat /\ SeqNumber = 1 .. RpcMaxCalls /\ seq \in 0 .. RpcMaxCalls
      /\ RpcThread = RpcCaller \cup {"response_process"} /\ "response_process" \notin RpcCaller
      /\ NoThread \notin RpcCaller
  BY <1>a, RpcAssumption DEF SeqNumber, RpcThread, RpcTypeOK
<1>e. /\ rpPc[c] = "send"
      /\ responses' = responses \cup {req[c]}
      /\ seq' = seq /\ msg_table' = msg_table /\ rpMutex' = rpMutex /\ req' = req
      /\ resp' = resp /\ table' = table /\ waiting' = waiting /\ filled' = filled
      /\ rpFreed' = rpFreed /\ early' = early /\ lost' = lost /\ woken' = woken
      /\ returned' = returned /\ touched' = touched
  BY DEF RpcSend, RpcGoto, rpcHistory
<1>p. /\ rpPc' = [rpPc EXCEPT ![c] = "wait"]
      /\ \A d \in RpcThread : rpPc'[d] = IF d = c THEN "wait" ELSE rpPc[d]
  BY <1>a, <1>n DEF RpcSend, RpcGoto, RpcTypeOK
<1>r. /\ req[c] \in 1 .. seq /\ req[c] \in SeqNumber /\ req[c] \notin rpFreed
      /\ \A d \in RpcCaller : req[d] = req[c] => d = c
  BY <1>a, <1>n, <1>e DEF NumberInv, NumbersAreUnique, Asking, Unsent
<1>d. /\ \A k \in Nat : Due(k)' <=> Due(k) \/ k = req[c]
      /\ \A d \in RpcCaller : d # c => req[d] # req[c]
      /\ \A d \in RpcCaller : req[d] \in Nat
  BY <1>a, <1>n, <1>e, <1>p, <1>r DEF Due, NumberInv
<1>1. RpcTypeOK' BY <1>a, <1>n, <1>e, <1>p, <1>r, <1>d DEF RpcTypeOK, RpcLabelInv, NumberInv
<1>2. RpcLabelInv' BY <1>a, <1>n, <1>e, <1>p, <1>r, <1>d
                   DEF RpcLabelInv, Handling, Asking, Unsent
<1>3. NumbersAreUnique' BY <1>a, <1>n, <1>e, <1>p, <1>r, <1>d DEF NumbersAreUnique
<1>4. NumberInv' BY <1>a, <1>n, <1>e, <1>p, <1>r, <1>d DEF NumberInv, Asking, Unsent, Handling
<1>5. ResponseInv' BY <1>a, <1>n, <1>e, <1>p, <1>r, <1>d DEF ResponseInv, Due, Handling, Unsent
<1>6. WakeInv' BY <1>a, <1>n, <1>e, <1>p, <1>r, <1>d DEF WakeInv, Due, Handling
<1>7. TouchedOnlyIfWoken' BY <1>a, <1>n, <1>e, <1>p, <1>r, <1>d DEF TouchedOnlyIfWoken
<1>8. ReturnsWithData' BY <1>a, <1>n, <1>e, <1>p, <1>r, <1>d DEF ReturnsWithData
<1>q. QED BY <1>1, <1>2, <1>3, <1>4, <1>5, <1>6, <1>7, <1>8 DEF RpcIInv

\* ... or gives it back, ...
LEMMA RpcSendFailsKeeps ==
  ASSUME RpcIInv, NEW c \in RpcCaller, RpcSendFails(c)
  PROVE  RpcIInv'
<1>a. /\ RpcTypeOK /\ RpcLabelInv /\ NumbersAreUnique /\ NumberInv /\ ResponseInv /\ WakeInv
      /\ TouchedOnlyIfWoken /\ ReturnsWithData
  BY DEF RpcIInv
<1>n. /\ RpcMaxCalls \in Nat /\ SeqNumber = 1 .. RpcMaxCalls /\ seq \in 0 .. RpcMaxCalls
      /\ RpcThread = RpcCaller \cup {"response_process"} /\ "response_process" \notin RpcCaller
      /\ NoThread \notin RpcCaller
  BY <1>a, RpcAssumption DEF SeqNumber, RpcThread, RpcTypeOK
<1>e. /\ rpPc[c] = "send"
      /\ rpFreed' = rpFreed \cup {req[c]}
      /\ seq' = seq /\ msg_table' = msg_table /\ rpMutex' = rpMutex /\ responses' = responses
      /\ req' = req /\ resp' = resp /\ table' = table /\ waiting' = waiting
      /\ filled' = filled /\ early' = early /\ lost' = lost /\ woken' = woken
      /\ returned' = returned /\ touched' = touched
  BY DEF RpcSendFails, RpcGoto, connection, rpcHistory
<1>p. /\ rpPc' = [rpPc EXCEPT ![c] = "idle"]
      /\ \A d \in RpcThread : rpPc'[d] = IF d = c THEN "idle" ELSE rpPc[d]
  BY <1>a, <1>n DEF RpcSendFails, RpcGoto, RpcTypeOK
<1>r. /\ req[c] \in 1 .. seq /\ req[c] \in SeqNumber /\ req[c] \notin rpFreed
      /\ \A d \in RpcCaller : req[d] = req[c] => d = c
  BY <1>a, <1>n, <1>e DEF NumberInv, NumbersAreUnique, Asking, Unsent
<1>d. /\ \A k \in Nat : Due(k)' <=> Due(k)
      /\ \A d \in RpcCaller : d # c => req[d] # req[c]
      /\ \A d \in RpcCaller : req[d] \in Nat
      /\ ~ Due(req[c])
  BY <1>a, <1>n, <1>e, <1>p, <1>r DEF Due, NumberInv, ResponseInv, Unsent
<1>1. RpcTypeOK' BY <1>a, <1>n, <1>e, <1>p, <1>r, <1>d DEF RpcTypeOK, RpcLabelInv, NumberInv
<1>2. RpcLabelInv' BY <1>a, <1>n, <1>e, <1>p, <1>r, <1>d
                   DEF RpcLabelInv, Handling, Asking, Unsent
<1>3. NumbersAreUnique' BY <1>a, <1>n, <1>e, <1>p, <1>r, <1>d DEF NumbersAreUnique
<1>4. NumberInv'
  <2>1. \A d \in RpcCaller : rpPc'[d] \in Asking => rpPc[d] \in Asking /\ d # c
    BY <1>n, <1>e, <1>p DEF Asking, Unsent
  <2>2. \A d \in RpcCaller : rpPc'[d] \in Asking => req[d] # 0 /\ req[d] \notin rpFreed'
    BY <1>a, <1>e, <1>d, <2>1 DEF NumberInv
  <2>3. rpPc'["response_process"] = rpPc["response_process"] BY <1>n, <1>p
  <2>4. rpFreed' \subseteq 1 .. seq BY <1>a, <1>e, <1>r DEF NumberInv
  <2>q. QED BY <1>a, <1>e, <2>2, <2>3, <2>4 DEF NumberInv
<1>5. ResponseInv' BY <1>a, <1>n, <1>e, <1>p, <1>r, <1>d DEF ResponseInv, Due, Handling, Unsent
<1>6. WakeInv' BY <1>a, <1>n, <1>e, <1>p, <1>r, <1>d DEF WakeInv, Due, Handling
<1>7. TouchedOnlyIfWoken' BY <1>a, <1>n, <1>e, <1>p, <1>r, <1>d DEF TouchedOnlyIfWoken
<1>8. ReturnsWithData' BY <1>a, <1>n, <1>e, <1>p, <1>r, <1>d DEF ReturnsWithData
<1>q. QED BY <1>1, <1>2, <1>3, <1>4, <1>5, <1>6, <1>7, <1>8 DEF RpcIInv

\* ... waits ...
LEMMA WaitKeeps ==
  ASSUME RpcIInv, NEW c \in RpcCaller, Wait(c)
  PROVE  RpcIInv'
<1>a. /\ RpcTypeOK /\ RpcLabelInv /\ NumbersAreUnique /\ NumberInv /\ ResponseInv /\ WakeInv
      /\ TouchedOnlyIfWoken /\ ReturnsWithData
  BY DEF RpcIInv
<1>n. /\ RpcMaxCalls \in Nat /\ SeqNumber = 1 .. RpcMaxCalls /\ seq \in 0 .. RpcMaxCalls
      /\ RpcThread = RpcCaller \cup {"response_process"} /\ "response_process" \notin RpcCaller
      /\ NoThread \notin RpcCaller
  BY <1>a, RpcAssumption DEF SeqNumber, RpcThread, RpcTypeOK
<1>e. /\ rpPc[c] = "wait"
      /\ waiting' = waiting \cup {c}
      /\ seq' = seq /\ msg_table' = msg_table /\ rpMutex' = rpMutex /\ responses' = responses
      /\ req' = req /\ resp' = resp /\ table' = table /\ filled' = filled
      /\ rpFreed' = rpFreed /\ early' = early /\ lost' = lost /\ woken' = woken
      /\ returned' = returned /\ touched' = touched
  BY DEF Wait, RpcGoto, connection, rpcHistory
<1>p. /\ rpPc' = [rpPc EXCEPT ![c] = "asleep"]
      /\ \A d \in RpcThread : rpPc'[d] = IF d = c THEN "asleep" ELSE rpPc[d]
  BY <1>a, <1>n DEF Wait, RpcGoto, RpcTypeOK
<1>r. /\ req[c] \in 1 .. seq /\ req[c] \in SeqNumber /\ req[c] \notin rpFreed
      /\ \A d \in RpcCaller : req[d] = req[c] => d = c
  BY <1>a, <1>n, <1>e DEF NumberInv, NumbersAreUnique, Asking, Unsent
<1>1. RpcTypeOK' BY <1>a, <1>n, <1>e, <1>p, <1>r DEF RpcTypeOK, RpcLabelInv, NumberInv
<1>2. RpcLabelInv' BY <1>a, <1>n, <1>e, <1>p, <1>r DEF RpcLabelInv, Handling, Asking, Unsent
<1>3. NumbersAreUnique' BY <1>a, <1>n, <1>e, <1>p, <1>r DEF NumbersAreUnique
<1>4. NumberInv' BY <1>a, <1>n, <1>e, <1>p, <1>r DEF NumberInv, Asking, Unsent, Handling
<1>5. ResponseInv' BY <1>a, <1>n, <1>e, <1>p, <1>r DEF ResponseInv, Due, Handling, Unsent
<1>6. WakeInv' BY <1>a, <1>n, <1>e, <1>p, <1>r DEF WakeInv, Due, Handling
<1>7. TouchedOnlyIfWoken' BY <1>a, <1>n, <1>e, <1>p, <1>r DEF TouchedOnlyIfWoken
<1>8. ReturnsWithData' BY <1>a, <1>n, <1>e, <1>p, <1>r DEF ReturnsWithData
<1>q. QED BY <1>1, <1>2, <1>3, <1>4, <1>5, <1>6, <1>7, <1>8 DEF RpcIInv

\* ... and returns.
LEMMA ReturnKeeps ==
  ASSUME RpcIInv, NEW c \in RpcCaller, Return(c)
  PROVE  RpcIInv'
<1>a. /\ RpcTypeOK /\ RpcLabelInv /\ NumbersAreUnique /\ NumberInv /\ ResponseInv /\ WakeInv
      /\ TouchedOnlyIfWoken /\ ReturnsWithData
  BY DEF RpcIInv
<1>n. /\ RpcMaxCalls \in Nat /\ SeqNumber = 1 .. RpcMaxCalls /\ seq \in 0 .. RpcMaxCalls
      /\ RpcThread = RpcCaller \cup {"response_process"} /\ "response_process" \notin RpcCaller
      /\ NoThread \notin RpcCaller
  BY <1>a, RpcAssumption DEF SeqNumber, RpcThread, RpcTypeOK
<1>e. /\ rpPc[c] = "asleep" /\ c \notin waiting
      /\ rpFreed' = rpFreed \cup {req[c]}
      /\ returned' = returned \cup {req[c]}
      /\ seq' = seq /\ msg_table' = msg_table /\ rpMutex' = rpMutex /\ responses' = responses
      /\ req' = req /\ resp' = resp /\ table' = table /\ waiting' = waiting
      /\ filled' = filled /\ early' = early /\ lost' = lost /\ woken' = woken
      /\ touched' = touched
  BY DEF Return, Awake, RpcGoto, connection
<1>p. /\ rpPc' = [rpPc EXCEPT ![c] = "idle"]
      /\ \A d \in RpcThread : rpPc'[d] = IF d = c THEN "idle" ELSE rpPc[d]
  BY <1>a, <1>n DEF Return, RpcGoto, RpcTypeOK
<1>r. /\ req[c] \in 1 .. seq /\ req[c] \in SeqNumber /\ req[c] \notin rpFreed
      /\ \A d \in RpcCaller : req[d] = req[c] => d = c
  BY <1>a, <1>n, <1>e DEF NumberInv, NumbersAreUnique, Asking, Unsent
<1>d. /\ \A k \in Nat : Due(k)' <=> Due(k)
      /\ \A d \in RpcCaller : d # c => req[d] # req[c]
      /\ \A d \in RpcCaller : req[d] \in Nat
      /\ req[c] \in woken \/ (req[c] \in filled /\ ~ Due(req[c]))
  BY <1>a, <1>n, <1>e, <1>p, <1>r DEF Due, NumberInv, WakeInv
<1>1. RpcTypeOK' BY <1>a, <1>n, <1>e, <1>p, <1>r, <1>d DEF RpcTypeOK, RpcLabelInv, NumberInv
<1>2. RpcLabelInv' BY <1>a, <1>n, <1>e, <1>p, <1>r, <1>d
                   DEF RpcLabelInv, Handling, Asking, Unsent
<1>3. NumbersAreUnique' BY <1>a, <1>n, <1>e, <1>p, <1>r, <1>d DEF NumbersAreUnique
<1>4. NumberInv'
  <2>1. \A d \in RpcCaller : rpPc'[d] \in Asking => rpPc[d] \in Asking /\ d # c
    BY <1>n, <1>e, <1>p DEF Asking, Unsent
  <2>2. \A d \in RpcCaller : rpPc'[d] \in Asking => req[d] # 0 /\ req[d] \notin rpFreed'
    BY <1>a, <1>e, <1>d, <2>1 DEF NumberInv
  <2>3. rpPc'["response_process"] = rpPc["response_process"] BY <1>n, <1>p
  <2>4. rpFreed' \subseteq 1 .. seq BY <1>a, <1>e, <1>r DEF NumberInv
  <2>q. QED BY <1>a, <1>e, <2>2, <2>3, <2>4 DEF NumberInv
<1>5. ResponseInv' BY <1>a, <1>n, <1>e, <1>p, <1>r, <1>d DEF ResponseInv, Due, Handling, Unsent
<1>6. WakeInv' BY <1>a, <1>n, <1>e, <1>p, <1>r, <1>d DEF WakeInv, Due, Handling
<1>7. TouchedOnlyIfWoken' BY <1>a, <1>n, <1>e, <1>p, <1>r, <1>d DEF TouchedOnlyIfWoken
<1>8. ReturnsWithData' BY <1>a, <1>n, <1>e, <1>p, <1>r, <1>d DEF ReturnsWithData
<1>q. QED BY <1>1, <1>2, <1>3, <1>4, <1>5, <1>6, <1>7, <1>8 DEF RpcIInv

\* A response comes ...
LEMMA ReceiveKeeps ==
  ASSUME RpcIInv, Receive
  PROVE  RpcIInv'
<1>a. /\ RpcTypeOK /\ RpcLabelInv /\ NumbersAreUnique /\ NumberInv /\ ResponseInv /\ WakeInv
      /\ TouchedOnlyIfWoken /\ ReturnsWithData
  BY DEF RpcIInv
<1>n. /\ RpcMaxCalls \in Nat /\ SeqNumber = 1 .. RpcMaxCalls /\ seq \in 0 .. RpcMaxCalls
      /\ RpcThread = RpcCaller \cup {"response_process"} /\ "response_process" \notin RpcCaller
      /\ NoThread \notin RpcCaller
  BY <1>a, RpcAssumption DEF SeqNumber, RpcThread, RpcTypeOK
<1>e. /\ rpPc["response_process"] = "receive"
      /\ \E r \in responses : responses' = responses \ {r} /\ resp' = r
      /\ resp' \in responses
      /\ seq' = seq /\ msg_table' = msg_table /\ rpMutex' = rpMutex /\ req' = req
      /\ table' = table /\ waiting' = waiting /\ filled' = filled /\ rpFreed' = rpFreed
      /\ early' = early /\ lost' = lost /\ woken' = woken /\ returned' = returned
      /\ touched' = touched
  BY DEF Receive, RpcGoto, rpcHistory
<1>p. /\ rpPc' = [rpPc EXCEPT !["response_process"] = "find"]
      /\ \A d \in RpcThread : rpPc'[d] = IF d = "response_process" THEN "find" ELSE rpPc[d]
  BY <1>a, <1>n DEF Receive, RpcGoto, RpcTypeOK
<1>r. /\ resp' \in 1 .. seq /\ responses' = responses \ {resp'}
      /\ \A d \in RpcCaller : rpPc'[d] = rpPc[d]
  BY <1>a, <1>n, <1>e, <1>p DEF NumberInv
<1>d. \A k \in SeqNumber : Due(k)' <=> k \in responses BY <1>n, <1>e, <1>p, <1>r
                                                       DEF Due, Handling
<1>1. RpcTypeOK' BY <1>a, <1>n, <1>e, <1>p, <1>r, <1>d DEF RpcTypeOK, RpcLabelInv, NumberInv
<1>2. RpcLabelInv' BY <1>a, <1>n, <1>e, <1>p, <1>r, <1>d
                   DEF RpcLabelInv, Handling, Asking, Unsent
<1>3. NumbersAreUnique' BY <1>a, <1>n, <1>e, <1>p, <1>r, <1>d DEF NumbersAreUnique
<1>4. NumberInv' BY <1>a, <1>n, <1>e, <1>p, <1>r, <1>d DEF NumberInv, Asking, Unsent, Handling
<1>5. ResponseInv' BY <1>a, <1>n, <1>e, <1>p, <1>r, <1>d DEF ResponseInv, Due, Handling, Unsent
<1>6. WakeInv' BY <1>a, <1>n, <1>e, <1>p, <1>r, <1>d DEF WakeInv, Due, Handling
<1>7. TouchedOnlyIfWoken' BY <1>a, <1>n, <1>e, <1>p, <1>r, <1>d DEF TouchedOnlyIfWoken
<1>8. ReturnsWithData' BY <1>a, <1>n, <1>e, <1>p, <1>r, <1>d DEF ReturnsWithData
<1>q. QED BY <1>1, <1>2, <1>3, <1>4, <1>5, <1>6, <1>7, <1>8 DEF RpcIInv

\* ... or no more comes.
LEMMA ReceiveFailsKeeps ==
  ASSUME RpcIInv, ReceiveFails
  PROVE  RpcIInv'
<1>a. /\ RpcTypeOK /\ RpcLabelInv /\ NumbersAreUnique /\ NumberInv /\ ResponseInv /\ WakeInv
      /\ TouchedOnlyIfWoken /\ ReturnsWithData
  BY DEF RpcIInv
<1>n. /\ RpcMaxCalls \in Nat /\ SeqNumber = 1 .. RpcMaxCalls /\ seq \in 0 .. RpcMaxCalls
      /\ RpcThread = RpcCaller \cup {"response_process"} /\ "response_process" \notin RpcCaller
      /\ NoThread \notin RpcCaller
  BY <1>a, RpcAssumption DEF SeqNumber, RpcThread, RpcTypeOK
<1>e. /\ rpPc["response_process"] = "receive"
      /\ seq' = seq /\ msg_table' = msg_table /\ rpMutex' = rpMutex /\ responses' = responses
      /\ req' = req /\ resp' = resp /\ table' = table /\ waiting' = waiting
      /\ filled' = filled /\ rpFreed' = rpFreed /\ early' = early /\ lost' = lost
      /\ woken' = woken /\ returned' = returned /\ touched' = touched
  BY DEF ReceiveFails, RpcGoto, connection, rpcHistory
<1>p. /\ rpPc' = [rpPc EXCEPT !["response_process"] = "ended"]
      /\ \A d \in RpcThread : rpPc'[d] = IF d = "response_process" THEN "ended" ELSE rpPc[d]
  BY <1>a, <1>n DEF ReceiveFails, RpcGoto, RpcTypeOK
<1>1. RpcTypeOK' BY <1>a, <1>n, <1>e, <1>p DEF RpcTypeOK, RpcLabelInv, NumberInv
<1>2. RpcLabelInv' BY <1>a, <1>n, <1>e, <1>p DEF RpcLabelInv, Handling, Asking, Unsent
<1>3. NumbersAreUnique' BY <1>a, <1>n, <1>e, <1>p DEF NumbersAreUnique
<1>4. NumberInv' BY <1>a, <1>n, <1>e, <1>p DEF NumberInv, Asking, Unsent, Handling
<1>5. ResponseInv' BY <1>a, <1>n, <1>e, <1>p DEF ResponseInv, Due, Handling, Unsent
<1>6. WakeInv' BY <1>a, <1>n, <1>e, <1>p DEF WakeInv, Due, Handling
<1>7. TouchedOnlyIfWoken' BY <1>a, <1>n, <1>e, <1>p DEF TouchedOnlyIfWoken
<1>8. ReturnsWithData' BY <1>a, <1>n, <1>e, <1>p DEF ReturnsWithData
<1>q. QED BY <1>1, <1>2, <1>3, <1>4, <1>5, <1>6, <1>7, <1>8 DEF RpcIInv

\* Its request is looked up ...
LEMMA FindKeeps ==
  ASSUME RpcIInv, Find
  PROVE  RpcIInv'
<1>a. /\ RpcTypeOK /\ RpcLabelInv /\ NumbersAreUnique /\ NumberInv /\ ResponseInv /\ WakeInv
      /\ TouchedOnlyIfWoken /\ ReturnsWithData
  BY DEF RpcIInv
<1>n. /\ RpcMaxCalls \in Nat /\ SeqNumber = 1 .. RpcMaxCalls /\ seq \in 0 .. RpcMaxCalls
      /\ RpcThread = RpcCaller \cup {"response_process"} /\ "response_process" \notin RpcCaller
      /\ NoThread \notin RpcCaller
  BY <1>a, RpcAssumption DEF SeqNumber, RpcThread, RpcTypeOK
<1>e. /\ rpPc["response_process"] = "find"
      /\ table' = [table EXCEPT !["response_process"] = msg_table]
      /\ seq' = seq /\ msg_table' = msg_table /\ rpMutex' = rpMutex /\ responses' = responses
      /\ req' = req /\ resp' = resp /\ waiting' = waiting /\ filled' = filled
      /\ rpFreed' = rpFreed /\ early' = early /\ lost' = lost /\ woken' = woken
      /\ returned' = returned /\ touched' = touched
  BY DEF Find, RpcGoto, connection, rpcHistory
<1>p. /\ rpPc' = [rpPc EXCEPT !["response_process"] =
                      (IF resp \in msg_table THEN "delete" ELSE "receive")]
      /\ \A d \in RpcThread :
           rpPc'[d] = IF d = "response_process"
                     THEN (IF resp \in msg_table THEN "delete" ELSE "receive") ELSE rpPc[d]
  BY <1>a, <1>n DEF Find, RpcGoto, RpcTypeOK
<1>1. RpcTypeOK' BY <1>a, <1>n, <1>e, <1>p DEF RpcTypeOK, RpcLabelInv, NumberInv
<1>2. RpcLabelInv' BY <1>a, <1>n, <1>e, <1>p DEF RpcLabelInv, Handling, Asking, Unsent
<1>3. NumbersAreUnique' BY <1>a, <1>n, <1>e, <1>p DEF NumbersAreUnique
<1>4. NumberInv' BY <1>a, <1>n, <1>e, <1>p DEF NumberInv, Asking, Unsent, Handling
<1>5. ResponseInv' BY <1>a, <1>n, <1>e, <1>p DEF ResponseInv, Due, Handling, Unsent
<1>6. WakeInv' BY <1>a, <1>n, <1>e, <1>p DEF WakeInv, Due, Handling
<1>7. TouchedOnlyIfWoken' BY <1>a, <1>n, <1>e, <1>p DEF TouchedOnlyIfWoken
<1>8. ReturnsWithData' BY <1>a, <1>n, <1>e, <1>p DEF ReturnsWithData
<1>q. QED BY <1>1, <1>2, <1>3, <1>4, <1>5, <1>6, <1>7, <1>8 DEF RpcIInv

\* ... and taken from the table.
LEMMA DeleteKeeps ==
  ASSUME RpcIInv, Delete
  PROVE  RpcIInv'
<1>a. /\ RpcTypeOK /\ RpcLabelInv /\ NumbersAreUnique /\ NumberInv /\ ResponseInv /\ WakeInv
      /\ TouchedOnlyIfWoken /\ ReturnsWithData
  BY DEF RpcIInv
<1>n. /\ RpcMaxCalls \in Nat /\ SeqNumber = 1 .. RpcMaxCalls /\ seq \in 0 .. RpcMaxCalls
      /\ RpcThread = RpcCaller \cup {"response_process"} /\ "response_process" \notin RpcCaller
      /\ NoThread \notin RpcCaller
  BY <1>a, RpcAssumption DEF SeqNumber, RpcThread, RpcTypeOK
<1>e. /\ rpPc["response_process"] = "delete"
      /\ msg_table' = table["response_process"] \ {resp}
      /\ lost' = lost \cup (msg_table \ table["response_process"])
      /\ seq' = seq /\ rpMutex' = rpMutex /\ responses' = responses /\ req' = req
      /\ resp' = resp /\ table' = table /\ waiting' = waiting /\ filled' = filled
      /\ rpFreed' = rpFreed /\ early' = early /\ woken' = woken /\ returned' = returned
      /\ touched' = touched
  BY DEF Delete, RpcGoto, rpcHistory
<1>p. /\ rpPc' = [rpPc EXCEPT !["response_process"] = "copy"]
      /\ \A d \in RpcThread : rpPc'[d] = IF d = "response_process" THEN "copy" ELSE rpPc[d]
  BY <1>a, <1>n DEF Delete, RpcGoto, RpcTypeOK
<1>1. RpcTypeOK' BY <1>a, <1>n, <1>e, <1>p DEF RpcTypeOK, RpcLabelInv, NumberInv
<1>2. RpcLabelInv' BY <1>a, <1>n, <1>e, <1>p DEF RpcLabelInv, Handling, Asking, Unsent
<1>3. NumbersAreUnique' BY <1>a, <1>n, <1>e, <1>p DEF NumbersAreUnique
<1>4. NumberInv' BY <1>a, <1>n, <1>e, <1>p DEF NumberInv, Asking, Unsent, Handling
<1>5. ResponseInv' BY <1>a, <1>n, <1>e, <1>p DEF ResponseInv, Due, Handling, Unsent
<1>6. WakeInv' BY <1>a, <1>n, <1>e, <1>p DEF WakeInv, Due, Handling
<1>7. TouchedOnlyIfWoken' BY <1>a, <1>n, <1>e, <1>p DEF TouchedOnlyIfWoken
<1>8. ReturnsWithData' BY <1>a, <1>n, <1>e, <1>p DEF ReturnsWithData
<1>q. QED BY <1>1, <1>2, <1>3, <1>4, <1>5, <1>6, <1>7, <1>8 DEF RpcIInv

\* The data is copied ...
LEMMA CopyDataKeeps ==
  ASSUME RpcIInv, CopyData
  PROVE  RpcIInv'
<1>a. /\ RpcTypeOK /\ RpcLabelInv /\ NumbersAreUnique /\ NumberInv /\ ResponseInv /\ WakeInv
      /\ TouchedOnlyIfWoken /\ ReturnsWithData
  BY DEF RpcIInv
<1>n. /\ RpcMaxCalls \in Nat /\ SeqNumber = 1 .. RpcMaxCalls /\ seq \in 0 .. RpcMaxCalls
      /\ RpcThread = RpcCaller \cup {"response_process"} /\ "response_process" \notin RpcCaller
      /\ NoThread \notin RpcCaller
  BY <1>a, RpcAssumption DEF SeqNumber, RpcThread, RpcTypeOK
<1>e. /\ rpPc["response_process"] = "copy"
      /\ filled' = filled \cup {resp}
      /\ touched' = touched \cup ({resp} \cap rpFreed)
      /\ seq' = seq /\ msg_table' = msg_table /\ rpMutex' = rpMutex /\ responses' = responses
      /\ req' = req /\ resp' = resp /\ table' = table /\ waiting' = waiting
      /\ rpFreed' = rpFreed /\ early' = early /\ lost' = lost /\ woken' = woken
      /\ returned' = returned
  BY DEF CopyData, Touch, RpcGoto, connection
<1>p. /\ rpPc' = [rpPc EXCEPT !["response_process"] = "signal"]
      /\ \A d \in RpcThread : rpPc'[d] = IF d = "response_process" THEN "signal" ELSE rpPc[d]
  BY <1>a, <1>n DEF CopyData, RpcGoto, RpcTypeOK
<1>r. {resp} \cap rpFreed \subseteq woken BY <1>a, <1>e DEF WakeInv, Due, Handling
<1>s. resp \in SeqNumber BY <1>a, <1>n, <1>e DEF NumberInv, Handling
<1>1. RpcTypeOK' BY <1>a, <1>n, <1>e, <1>p, <1>r, <1>s DEF RpcTypeOK, RpcLabelInv, NumberInv
<1>2. RpcLabelInv' BY <1>a, <1>n, <1>e, <1>p, <1>r, <1>s
                   DEF RpcLabelInv, Handling, Asking, Unsent
<1>3. NumbersAreUnique' BY <1>a, <1>n, <1>e, <1>p, <1>r, <1>s DEF NumbersAreUnique
<1>4. NumberInv' BY <1>a, <1>n, <1>e, <1>p, <1>r, <1>s DEF NumberInv, Asking, Unsent, Handling
<1>5. ResponseInv' BY <1>a, <1>n, <1>e, <1>p, <1>r, <1>s DEF ResponseInv, Due, Handling, Unsent
<1>6. WakeInv' BY <1>a, <1>n, <1>e, <1>p, <1>r, <1>s DEF WakeInv, Due, Handling
<1>7. TouchedOnlyIfWoken' BY <1>a, <1>n, <1>e, <1>p, <1>r, <1>s DEF TouchedOnlyIfWoken
<1>8. ReturnsWithData' BY <1>a, <1>n, <1>e, <1>p, <1>r, <1>s DEF ReturnsWithData
<1>q. QED BY <1>1, <1>2, <1>3, <1>4, <1>5, <1>6, <1>7, <1>8 DEF RpcIInv

\* ... and the caller signalled.
LEMMA SignalKeeps ==
  ASSUME RpcIInv, Signal
  PROVE  RpcIInv'
<1>a. /\ RpcTypeOK /\ RpcLabelInv /\ NumbersAreUnique /\ NumberInv /\ ResponseInv /\ WakeInv
      /\ TouchedOnlyIfWoken /\ ReturnsWithData
  BY DEF RpcIInv
<1>n. /\ RpcMaxCalls \in Nat /\ SeqNumber = 1 .. RpcMaxCalls /\ seq \in 0 .. RpcMaxCalls
      /\ RpcThread = RpcCaller \cup {"response_process"} /\ "response_process" \notin RpcCaller
      /\ NoThread \notin RpcCaller
  BY <1>a, RpcAssumption DEF SeqNumber, RpcThread, RpcTypeOK
<1>e. /\ rpPc["response_process"] = "signal"
      /\ waiting' = waiting \ {c \in waiting : req[c] = resp}
      /\ touched' = touched \cup ({resp} \cap rpFreed)
      /\ seq' = seq /\ msg_table' = msg_table /\ rpMutex' = rpMutex /\ responses' = responses
      /\ req' = req /\ resp' = resp /\ table' = table /\ filled' = filled
      /\ rpFreed' = rpFreed /\ lost' = lost /\ woken' = woken /\ returned' = returned
  BY DEF Signal, Touch, Sleeper, RpcGoto, connection
<1>p. /\ rpPc' = [rpPc EXCEPT !["response_process"] = "receive"]
      /\ \A d \in RpcThread : rpPc'[d] = IF d = "response_process" THEN "receive" ELSE rpPc[d]
  BY <1>a, <1>n DEF Signal, RpcGoto, RpcTypeOK
<1>r. {resp} \cap rpFreed \subseteq woken BY <1>a, <1>e DEF WakeInv, Due, Handling
<1>d. \A k \in Nat : Due(k)' <=> k \in responses BY <1>e, <1>p, <1>n DEF Due, Handling
<1>g. /\ resp \in filled /\ resp \notin responses
      /\ \A k \in responses : Due(k)
      /\ \A d \in RpcCaller : req[d] \in Nat /\ rpPc'[d] = rpPc[d]
  BY <1>a, <1>n, <1>e, <1>p DEF ResponseInv, Handling, Due, NumberInv
<1>h. \A d \in RpcCaller : d \notin waiting' => d \notin waiting \/ req[d] = resp BY <1>e
<1>1. RpcTypeOK' BY <1>a, <1>n, <1>e, <1>p, <1>r, <1>d, <1>g, <1>h
                 DEF RpcTypeOK, RpcLabelInv, NumberInv
<1>2. RpcLabelInv' BY <1>a, <1>n, <1>e, <1>p, <1>r, <1>d, <1>g, <1>h
                   DEF RpcLabelInv, Handling, Asking, Unsent
<1>3. NumbersAreUnique' BY <1>a, <1>n, <1>e, <1>p, <1>r, <1>d, <1>g, <1>h DEF NumbersAreUnique
<1>4. NumberInv' BY <1>a, <1>n, <1>e, <1>p, <1>r, <1>d, <1>g, <1>h
                 DEF NumberInv, Asking, Unsent, Handling
<1>5. ResponseInv' BY <1>a, <1>n, <1>e, <1>p, <1>r, <1>d, <1>g, <1>h
                   DEF ResponseInv, Due, Handling, Unsent
<1>6. WakeInv'
  <2>1. \A d \in RpcCaller : rpPc'[d] = "asleep" /\ d \notin waiting' =>
          \/ req[d] \in woken
          \/ req[d] \in filled /\ req[d] \notin responses
    BY <1>a, <1>g, <1>h DEF WakeInv
  <2>2. \A r \in rpFreed : r \in responses => r \in woken BY <1>a, <1>g DEF WakeInv
  <2>3. \A r \in rpFreed : r \in Nat BY <1>a, <1>n DEF NumberInv
  <2>q. QED BY <1>d, <1>e, <1>g, <2>1, <2>2, <2>3 DEF WakeInv
<1>7. TouchedOnlyIfWoken' BY <1>a, <1>n, <1>e, <1>p, <1>r, <1>d, <1>g, <1>h
                          DEF TouchedOnlyIfWoken
<1>8. ReturnsWithData' BY <1>a, <1>n, <1>e, <1>p, <1>r, <1>d, <1>g, <1>h DEF ReturnsWithData
<1>q. QED BY <1>1, <1>2, <1>3, <1>4, <1>5, <1>6, <1>7, <1>8 DEF RpcIInv

\* A caller wakes up by itself.
LEMMA RpcSpuriousWakeupKeeps ==
  ASSUME RpcIInv, RpcSpuriousWakeup
  PROVE  RpcIInv'
<1>a. /\ RpcTypeOK /\ RpcLabelInv /\ NumbersAreUnique /\ NumberInv /\ ResponseInv /\ WakeInv
      /\ TouchedOnlyIfWoken /\ ReturnsWithData
  BY DEF RpcIInv
<1>n. /\ RpcMaxCalls \in Nat /\ SeqNumber = 1 .. RpcMaxCalls /\ seq \in 0 .. RpcMaxCalls
      /\ RpcThread = RpcCaller \cup {"response_process"} /\ "response_process" \notin RpcCaller
      /\ NoThread \notin RpcCaller
  BY <1>a, RpcAssumption DEF SeqNumber, RpcThread, RpcTypeOK
<1>e. /\ \E c \in waiting : waiting' = waiting \ {c} /\ woken' = woken \cup {req[c]}
      /\ woken \subseteq woken'
      /\ seq' = seq /\ msg_table' = msg_table /\ rpMutex' = rpMutex /\ responses' = responses
      /\ req' = req /\ resp' = resp /\ table' = table /\ filled' = filled
      /\ rpFreed' = rpFreed /\ early' = early /\ lost' = lost /\ returned' = returned
      /\ touched' = touched
  BY DEF RpcSpuriousWakeup, connection
<1>p. rpPc' = rpPc BY DEF RpcSpuriousWakeup, connection
<1>1. RpcTypeOK' BY <1>a, <1>n, <1>e, <1>p DEF RpcTypeOK, RpcLabelInv, NumberInv
<1>2. RpcLabelInv' BY <1>a, <1>n, <1>e, <1>p DEF RpcLabelInv, Handling, Asking, Unsent
<1>3. NumbersAreUnique' BY <1>a, <1>n, <1>e, <1>p DEF NumbersAreUnique
<1>4. NumberInv' BY <1>a, <1>n, <1>e, <1>p DEF NumberInv, Asking, Unsent, Handling
<1>5. ResponseInv' BY <1>a, <1>n, <1>e, <1>p DEF ResponseInv, Due, Handling, Unsent
<1>6. WakeInv' BY <1>a, <1>n, <1>e, <1>p DEF WakeInv, Due, Handling
<1>7. TouchedOnlyIfWoken' BY <1>a, <1>n, <1>e, <1>p DEF TouchedOnlyIfWoken
<1>8. ReturnsWithData' BY <1>a, <1>n, <1>e, <1>p DEF ReturnsWithData
<1>q. QED BY <1>1, <1>2, <1>3, <1>4, <1>5, <1>6, <1>7, <1>8 DEF RpcIInv

\* Nothing changes.
LEMMA RpcQuietKeeps == ASSUME RpcIInv, UNCHANGED rpcVars PROVE RpcIInv'
<1>a. /\ RpcTypeOK /\ RpcLabelInv /\ NumbersAreUnique /\ NumberInv /\ ResponseInv /\ WakeInv
      /\ TouchedOnlyIfWoken /\ ReturnsWithData
  BY DEF RpcIInv
<1>e. /\ seq' = seq /\ msg_table' = msg_table /\ rpMutex' = rpMutex /\ responses' = responses
      /\ rpPc' = rpPc /\ req' = req /\ resp' = resp /\ table' = table /\ waiting' = waiting
      /\ filled' = filled /\ rpFreed' = rpFreed /\ woken' = woken /\ returned' = returned
      /\ touched' = touched
  BY DEF rpcVars, connection, rpcHistory
<1>1. RpcTypeOK' BY <1>a, <1>e DEF RpcTypeOK
<1>2. RpcLabelInv' BY <1>a, <1>e DEF RpcLabelInv
<1>3. NumbersAreUnique' /\ NumberInv' BY <1>a, <1>e DEF NumbersAreUnique, NumberInv
<1>4. ResponseInv' BY <1>a, <1>e DEF ResponseInv, Due
<1>5. WakeInv' BY <1>a, <1>e DEF WakeInv, Due
<1>6. TouchedOnlyIfWoken' /\ ReturnsWithData'
  BY <1>a, <1>e DEF TouchedOnlyIfWoken, ReturnsWithData
<1>q. QED BY <1>1, <1>2, <1>3, <1>4, <1>5, <1>6 DEF RpcIInv

\* The start of longhorn-rpc-client.c.
LEMMA RpcStart == RpcInit => RpcIInv
<1> SUFFICES ASSUME RpcInit PROVE RpcIInv OBVIOUS
<1>n. /\ RpcMaxCalls \in Nat /\ RpcThread = RpcCaller \cup {"response_process"}
      /\ "response_process" \notin RpcCaller
  BY RpcAssumption DEF RpcThread
<1>e. /\ seq = 0 /\ msg_table = {} /\ rpMutex = NoThread /\ responses = {}
      /\ req = [c \in RpcCaller |-> 0] /\ resp = 0 /\ table = [t \in RpcThread |-> {}]
      /\ waiting = {} /\ filled = {} /\ rpFreed = {} /\ returned = {} /\ touched = {}
  BY DEF RpcInit
<1>p. /\ rpPc \in [RpcThread -> {"idle", "receive"}] /\ rpPc["response_process"] = "receive"
      /\ \A c \in RpcCaller : rpPc[c] = "idle"
  BY <1>n DEF RpcInit
<1>1. RpcTypeOK BY <1>n, <1>e, <1>p DEF RpcTypeOK
<1>2. RpcLabelInv BY <1>p DEF RpcLabelInv
<1>3. NumbersAreUnique BY <1>e DEF NumbersAreUnique
<1>4. NumberInv BY <1>e, <1>p DEF NumberInv, Asking, Unsent, Handling
<1>5. ResponseInv BY <1>p DEF ResponseInv, Handling, Unsent
<1>6. WakeInv BY <1>e, <1>p DEF WakeInv
<1>7. TouchedOnlyIfWoken /\ ReturnsWithData BY <1>e DEF TouchedOnlyIfWoken, ReturnsWithData
<1>q. QED BY <1>1, <1>2, <1>3, <1>4, <1>5, <1>6, <1>7 DEF RpcIInv

\* For any number of callers and requests, although lock calls are missing: requests have
\* numbers of their own, and one is used after the free, or comes back without its data,
\* only if its caller woke up by itself (longhorn-rpc-client.c, process_request() and
\* response_process()).
THEOREM RequestsAreKept == RpcSpec => []RpcInv
<1>1. ASSUME RpcIInv, [RpcNext]_rpcVars PROVE RpcIInv'
  <2>1. CASE response_process
    BY <1>1, <2>1, ReceiveKeeps, FindKeeps, DeleteKeeps, CopyDataKeeps, SignalKeeps
      DEF response_process
  <2>2. ASSUME NEW c \in RpcCaller, NewRequest(c) \/ process_request(c) \/ RpcSendFails(c)
        PROVE  RpcIInv'
    BY <1>1, <2>2, NewRequestKeeps, AddLoadKeeps, AddStoreKeeps, RpcSendKeeps, WaitKeeps,
       ReturnKeeps, RpcSendFailsKeeps DEF process_request
  <2>3. CASE ReceiveFails BY <1>1, <2>3, ReceiveFailsKeeps
  <2>4. CASE RpcSpuriousWakeup BY <1>1, <2>4, RpcSpuriousWakeupKeeps
  <2>5. CASE UNCHANGED rpcVars BY <1>1, <2>5, RpcQuietKeeps
  <2>6. CASE RpcQuiet BY <2>5, <2>6 DEF RpcQuiet
  <2>q. QED BY <1>1, <2>1, <2>2, <2>3, <2>4, <2>5, <2>6 DEF RpcNext
<1>2. RpcIInv => RpcInv BY DEF RpcIInv, RpcInv
<1>q. QED BY RpcStart, <1>1, <1>2, PTL DEF RpcSpec

(***************************************************************************)
(* con_ser.c: the thread comes to one packet.                              *)
(***************************************************************************)

\* The first turn takes the mutex and begins without a connection; there is no second.
TurnInv ==
  /\ receivePc \in {"lock", "connect", "close", "read", "analyze"}
  /\ turns = IF fdlock = NoThread THEN 0 ELSE 1
  /\ fdlock = NoThread => receivePc = "lock" /\ fd = "-1" /\ disconnect /\ answered = 0
  /\ receivePc = "connect" => fd = "-1" /\ disconnect
  /\ receivePc = "close" => (disconnect <=> fd = "-1")
  /\ answered \in 0 .. 1 /\ (receivePc # "lock" => answered = 0)

ReconnectIInv == ReconnectTypeOK /\ TurnInv /\ OnePacket

\* con_ser.c comes to one packet at most, answers it on an open connection, and waits for
\* fdlock, which it has itself, from its second turn on.
THEOREM OnePacketOnly == ReconnectSpec => []ReconnectInv
<1>1. ReconnectInit => ReconnectIInv
  BY DEF ReconnectInit, ReconnectIInv, ReconnectTypeOK, TurnInv, OnePacket, NoThread
<1>2. ASSUME ReconnectIInv, [ReconnectNext]_reconnectVars PROVE ReconnectIInv'
  <2>a. ReconnectTypeOK /\ TurnInv /\ OnePacket BY <1>2 DEF ReconnectIInv
  <2> USE DEF ReconnectTypeOK, TurnInv, OnePacket, NoThread
  <2>1. CASE LockFd
    <3>1. /\ fdlock = NoThread /\ fdlock' = "receive" /\ receivePc' = "connect"
          /\ turns' = turns + 1 /\ fd' = fd /\ disconnect' = disconnect
          /\ packet' = packet /\ answered' = answered /\ receivePc = "lock"
      BY <2>1 DEF LockFd, Takes, Lock, Goes
    <3>2. fd = "-1" /\ turns = 0 /\ turns' = 1 /\ answered = 0 BY <2>a, <3>1
    <3>3. disconnect BY <2>a, <3>1
    <3>q. QED BY <2>a, <3>1, <3>2, <3>3 DEF ReconnectIInv
  <2>2. CASE connect_ser BY <2>a, <2>2 DEF connect_ser, Goes, ReconnectIInv
  <2>3. CASE CloseOrRead BY <2>a, <2>3 DEF CloseOrRead, Continue, Goes, ReconnectIInv
  <2>4. CASE ReadHeader BY <2>a, <2>4 DEF ReadHeader, Continue, Goes, ReconnectIInv
  <2>5. CASE analyze_ser_packet
    <3>1. /\ receivePc = "analyze" /\ receivePc' = "lock" /\ fd' = fd /\ fdlock' = fdlock
          /\ turns' = turns /\ disconnect' \in BOOLEAN /\ answered' \in {answered, answered + 1}
      BY <2>a, <2>5 DEF analyze_ser_packet, Continue, Goes
    <3>2. answered = 0 /\ fdlock = "receive" /\ turns = 1 BY <2>a, <3>1
    <3>3. answered' \in 0 .. 1 BY <3>1, <3>2
    <3>q. QED BY <2>a, <3>1, <3>2, <3>3 DEF ReconnectIInv
  <2>6. CASE UNCHANGED reconnectVars BY <2>a, <2>6 DEF reconnectVars, ReconnectIInv
  <2>7. CASE Stuck BY <2>6, <2>7 DEF Stuck
  <2>q. QED BY <1>2, <2>1, <2>2, <2>3, <2>4, <2>5, <2>6, <2>7 DEF ReconnectNext, receive_thread
<1>3. ReconnectIInv => ReconnectInv BY DEF ReconnectIInv, ReconnectInv
<1>q. QED BY <1>1, <1>2, <1>3, PTL DEF ReconnectSpec

(***************************************************************************)
(* libudp_splice.c, for any number of users and pairs: who is answered is  *)
(* answered for the pair it has added last.                                *)
(***************************************************************************)

\* Who has sent a request holds the lock, and what the socket holds is for it.
SpliceLockInv ==
  /\ addPc \in [User -> {"idle", "send", "recv"}]
  /\ adds \in [User -> 0 .. MaxAdds] /\ DOMAIN result = User
  /\ spliceLock \in User \cup {NoThread}
  /\ \A t \in User : addPc[t] # "idle" <=> spliceLock = t
  /\ socket # <<>> => /\ spliceLock # NoThread /\ addPc[spliceLock] = "recv"
                      /\ socket = <<<<spliceLock, adds[spliceLock]>>>>

SpliceIInv == SpliceLockInv /\ AnswerToMine

\* A step of a user of libudp_splice.c.
LEMMA AddKeeps ==
  ASSUME SpliceIInv, NEW t \in User, udp_splice_add(t)
  PROVE  SpliceIInv'
<1>a. SpliceLockInv /\ AnswerToMine BY DEF SpliceIInv
<1>n. NoThread \notin User /\ MaxAdds \in Nat BY SpliceAssumption
<1>1. CASE TakeSocket(t)
  <2>e. /\ addPc[t] = "idle" /\ adds[t] < MaxAdds /\ spliceLock = NoThread /\ spliceLock' = t
        /\ adds' = [adds EXCEPT ![t] = @ + 1] /\ addPc' = [addPc EXCEPT ![t] = "send"]
        /\ socket' = socket /\ result' = result
    BY <1>1 DEF TakeSocket, Lock, Go
  <2>0. socket = <<>> BY <1>a, <2>e DEF SpliceLockInv
  <2>1. SpliceLockInv' BY <1>a, <1>n, <2>e, <2>0 DEF SpliceLockInv
  <2>2. AnswerToMine' BY <1>a, <1>n, <2>e, <2>0 DEF SpliceLockInv, AnswerToMine
  <2>q. QED BY <2>1, <2>2 DEF SpliceIInv
<1>2. CASE SendTo(t)
  <2>e. /\ addPc[t] = "send" /\ addPc' = [addPc EXCEPT ![t] = "recv"]
        /\ spliceLock' = spliceLock /\ adds' = adds /\ result' = result
        /\ socket' = Append(socket, <<t, adds[t]>>) \/ socket' = socket
    BY <1>2 DEF SendTo, Go
  <2>0. spliceLock = t /\ socket = <<>> BY <1>a, <1>n, <2>e DEF SpliceLockInv
  <2>s. socket' = <<<<t, adds[t]>>>> \/ socket' = <<>> BY <2>e, <2>0
  <2>1. SpliceLockInv' BY <1>a, <1>n, <2>e, <2>0, <2>s DEF SpliceLockInv
  <2>2. AnswerToMine'
    <3>1. \A u \in User : addPc'[u] = "idle" => addPc[u] = "idle" BY <1>a, <2>e
                                                                  DEF SpliceLockInv
    <3>2. socket' # <<>> => spliceLock' = Head(socket')[1] /\ Len(socket') = 1
      <4>1. /\ Head(<<<<t, adds[t]>>>>) = <<t, adds[t]>> /\ Len(<<<<t, adds[t]>>>>) = 1
            /\ <<t, adds[t]>>[1] = t
        OBVIOUS
      <4>q. QED BY <2>e, <2>0, <2>s, <4>1
    <3>q. QED BY <1>a, <2>e, <3>1, <3>2 DEF AnswerToMine
  <2>q. QED BY <2>1, <2>2 DEF SpliceIInv
<1>3. ASSUME NEW v \in {NoAnswer, <<t, adds[t]>>}, addPc[t] # "idle", Returns(t, v), socket' = <<>>
      PROVE  SpliceIInv'
  <2>e. /\ spliceLock' = NoThread /\ addPc' = [addPc EXCEPT ![t] = "idle"]
        /\ result' = [result EXCEPT ![t] = v] /\ adds' = adds
    BY <1>3 DEF Returns, Unlock, Go
  <2>0. spliceLock = t BY <1>a, <1>3 DEF SpliceLockInv
  <2>1. SpliceLockInv' BY <1>a, <1>n, <1>3, <2>e, <2>0 DEF SpliceLockInv
  <2>2. AnswerToMine' BY <1>a, <1>3, <2>e DEF SpliceLockInv, AnswerToMine
  <2>q. QED BY <2>1, <2>2 DEF SpliceIInv
<1>4. CASE SendFails(t)
  <2>1. addPc[t] = "send" /\ Returns(t, NoAnswer) /\ socket' = socket BY <1>4 DEF SendFails
  <2>2. socket = <<>> BY <1>a, <1>n, <2>1 DEF SpliceLockInv
  <2>q. QED BY <1>3, <2>1, <2>2
<1>5. CASE SocketRecv(t)
  <2>1. addPc[t] = "recv" /\ spliceLock = t BY <1>a, <1>5 DEF SocketRecv, SpliceLockInv
  <2>2. CASE socket = <<>>
    <3>1. Returns(t, NoAnswer) /\ socket' = <<>> BY <1>5, <2>2 DEF SocketRecv
    <3>q. QED BY <1>3, <2>1, <3>1
  <2>3. CASE socket # <<>>
    <3>1. socket = <<<<t, adds[t]>>>> BY <1>a, <2>1, <2>3 DEF SpliceLockInv
    <3>2. Head(socket) = <<t, adds[t]>> /\ Tail(socket) = <<>> BY <3>1
    <3>3. Returns(t, <<t, adds[t]>>) /\ socket' = <<>> BY <1>5, <2>3, <3>2 DEF SocketRecv
    <3>q. QED BY <1>3, <2>1, <3>3
  <2>q. QED BY <2>2, <2>3
<1>q. QED BY <1>1, <1>2, <1>4, <1>5 DEF udp_splice_add

\* For any number of users and pairs: who is answered is answered for the pair it has
\* added last, whatever fails, and no answer stays behind for the next
\* (libudp_splice.c, udp_splice_add()).
THEOREM AnswersAreMine == SpliceSpec => []SpliceInv
<1>1. SpliceInit => SpliceIInv
  <2> SUFFICES ASSUME SpliceInit PROVE SpliceIInv OBVIOUS
  <2>1. SpliceLockInv BY SpliceAssumption DEF SpliceInit, SpliceLockInv
  <2>2. AnswerToMine BY DEF SpliceInit, AnswerToMine
  <2>q. QED BY <2>1, <2>2 DEF SpliceIInv
<1>2. ASSUME SpliceIInv, [SpliceNext]_spliceVars PROVE SpliceIInv'
  <2>1. ASSUME NEW t \in User, udp_splice_add(t) PROVE SpliceIInv' BY <1>2, <2>1, AddKeeps
  <2>2. CASE /\ spliceLock' = spliceLock /\ socket' = socket /\ addPc' = addPc
             /\ adds' = adds /\ result' = result
    BY <1>2, <2>2 DEF SpliceIInv, SpliceLockInv, AnswerToMine
  <2>q. QED BY <1>2, <2>1, <2>2 DEF SpliceNext, udp_splice_open, Finished, spliceVars
<1>3. SpliceIInv => SpliceInv BY DEF SpliceIInv, SpliceLockInv, SpliceInv
<1>q. QED BY <1>1, <1>2, <1>3, PTL DEF SpliceSpec

\* The four programs around sockets: whoever asks gets the answer to its own request, or
\* none, whatever the others ask meanwhile and whatever fails, but that each receive of
\* cfgSock.c that fails makes its later answers one call late (cfgSock.c:30-236,
\* longhorn-rpc-client.c:57-184, con_ser.c:182-299, libudp_splice.c:75-189).
THEOREM ClientsAreSafe ==
  ConfigSpec /\ RpcSpec /\ ReconnectSpec /\ SpliceSpec => []ClientsInv
<1>1. CfgSockInv /\ RpcInv /\ ReconnectInv /\ SpliceInv => ClientsInv BY DEF ClientsInv
<1>q. QED BY CallsAreAnswered, RequestsAreKept, OnePacketOnly, AnswersAreMine, <1>1, PTL
=============================================================================
