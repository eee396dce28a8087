------------------------------ MODULE Overrun -------------------------------
(***************************************************************************)
(* Two programs whose producer does not wait for the consumer: pc_ocm.c    *)
(* and 06test_pro_con.c.  Each has its own variables, Init, Next and       *)
(* properties; a run moves one of them.                                    *)
(***************************************************************************)
EXTENDS Pthreads

(***************************************************************************)
(* Fixed/NoBug2/pc_ocm.c: a producer copies the on-chip memory of a device *)
(* into memory A and memory B in turn, a consumer processes A and B in     *)
(* turn, 20 times each.  Each memory has a mutex, two flags and two        *)
(* conditions, signalled after the unlock.                                 *)
(*                                                                         *)
(* The producer waits only while the memory is being processed, not while  *)
(* it holds a frame that nobody has processed: it may overwrite frames,    *)
(* and the consumer then waits for frames that never come.  The copy of a  *)
(* frame is two steps, its first and its second half; a frame is the       *)
(* number of its round.  That /dev/mem cannot be opened is left out.       *)
(***************************************************************************)
CONSTANT OcmRounds       \* 20

ASSUME OcmAssumption == OcmRounds \in Nat \ {0}

Memory == {"a", "b"}
OcmThread == {"producer", "consumer"}

VARIABLES mem, ocMutex, is_processing, is_empty, is_ready, isnt_processing,
          ocPc, ocI, at,        \* of each thread: its round, and the memory it is at
          deleted,          \* queueDelete has been called
          processed,        \* history: the last frame processed in each memory
          overwritten       \* history: were frames overwritten?

fifo == <<mem, ocMutex, is_processing, is_empty, is_ready, isnt_processing>>
ocmVars == <<fifo, ocPc, ocI, at, deleted, processed, overwritten>>

OcmInit ==
  /\ mem = [m \in Memory |-> <<0, 0>>] /\ ocMutex = [m \in Memory |-> NoThread]
  /\ is_processing = [m \in Memory |-> FALSE] /\ is_empty = [m \in Memory |-> TRUE]
  /\ is_ready = [m \in Memory |-> {}] /\ isnt_processing = [m \in Memory |-> {}]
  /\ ocPc = [t \in OcmThread |-> "lock"]
  /\ ocI = [t \in OcmThread |-> 1] /\ at = [t \in OcmThread |-> "a"]
  /\ deleted = FALSE /\ processed = [m \in Memory |-> <<0, 0>>] /\ overwritten = FALSE

OcmGoto(t, label) == ocPc' = [ocPc EXCEPT ![t] = label]

\* pthread_cond_signal, on the condition c of memory m.
SignalAt(c, m) ==
  \/ c[m] = {} /\ c' = c
  \/ \E t \in c[m] : c' = [c EXCEPT ![m] = @ \ {t}]

IsLast(t) == ocI[t] = OcmRounds

\* The end of a turn: on to the other memory, or to the next round.
NextTurn(t) ==
  /\ at' = [at EXCEPT ![t] = IF @ = "a" THEN "b" ELSE "a"]
  /\ ocI' = [ocI EXCEPT ![t] = IF at[t] = "b" THEN @ + 1 ELSE @]
  /\ OcmGoto(t, IF at[t] = "b" /\ IsLast(t) THEN "ended" ELSE "lock")
-----------------------------------------------------------------------------
\* BUG: the mutex is given back before the frame is copied.
BugHolder == NoThread

Holder == "producer"

\* The wait for isnt_processing is left out: NeverSeenProcessing says why.
ProducerEnter(m) ==
  /\ at["producer"] = m /\ ocPc["producer"] = "lock"
  /\ ocMutex[m] = NoThread /\ ~ is_processing[m]
  /\ ocMutex' = [ocMutex EXCEPT ![m] = Holder]
  /\ is_empty' = [is_empty EXCEPT ![m] = FALSE]
  /\ overwritten' = (overwritten \/ ~ is_empty[m])
  /\ mem' = [mem EXCEPT ![m][1] = ocI["producer"]]
  /\ OcmGoto("producer", "copying")
  /\ UNCHANGED <<is_processing, is_ready, isnt_processing, ocI, at, deleted, processed>>

ProducerLeave(m) ==
  /\ at["producer"] = m /\ ocPc["producer"] = "copying"
  /\ mem' = [mem EXCEPT ![m][2] = ocI["producer"]]
  /\ ocMutex' = [ocMutex EXCEPT ![m] = NoThread]
  /\ OcmGoto("producer", "signal")
  /\ UNCHANGED <<is_processing, is_empty, is_ready, isnt_processing, ocI, at, deleted,
                 processed, overwritten>>

ProducerSignal(m) ==
  /\ at["producer"] = m /\ ocPc["producer"] = "signal"
  /\ SignalAt(is_ready, m) /\ NextTurn("producer")
  /\ UNCHANGED <<mem, ocMutex, is_processing, is_empty, isnt_processing, deleted,
                 processed, overwritten>>

producer == \E m \in Memory : ProducerEnter(m) \/ ProducerLeave(m) \/ ProducerSignal(m)
-----------------------------------------------------------------------------
\* Lock, or come back from the wait; wait while there is nothing, or process it.
ConsumerEnter(m) ==
  /\ at["consumer"] = m /\ ocPc["consumer"] \in {"lock", "asleep"}
  /\ "consumer" \notin is_ready[m] /\ ocMutex[m] = NoThread
  /\ IF is_empty[m]
       THEN /\ is_ready' = [is_ready EXCEPT ![m] = @ \cup {"consumer"}]
            /\ OcmGoto("consumer", "asleep") /\ UNCHANGED <<ocMutex, is_processing>>
       ELSE /\ ocMutex' = [ocMutex EXCEPT ![m] = "consumer"]
            /\ is_processing' = [is_processing EXCEPT ![m] = TRUE]
            /\ OcmGoto("consumer", "processing") /\ UNCHANGED is_ready
  /\ UNCHANGED <<mem, is_empty, isnt_processing, ocI, at, deleted, processed, overwritten>>

ConsumerLeave(m) ==
  /\ at["consumer"] = m /\ ocPc["consumer"] = "processing"
  /\ processed' = [processed EXCEPT ![m] = mem[m]]
  /\ is_processing' = [is_processing EXCEPT ![m] = FALSE]
  /\ is_empty' = [is_empty EXCEPT ![m] = TRUE]
  /\ ocMutex' = [ocMutex EXCEPT ![m] = NoThread]
  /\ OcmGoto("consumer", "signal")
  /\ UNCHANGED <<mem, is_ready, isnt_processing, ocI, at, deleted, overwritten>>

ConsumerSignal(m) ==
  /\ at["consumer"] = m /\ ocPc["consumer"] = "signal"
  /\ SignalAt(isnt_processing, m) /\ NextTurn("consumer")
  /\ UNCHANGED <<mem, ocMutex, is_processing, is_empty, is_ready, deleted, processed, overwritten>>

consumer == \E m \in Memory : ConsumerEnter(m) \/ ConsumerLeave(m) \/ ConsumerSignal(m)

OcmSpuriousWakeup ==
  /\ \E m \in Memory : is_ready[m] # {} /\ is_ready' = [is_ready EXCEPT ![m] = {}]
  /\ UNCHANGED <<mem, ocMutex, is_processing, is_empty, isnt_processing, ocPc, ocI, at,
                 deleted, processed, overwritten>>
-----------------------------------------------------------------------------
queueDelete ==
  /\ \A t \in OcmThread : ocPc[t] = "ended"
  /\ ~ deleted /\ deleted' = TRUE
  /\ UNCHANGED <<fifo, ocPc, ocI, at, processed, overwritten>>

\* main() has returned, or waits for a consumer that waits for another frame.
Starved == ocPc["producer"] = "ended" /\ \E m \in Memory : is_ready[m] # {}

OcmStopped == (deleted \/ Starved) /\ UNCHANGED ocmVars

OcmNext == producer \/ consumer \/ OcmSpuriousWakeup \/ queueDelete \/ OcmStopped

OcmSpec == OcmInit /\ [][OcmNext]_ocmVars

OcmFairSpec == OcmSpec /\ WF_ocmVars(producer) /\ WF_ocmVars(consumer) /\ WF_ocmVars(queueDelete)
-----------------------------------------------------------------------------
OcmTypeOK ==
  /\ mem \in [Memory -> (0 .. OcmRounds) \X (0 .. OcmRounds)]
  /\ processed \in [Memory -> (0 .. OcmRounds) \X (0 .. OcmRounds)]
  /\ ocMutex \in [Memory -> OcmThread \cup {NoThread}]
  /\ is_processing \in [Memory -> BOOLEAN] /\ is_empty \in [Memory -> BOOLEAN]
  /\ is_ready \in [Memory -> SUBSET OcmThread] /\ isnt_processing \in [Memory -> SUBSET OcmThread]
  /\ ocPc \in [OcmThread -> {"lock", "asleep", "copying", "processing", "signal", "ended"}]
  /\ ocI \in [OcmThread -> 1 .. OcmRounds + 1] /\ at \in [OcmThread -> Memory]
  /\ deleted \in BOOLEAN /\ overwritten \in BOOLEAN

\* What is processed is one frame, not half of one and half of the next.
FramesAreWhole == \A m \in Memory : processed[m][1] = processed[m][2]

\* No frame is processed twice, or after a later one, in the same memory.
FramesInOrder ==
  [][\A m \in Memory : ConsumerLeave(m) => processed'[m][1] > processed[m][1]]_ocmVars

\* The flag the producer tests is never set when it looks: it is taken back before
\* the mutex is, and the producer never waits for the consumer.
NeverSeenProcessing == \A m \in Memory : is_processing[m] => ocMutex[m] = "consumer"

\* The consumer does not sleep through a frame, although it is signalled after the
\* unlock.
OcmSleepIsJustified ==
  \A m \in Memory : is_ready[m] # {} /\ ~ is_empty[m] =>
    at["producer"] = m /\ ocPc["producer"] \in {"copying", "signal"}

\* main() returns, unless a frame has been overwritten.
EndsUnlessOverwritten == <>(deleted \/ (overwritten /\ ocPc["producer"] = "ended"))

\* The safety of pc_ocm.c: the consumer sees whole frames and sleeps through none, and
\* the producer never meets it in the middle of one.
OcmInv == OcmTypeOK /\ FramesAreWhole /\ NeverSeenProcessing /\ OcmSleepIsJustified
-----------------------------------------------------------------------------

(***************************************************************************)
(* 06test_pro_con.c: a producer counts data up once a round, and signals   *)
(* when it has unlocked; a consumer counts it down to 0 in each of its     *)
(* rounds.  Both have the same number of rounds, so that a consumer who    *)
(* has taken more than one at a time waits at the end for data that does   *)
(* not come.                                                               *)
(***************************************************************************)
CONSTANTS CON_INIT_VAL,   \* data at first (3 in the code)
          ProConRounds          \* of each thread (a bound; 100)

ASSUME ProConAssumption == CON_INIT_VAL \in Nat /\ ProConRounds \in Nat \ {0}

VARIABLES data, pcMutex, pcCond, handler,
          left,           \* i of each thread
          produced, eaten \* in all

proConVars == <<data, pcMutex, pcCond, handler, left, produced, eaten>>

ProConInit ==
  /\ data = CON_INIT_VAL /\ pcMutex = NoThread /\ pcCond = {}
  /\ handler = [pro |-> "lock", con |-> "lock"]
  /\ left = [pro |-> ProConRounds, con |-> ProConRounds]
  /\ produced = 0 /\ eaten = 0

Go(t, place) == handler' = [handler EXCEPT ![t] = place]

EndOfRound(t) ==
  /\ left' = [left EXCEPT ![t] = @ - 1] /\ Go(t, IF left[t] = 1 THEN "done" ELSE "lock")

ProTakes == pcMutex = NoThread

\* The critical section of pro_handler() has nothing to wait for.
Produce ==
  /\ handler.pro = "lock" /\ ProTakes /\ data' = data + 1 /\ produced' = produced + 1
  /\ Go("pro", "signal") /\ UNCHANGED <<pcMutex, pcCond, left, eaten>>

Signal ==
  /\ handler.pro = "signal" /\ CondSignal(pcCond) /\ EndOfRound("pro")
  /\ UNCHANGED <<data, pcMutex, produced, eaten>>

pro_handler == Produce \/ Signal

ConLocks ==
  /\ \/ handler.con = "lock" /\ Lock(pcMutex, "con")
     \/ handler.con = "wait" /\ CondResume(pcCond, pcMutex, "con")
  /\ Go("con", "look") /\ UNCHANGED <<data, pcCond, left, produced, eaten>>

FindsNothing ==
  /\ handler.con = "look" /\ data = 0 /\ Go("con", "sleep")
  /\ UNCHANGED <<data, pcMutex, pcCond, left, produced, eaten>>

ConWaits ==
  /\ handler.con = "sleep" /\ CondWait(pcCond, pcMutex, "con") /\ Go("con", "wait")
  /\ UNCHANGED <<data, left, produced, eaten>>

Consume ==
  /\ handler.con \in {"look", "eat"} /\ data > 0 /\ data' = data - 1 /\ eaten' = eaten + 1
  /\ Go("con", "eat") /\ UNCHANGED <<pcMutex, pcCond, left, produced>>

ConEnds ==
  /\ handler.con = "eat" /\ data = 0 /\ Unlock(pcMutex) /\ EndOfRound("con")
  /\ UNCHANGED <<data, pcCond, produced, eaten>>

con_handler == ConLocks \/ FindsNothing \/ ConWaits \/ Consume \/ ConEnds

ProConSpuriousWakeup ==
  Spurious(pcCond) /\ UNCHANGED <<data, pcMutex, handler, left, produced, eaten>>

\* main() has joined both, or waits for a consumer whom nobody wakes.
Hangs   == handler.pro = "done" /\ "con" \in pcCond
ProConStopped == (Hangs \/ handler = [pro |-> "done", con |-> "done"]) /\ UNCHANGED proConVars

ProConNext == pro_handler \/ con_handler \/ ProConSpuriousWakeup \/ ProConStopped

ProConSpec ==
  /\ ProConInit /\ [][ProConNext]_proConVars
  /\ SF_proConVars(pro_handler) /\ WF_proConVars(con_handler)
-----------------------------------------------------------------------------
ProConTypeOK == data \in Nat /\ pcMutex \in {"con", NoThread} /\ pcCond \subseteq {"con"}

\* The consumer takes what is there when it has locked and nothing else, and sleeps before
\* data only if the signal is still to come, although that is sent without the mutex.
NothingIsMissed ==
  /\ data = CON_INIT_VAL + produced - eaten
  /\ pcCond # {} /\ data > 0 => handler.pro = "signal"
  /\ handler.con \in {"look", "eat"} => pcMutex = "con"

\* It hangs in the end only when it has eaten everything; a consumer that ends has taken
\* something in each round, and leaves no more than there was at first.
LeftOver ==
  /\ Hangs => data = 0 /\ left.con > 0
  /\ handler.con = "done" => eaten >= ProConRounds /\ data <= CON_INIT_VAL

\* The safety of 06test_pro_con.c.
ProConInv == ProConTypeOK /\ NothingIsMissed /\ LeftOver

\* The safety of the two programs whose producer never waits.
OverrunInv == OcmInv /\ ProConInv

\* Everything is eaten as long as the consumer has rounds.
DataIsEaten == []<>(data = 0 \/ handler.con = "done")
=============================================================================
