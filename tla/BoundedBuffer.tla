--------------------------- MODULE BoundedBuffer ---------------------------
(***************************************************************************)
(* Fixed/NoBug1/05bounded.c: one producer hands a text, character by       *)
(* character, to one consumer through a ring of BSIZE slots.               *)
(*                                                                         *)
(* Item i of the text is the number i + 1, so that two items are never     *)
(* equal and a lost, repeated or reordered item shows; Nul is what the     *)
(* zero-initialised ring holds at first.  The three fields of the ring are *)
(* not updated in one step: occupied++ and occupied-- are a load (with the *)
(* slot access, Put and Take) and a store (Publish), as compiled.          *)
(***************************************************************************)
EXTENDS Pthreads, Sequences

CONSTANTS BSIZE,        \* slots of the ring (4 in the code)
          NUMITEMS,     \* rounds of both loops (30)
          TextLen       \* characters before the first NUL of item (30)

ASSUME SizesAssumption ==
  BSIZE \in Nat \ {0} /\ NUMITEMS \in Nat /\ TextLen \in Nat

Thread == {"producer", "consumer"}
Nul    == 0
Text   == 1 .. NUMITEMS

VARIABLES buf, occupied, nextin, nextout,  \* buffer_t
          mutex, more, less,               \* its mutex and its conditions
          pc,                              \* where each thread is
          i,                               \* the for loop of each thread
          reg,                             \* occupied, as each thread loaded it
          item,                            \* the consumer's local item
          printed,                         \* what the consumer has printed
          main                             \* where main() is

ring    == <<buf, occupied, nextin, nextout>>
sync    == <<mutex, more, less>>
locals  == <<i, reg, item, printed>>
vars    == <<ring, sync, pc, locals, main>>

Goto(t, label) == pc' = [pc EXCEPT ![t] = label]
-----------------------------------------------------------------------------
Init ==
  /\ buf = [s \in 0 .. BSIZE - 1 |-> Nul]
  /\ occupied = 0 /\ nextin = 0 /\ nextout = 0
  /\ mutex = NoThread /\ more = {} /\ less = {}
  /\ pc = [t \in Thread |-> "unborn"]
  /\ i = [t \in Thread |-> 0]
  /\ reg = [t \in Thread |-> 0]
  /\ item = Nul
  /\ printed = <<>>
  /\ main = "create_producer"

Create(t, here, there) ==
  /\ main = here
  /\ main' = there
  /\ Goto(t, "loop")
  /\ UNCHANGED <<ring, sync, locals>>

Join(t, here, there) ==
  /\ main = here /\ pc[t] = "exited"
  /\ main' = there
  /\ UNCHANGED <<ring, sync, pc, locals>>

Main ==
  \/ Create("producer", "create_producer", "create_consumer")
  \/ Create("consumer", "create_consumer", "join_producer")
  \/ Join("producer", "join_producer", "join_consumer")
  \/ Join("consumer", "join_consumer", "returned")
-----------------------------------------------------------------------------
\* The loop condition and, for the producer, the break at the end of the text.
MoreRounds(t) ==
  /\ i[t] < NUMITEMS
  /\ t = "producer" => i[t] < TextLen

\* BUG: the pthread_mutex_lock call left out, as in Faulty/ManyBugs.
BugEnterUnlocked(t) ==
  /\ pc[t] = "loop" /\ MoreRounds(t)
  /\ mutex' = t
  /\ Goto(t, "test")
  /\ UNCHANGED <<ring, more, less, locals, main>>

Enter(t) ==
  /\ pc[t] = "loop" /\ MoreRounds(t)
  /\ Lock(mutex, t)
  /\ Goto(t, "test")
  /\ UNCHANGED <<ring, more, less, locals, main>>

Exit(t) ==
  /\ pc[t] = "loop" /\ ~ MoreRounds(t)
  /\ Goto(t, "exited")
  /\ UNCHANGED <<ring, sync, locals, main>>

Resume(t, cond) ==
  /\ pc[t] = "wait"
  /\ CondResume(cond, mutex, t)
  /\ Goto(t, "test")
  /\ UNCHANGED <<ring, more, less, locals, main>>

Leave(t) ==
  /\ pc[t] = "unlock"
  /\ Unlock(mutex)
  /\ i' = [i EXCEPT ![t] = @ + 1]
  /\ Goto(t, "loop")
  /\ UNCHANGED <<ring, more, less, reg, item, printed, main>>
-----------------------------------------------------------------------------
\* The producer: wait while the ring is full, fill a slot, count it, signal.
\* BUG: one too many.
BugFull == occupied > BSIZE

Full == occupied >= BSIZE

ProducerWait ==
  /\ pc["producer"] = "test" /\ Full
  /\ CondWait(less, mutex, "producer")
  /\ Goto("producer", "wait")
  /\ UNCHANGED <<ring, more, locals, main>>

Put ==
  /\ pc["producer"] = "test" /\ ~ Full
  /\ buf' = [buf EXCEPT ![nextin] = i["producer"] + 1]
  /\ nextin' = (nextin + 1) % BSIZE
  /\ reg' = [reg EXCEPT !["producer"] = occupied]
  /\ Goto("producer", "publish")
  /\ UNCHANGED <<occupied, nextout, sync, i, item, printed, main>>

\* BUG: no signal after the item is counted.
BugProducerPublishSilent ==
  /\ pc["producer"] = "publish"
  /\ occupied' = reg["producer"] + 1
  /\ Goto("producer", "unlock")
  /\ UNCHANGED <<buf, nextin, nextout, sync, locals, main>>

ProducerPublish ==
  /\ pc["producer"] = "publish"
  /\ occupied' = reg["producer"] + 1
  /\ CondSignal(more)
  /\ Goto("producer", "unlock")
  /\ UNCHANGED <<buf, nextin, nextout, mutex, less, locals, main>>

\* The consumer: wait while the ring is empty, empty a slot, count, signal.
ConsumerWait ==
  /\ pc["consumer"] = "test" /\ occupied <= 0
  /\ CondWait(more, mutex, "consumer")
  /\ Goto("consumer", "wait")
  /\ UNCHANGED <<ring, less, locals, main>>

Take ==
  /\ pc["consumer"] = "test" /\ occupied > 0
  /\ item' = buf[nextout]
  /\ nextout' = (nextout + 1) % BSIZE
  /\ reg' = [reg EXCEPT !["consumer"] = occupied]
  /\ Goto("consumer", "publish")
  /\ UNCHANGED <<buf, occupied, nextin, sync, i, printed, main>>

ConsumerPublish ==
  /\ pc["consumer"] = "publish"
  /\ occupied' = reg["consumer"] - 1
  /\ printed' = Append(printed, item)
  /\ CondSignal(less)
  /\ Goto("consumer", "unlock")
  /\ UNCHANGED <<buf, nextin, nextout, mutex, more, i, reg, item, main>>
-----------------------------------------------------------------------------
Producer ==
  \/ Enter("producer") \/ Exit("producer") \/ Leave("producer")
  \/ Resume("producer", less)
  \/ ProducerWait \/ Put \/ ProducerPublish

Consumer ==
  \/ Enter("consumer") \/ Exit("consumer") \/ Leave("consumer")
  \/ Resume("consumer", more)
  \/ ConsumerWait \/ Take \/ ConsumerPublish

SpuriousWakeup ==
  \/ Spurious(more) /\ UNCHANGED <<ring, mutex, less, pc, locals, main>>
  \/ Spurious(less) /\ UNCHANGED <<ring, mutex, more, pc, locals, main>>

\* main() has returned: nothing of the program is left.
Terminated == main = "returned" /\ UNCHANGED vars

Next == Main \/ Producer \/ Consumer \/ SpuriousWakeup \/ Terminated

Spec == Init /\ [][Next]_vars

\* Every thread that can go on does.  Both loops are finite, so neither thread
\* can keep the mutex away from the other for ever, unless it is woken for no
\* reason again and again: sleepers are woken spuriously finitely often.
Fairness ==
  /\ WF_vars(Main) /\ WF_vars(Producer) /\ WF_vars(Consumer)
  /\ <>[][~ SpuriousWakeup]_vars

FairSpec == Spec /\ Fairness
-----------------------------------------------------------------------------
Label == {"unborn", "loop", "test", "wait", "publish", "unlock", "exited"}

\* Every variable has the values the code can give it: the counter stays
\* between empty and full, the indices inside the ring.
TypeOK ==
  /\ buf \in [0 .. BSIZE - 1 -> Text \cup {Nul}]
  /\ occupied \in 0 .. BSIZE
  /\ nextin \in 0 .. BSIZE - 1 /\ nextout \in 0 .. BSIZE - 1
  /\ mutex \in Thread \cup {NoThread}
  /\ more \subseteq {"consumer"} /\ less \subseteq {"producer"}
  /\ pc \in [Thread -> Label]
  /\ i \in [Thread -> 0 .. NUMITEMS]
  /\ reg \in [Thread -> 0 .. BSIZE]
  /\ item \in Text \cup {Nul}
  /\ printed \in Seq(Text)
  /\ main \in {"create_producer", "create_consumer",
               "join_producer", "join_consumer", "returned"}

\* How many items each thread has counted in occupied.
Counted(t) == IF pc[t] = "unlock" THEN i[t] + 1 ELSE i[t]

\* The consumer prints the text from its first character on: nothing is lost,
\* repeated, reordered or read from a slot that was never filled, although the
\* slots, the two indices and the counter are updated in separate steps.
PrintsTheText ==
  /\ Len(printed) = Counted("consumer")
  /\ \A k \in 1 .. Len(printed) : printed[k] = k

\* No wake-up is lost: a thread is asleep only while what it waits for is
\* still so, and therefore the two threads are never both asleep.
SleepIsJustified ==
  /\ "producer" \in less => occupied = BSIZE
  /\ "consumer" \in more => occupied = 0

\* The slots from the oldest counted item on.  Between Take and Publish the
\* consumer has moved nextout but not yet taken the item off the count.
Slot(s, k) == (s + k) % BSIZE

Oldest == IF pc["consumer"] = "publish" THEN Slot(nextout, BSIZE - 1) ELSE nextout

Contents == [k \in 1 .. occupied |-> buf[Slot(Oldest, k - 1)]]

\* The ring is a channel of capacity BSIZE: an item is sent when it is counted
\* and delivered when it is taken off the count.
Channel == INSTANCE FifoChannel
             WITH Item <- Text, Capacity <- BSIZE,
                  channel <- Contents, delivered <- printed

IsAChannel == Channel!Spec

\* main() returns, and it returns after the whole text has been printed.
TextIsDelivered == <>(main = "returned" /\ Len(printed) = NUMITEMS)

\* The safety of the buffer of 05bounded.c: every variable is in range, the text is
\* printed in order and exactly once, and neither thread sleeps through its wake-up.
BufferInv == TypeOK /\ PrintsTheText /\ SleepIsJustified
=============================================================================
