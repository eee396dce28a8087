------------------------ MODULE BoundedBufferProofs ------------------------
(***************************************************************************)
(* For every ring size and every text: TypeOK, PrintsTheText and           *)
(* SleepIsJustified are invariants of BoundedBuffer, and the ring is a     *)
(* FifoChannel.                                                            *)
(***************************************************************************)
EXTENDS BoundedBuffer, SequenceTheorems, TLAPS

Inside == {"test", "publish", "unlock"}

\* A thread is inside exactly when it owns the mutex, and asleep or on its way
\* back only when it waits.
LockInv ==
  /\ \A t \in Thread : pc[t] \in Inside <=> mutex = t
  /\ "producer" \in less => pc["producer"] = "wait"
  /\ "consumer" \in more => pc["consumer"] = "wait"

\* A thread that has begun a round has a round to do, and what it has loaded
\* of the counter is still the counter.
RoundInv ==
  /\ \A t \in Thread : pc[t] \in {"test", "wait", "publish", "unlock"}
                          => i[t] < NUMITEMS
  /\ \A t \in Thread : pc[t] = "publish" => reg[t] = occupied
  /\ pc["producer"] = "publish" => occupied < BSIZE
  /\ pc["consumer"] = "publish" => /\ occupied > 0
                                   /\ item = i["consumer"] + 1

\* The slots filled from the oldest counted item on: the counted ones and the
\* one the producer is about to count.
Filled == IF pc["producer"] = "publish" THEN occupied + 1 ELSE occupied

\* The n slots of b from s on hold the items c + 1, c + 2, ...
Holds(b, s, n, c) == \A k \in 0 .. n - 1 : b[Slot(s, k)] = c + k + 1

RingInv ==
  /\ occupied = Counted("producer") - Counted("consumer")
  /\ nextin = Slot(Oldest, Filled)
  /\ Holds(buf, Oldest, Filled, Counted("consumer"))

\* main() starts a thread once, and outlives both.
MainInv ==
  /\ main = "create_producer" => \A t \in Thread : pc[t] = "unborn"
  /\ main = "create_consumer" => pc["consumer"] = "unborn"
  /\ main = "join_consumer" => pc["producer"] = "exited"
  /\ main = "returned" => \A t \in Thread : pc[t] = "exited"

IInv == /\ TypeOK /\ MainInv /\ LockInv /\ RoundInv /\ RingInv
        /\ SleepIsJustified /\ PrintsTheText
-----------------------------------------------------------------------------
\* Stepping through the ring without the modulus.
LEMMA SlotIs ==
  ASSUME NEW s \in 0 .. BSIZE - 1, NEW k \in 0 .. BSIZE
  PROVE  /\ Slot(s, k) = IF s + k < BSIZE THEN s + k ELSE s + k - BSIZE
         /\ Slot(s, k) \in 0 .. BSIZE - 1
  BY SizesAssumption DEF Slot

\* Moving the oldest slot on by one, and counting one more filled slot.
LEMMA SlotMoves ==
  ASSUME NEW s \in 0 .. BSIZE - 1, NEW k \in 0 .. BSIZE - 1
  PROVE  /\ Slot(Slot(s, 1), k) = Slot(s, k + 1)
         /\ Slot(Slot(s, k), 1) = Slot(s, k + 1)
         /\ Slot(Slot(s, 1), BSIZE - 1) = s
         /\ Slot(s, 0) = s
<1> DEFINE one == Slot(s, 1)  at == Slot(s, k)
<1>1. 1 \in 0 .. BSIZE /\ k + 1 \in 0 .. BSIZE /\ k \in 0 .. BSIZE
      /\ BSIZE - 1 \in 0 .. BSIZE /\ 0 \in 0 .. BSIZE
  BY SizesAssumption
<1>2. /\ one = IF s + 1 < BSIZE THEN s + 1 ELSE s + 1 - BSIZE
      /\ one \in 0 .. BSIZE - 1
  BY <1>1, SlotIs
<1>3. /\ at = IF s + k < BSIZE THEN s + k ELSE s + k - BSIZE
      /\ at \in 0 .. BSIZE - 1
  BY <1>1, SlotIs
<1>4. Slot(s, k + 1) = IF s + (k + 1) < BSIZE THEN s + (k + 1)
                       ELSE s + (k + 1) - BSIZE
  BY <1>1, SlotIs
<1>5. Slot(s, 0) = s
  BY SizesAssumption DEF Slot
<1> HIDE DEF one, at
<1>6. Slot(one, k) = IF one + k < BSIZE THEN one + k ELSE one + k - BSIZE
  BY <1>1, <1>2, SlotIs
<1>7. Slot(at, 1) = IF at + 1 < BSIZE THEN at + 1 ELSE at + 1 - BSIZE
  BY <1>1, <1>3, SlotIs
<1>8. Slot(one, BSIZE - 1) = s
  <2>1. Slot(one, BSIZE - 1) = IF one + (BSIZE - 1) < BSIZE THEN one + (BSIZE - 1)
                                 ELSE one + (BSIZE - 1) - BSIZE
    BY <1>1, <1>2, SlotIs
  <2> QED BY <2>1, <1>2, SizesAssumption
<1>9. Slot(one, k) = Slot(s, k + 1)
  BY <1>2, <1>4, <1>6, SizesAssumption
<1>10. Slot(at, 1) = Slot(s, k + 1)
  BY <1>3, <1>4, <1>7, SizesAssumption
<1> QED
  BY <1>5, <1>8, <1>9, <1>10 DEF one, at

\* Two different filled slots are different slots.
LEMMA SlotInjective ==
  ASSUME NEW s \in 0 .. BSIZE - 1,
         NEW j \in 0 .. BSIZE - 1, NEW k \in 0 .. BSIZE - 1,
         Slot(s, j) = Slot(s, k)
  PROVE  j = k
<1>1. j \in 0 .. BSIZE /\ k \in 0 .. BSIZE
  BY SizesAssumption
<1>2. Slot(s, j) = IF s + j < BSIZE THEN s + j ELSE s + j - BSIZE
  BY <1>1, SlotIs
<1>3. Slot(s, k) = IF s + k < BSIZE THEN s + k ELSE s + k - BSIZE
  BY <1>1, SlotIs
<1>4. (IF s + j < BSIZE THEN s + j ELSE s + j - BSIZE)
      = (IF s + k < BSIZE THEN s + k ELSE s + k - BSIZE)
  BY <1>2, <1>3
<1> QED
  BY <1>4, SizesAssumption
\* Filling the slot behind the items that begin at slot s.
LEMMA RingFill ==
  ASSUME NEW s \in 0 .. BSIZE - 1, NEW n \in 0 .. BSIZE - 1, NEW c \in Nat,
         NEW b \in [0 .. BSIZE - 1 -> Nat], Holds(b, s, n, c)
  PROVE  Holds([b EXCEPT ![Slot(s, n)] = c + n + 1], s, n + 1, c)
<1> SUFFICES ASSUME NEW k \in 0 .. (n + 1) - 1
             PROVE  [b EXCEPT ![Slot(s, n)] = c + n + 1][Slot(s, k)] = c + k + 1
  BY DEF Holds
<1>1. n \in 0 .. BSIZE /\ k \in 0 .. BSIZE /\ k \in 0 .. BSIZE - 1
  BY SizesAssumption
<1>2. Slot(s, k) \in 0 .. BSIZE - 1 /\ Slot(s, n) \in 0 .. BSIZE - 1
  BY <1>1, SlotIs
<1>3. CASE k = n
  BY <1>2, <1>3
<1>4. CASE k # n
  <2>1. Slot(s, k) # Slot(s, n)
    BY <1>1, <1>4, SlotInjective
  <2>2. k \in 0 .. n - 1
    BY <1>4, SizesAssumption
  <2> QED
    BY <1>2, <2>1, <2>2 DEF Holds
<1> QED
  BY <1>3, <1>4

\* Dropping the first of the items that begin at slot s.
LEMMA RingDrop ==
  ASSUME NEW s \in 0 .. BSIZE - 1, NEW n \in 1 .. BSIZE, NEW c \in Nat, NEW b,
         Holds(b, s, n, c)
  PROVE  b[s] = c + 1 /\ Holds(b, Slot(s, 1), n - 1, c + 1)
<1>1. b[s] = c + 1
  <2>1. b[Slot(s, 0)] = c + 0 + 1
    BY DEF Holds
  <2>2. 0 \in 0 .. BSIZE - 1 /\ Slot(s, 0) = s
    BY SizesAssumption, SlotMoves
  <2> QED
    BY <2>1, <2>2
<1>2. ASSUME NEW k \in 0 .. (n - 1) - 1
      PROVE  b[Slot(Slot(s, 1), k)] = (c + 1) + k + 1
  <2>1. k \in 0 .. BSIZE - 1 /\ k + 1 \in 0 .. n - 1
    BY SizesAssumption
  <2>2. Slot(Slot(s, 1), k) = Slot(s, k + 1)
    BY <2>1, SlotMoves
  <2>3. b[Slot(s, k + 1)] = c + (k + 1) + 1
    BY <2>1 DEF Holds
  <2> QED
    BY <2>2, <2>3
<1> QED
  BY <1>1, <1>2 DEF Holds
-----------------------------------------------------------------------------
\* The empty ring and the two threads that main() has not started yet.
LEMMA InitInv == Init => IInv
<1> SUFFICES ASSUME Init PROVE IInv
  OBVIOUS
<1> USE SizesAssumption DEF Init, Thread, Nul, Text, NoThread
<1>1. TypeOK
  <2>1. buf \in [0 .. BSIZE - 1 -> Text \cup {Nul}]
    OBVIOUS
  <2>2. /\ occupied \in 0 .. BSIZE
        /\ nextin \in 0 .. BSIZE - 1 /\ nextout \in 0 .. BSIZE - 1
    OBVIOUS
  <2>3. printed \in Seq(Text)
    OBVIOUS
  <2>4. i \in [Thread -> 0 .. NUMITEMS] /\ reg \in [Thread -> 0 .. BSIZE]
    OBVIOUS
  <2> QED
    BY <2>1, <2>2, <2>3, <2>4 DEF TypeOK, Label
<1>2. MainInv /\ LockInv
  BY DEF MainInv, LockInv, Inside
<1>3. RoundInv /\ SleepIsJustified
  BY DEF RoundInv, SleepIsJustified
<1>4. RingInv
  <2>1. Oldest = 0 /\ Filled = 0 /\ Counted("producer") = 0 /\ Counted("consumer") = 0
    BY DEF Oldest, Filled, Counted
  <2>2. Slot(0, 0) = 0
    BY SlotIs
  <2> QED
    BY <2>1, <2>2 DEF RingInv, Holds
<1>5. PrintsTheText
  BY DEF PrintsTheText, Counted
<1> QED
  BY <1>1, <1>2, <1>3, <1>4, <1>5 DEF IInv
-----------------------------------------------------------------------------

\* Every step keeps the invariant.  Only the steps that touch the ring need
\* the lemmas about slots; the others move a thread or the mutex.
LEMMA StepInv == IInv /\ [Next]_vars => IInv'
<1> SUFFICES ASSUME IInv, [Next]_vars PROVE IInv'
  OBVIOUS
<1> USE SizesAssumption
    DEF IInv, Thread, Goto, ring, sync, locals,
        LockInv, RoundInv, MainInv, SleepIsJustified, Inside
<1>1. CASE Main
  <2>1. TypeOK'
    BY <1>1 DEF TypeOK, Label, Main, Create, Join
  <2>2. RingInv'
    BY <1>1 DEF TypeOK, RingInv, Oldest, Filled, Counted, Main, Create, Join
  <2> QED
    BY SMTT(30), <1>1, <2>1, <2>2 DEF TypeOK, PrintsTheText, Counted, Main, Create, Join
<1>2. ASSUME NEW t \in Thread, Enter(t) PROVE IInv'
  <2>1. TypeOK'
    BY <1>2 DEF TypeOK, Label, Enter, MoreRounds, Lock, NoThread
  <2>2. RingInv'
    BY <1>2 DEF TypeOK, RingInv, Oldest, Filled, Counted, Enter, MoreRounds, Lock, NoThread
  <2> QED
    BY <1>2, <2>1, <2>2 DEF TypeOK, PrintsTheText, Counted, Enter, MoreRounds, Lock, NoThread
<1>3. ASSUME NEW t \in Thread, Exit(t) PROVE IInv'
  <2>1. TypeOK'
    BY <1>3 DEF TypeOK, Label, Exit
  <2>2. RingInv'
    BY <1>3 DEF TypeOK, RingInv, Oldest, Filled, Counted, Exit
  <2> QED
    BY <1>3, <2>1, <2>2 DEF TypeOK, PrintsTheText, Counted, Exit
<1>4. ASSUME NEW t \in Thread, Leave(t) PROVE IInv'
  <2>1. TypeOK'
    BY <1>4 DEF TypeOK, Label, Leave, Unlock, NoThread
  <2>2. RingInv'
    BY <1>4 DEF TypeOK, RingInv, Oldest, Filled, Counted, Leave, Unlock, NoThread
  <2> QED
    BY <1>4, <2>1, <2>2 DEF TypeOK, PrintsTheText, Counted, Leave, Unlock, NoThread
<1>5. CASE Resume("producer", less)
  <2>1. TypeOK'
    BY <1>5 DEF TypeOK, Label, Resume, CondResume, NoThread
  <2>2. RingInv'
    BY <1>5 DEF TypeOK, RingInv, Oldest, Filled, Counted, Resume, CondResume, NoThread
  <2> QED
    BY <1>5, <2>1, <2>2 DEF TypeOK, PrintsTheText, Counted, Resume, CondResume, NoThread
<1>6. CASE Resume("consumer", more)
  <2>1. TypeOK'
    BY <1>6 DEF TypeOK, Label, Resume, CondResume, NoThread
  <2>2. RingInv'
    BY <1>6 DEF TypeOK, RingInv, Oldest, Filled, Counted, Resume, CondResume, NoThread
  <2> QED
    BY <1>6, <2>1, <2>2 DEF TypeOK, PrintsTheText, Counted, Resume, CondResume, NoThread
<1>7. CASE ProducerWait
  <2>1. TypeOK'
    BY <1>7 DEF TypeOK, Label, ProducerWait, Full, CondWait, NoThread
  <2>2. RingInv'
    BY <1>7 DEF TypeOK, RingInv, Oldest, Filled, Counted, ProducerWait, Full, CondWait, NoThread
  <2> QED
    BY <1>7, <2>1, <2>2 DEF TypeOK, PrintsTheText, Counted, ProducerWait, Full, CondWait, NoThread
<1>8. CASE ConsumerWait
  <2>1. TypeOK'
    BY <1>8 DEF TypeOK, Label, ConsumerWait, CondWait, NoThread
  <2>2. RingInv'
    BY <1>8 DEF TypeOK, RingInv, Oldest, Filled, Counted, ConsumerWait, CondWait, NoThread
  <2> QED
    BY <1>8, <2>1, <2>2 DEF TypeOK, PrintsTheText, Counted, ConsumerWait, CondWait, NoThread
<1>9. CASE SpuriousWakeup
  <2>1. TypeOK'
    BY <1>9 DEF TypeOK, Label, SpuriousWakeup, Spurious
  <2>2. RingInv'
    BY <1>9 DEF TypeOK, RingInv, Oldest, Filled, Counted, SpuriousWakeup, Spurious
  <2> QED
    BY <1>9, <2>1, <2>2 DEF TypeOK, PrintsTheText, Counted, SpuriousWakeup, Spurious
<1>10. CASE UNCHANGED vars
  <2>1. TypeOK'
    BY <1>10 DEF TypeOK, Label, vars
  <2>2. RingInv'
    BY <1>10 DEF TypeOK, RingInv, Oldest, Filled, Counted, vars
  <2> QED
    BY <1>10, <2>1, <2>2 DEF TypeOK, PrintsTheText, Counted, vars
<1>11. CASE Put
  <2>1. /\ pc["producer"] = "test" /\ pc'["producer"] = "publish"
        /\ pc["consumer"] \notin Inside /\ pc'["consumer"] = pc["consumer"]
        /\ i["producer"] < NUMITEMS /\ occupied < BSIZE
    BY <1>11 DEF TypeOK, Put, Full
  <2>2. /\ Oldest' = nextout /\ Oldest = nextout
        /\ Filled = occupied /\ Filled' = occupied + 1
        /\ Counted("producer")' = i["producer"] /\ Counted("producer") = i["producer"]
        /\ Counted("consumer")' = Counted("consumer")
    BY <1>11, <2>1 DEF TypeOK, Put, Oldest, Filled, Counted
  <2>3. nextin = Slot(nextout, occupied) /\ nextin' = Slot(nextin, 1)
    BY <1>11, <2>2 DEF Put, RingInv, Slot
  <2>4. TypeOK'
    <3>1. nextin' \in 0 .. BSIZE - 1
      BY <2>3, SlotIs DEF TypeOK
    <3> QED
      BY SMTT(30), <1>11, <2>1, <3>1 DEF TypeOK, Label, Put, Text
  <2>5. RingInv'
    <3>1. nextin' = Slot(nextout, occupied + 1)
      BY <2>1, <2>3, SlotMoves DEF TypeOK
    <3>2. /\ Counted("consumer") \in Nat
          /\ Counted("consumer") + occupied + 1 = i["producer"] + 1
      <4>1. Counted("consumer") \in Nat
        BY DEF TypeOK, Counted
      <4>2. occupied = i["producer"] - Counted("consumer")
        BY <2>2 DEF RingInv
      <4>3. i["producer"] \in Nat
        BY DEF TypeOK
      <4> QED
        BY <4>1, <4>2, <4>3
    <3>3. Holds(buf', nextout, occupied + 1, Counted("consumer"))
      <4>1. buf \in [0 .. BSIZE - 1 -> Nat]
        BY DEF TypeOK, Text, Nul
      <4>2. buf' = [buf EXCEPT ![Slot(nextout, occupied)] = Counted("consumer") + occupied + 1]
        BY <1>11, <2>3, <3>2 DEF Put
      <4>3. occupied \in 0 .. BSIZE - 1 /\ nextout \in 0 .. BSIZE - 1
        BY <2>1 DEF TypeOK
      <4>4. Holds(buf, nextout, occupied, Counted("consumer"))
        BY <2>2 DEF RingInv
      <4> QED
        BY <3>2, <4>1, <4>2, <4>3, <4>4, RingFill
    <3> QED
      BY <1>11, <2>2, <3>1, <3>3 DEF RingInv, Put
  <2> QED
    BY <1>11, <2>1, <2>2, <2>4, <2>5 DEF TypeOK, Put, PrintsTheText
<1>12. CASE ProducerPublish
  <2>1. TypeOK'
    <3>1. occupied' \in 0 .. BSIZE
      BY <1>12 DEF TypeOK, ProducerPublish
    <3>2. more' \subseteq {"consumer"}
      BY <1>12 DEF TypeOK, ProducerPublish, CondSignal
    <3> QED
      BY <1>12, <3>1, <3>2 DEF TypeOK, Label, ProducerPublish
  <2>2. RingInv'
    BY <1>12 DEF TypeOK, RingInv, Oldest, Filled, Counted, ProducerPublish
  <2> QED
    BY <1>12, <2>1, <2>2 DEF TypeOK, ProducerPublish, CondSignal, PrintsTheText, Counted
<1>13. CASE Take
  <2>1. /\ pc["consumer"] = "test" /\ pc'["consumer"] = "publish"
        /\ pc["producer"] \notin Inside /\ pc'["producer"] = pc["producer"]
        /\ i["consumer"] < NUMITEMS /\ occupied > 0
    BY <1>13 DEF TypeOK, Take
  <2>2. nextout' = Slot(nextout, 1) /\ Slot(nextout, 1) \in 0 .. BSIZE - 1
    BY <1>13, SlotIs DEF TypeOK, Take, Slot
  <2>3. /\ Oldest' = Slot(Slot(nextout, 1), BSIZE - 1) /\ Oldest = nextout
        /\ Filled = occupied /\ Filled' = occupied
        /\ Counted("producer")' = Counted("producer")
        /\ Counted("consumer")' = i["consumer"] /\ Counted("consumer") = i["consumer"]
    BY <1>13, <2>1, <2>2 DEF TypeOK, Take, Oldest, Filled, Counted, Slot
  <2>4. Oldest' = nextout
    BY <2>3, SlotMoves DEF TypeOK
  <2>5. item' = i["consumer"] + 1
    <3>1. buf[nextout] = Counted("consumer") + 1
      BY <2>1, <2>3, RingDrop DEF TypeOK, RingInv
    <3> QED
      BY <1>13, <2>3, <3>1 DEF Take
  <2>6. TypeOK'
    BY <1>13, <2>1, <2>2, <2>5 DEF TypeOK, Label, Take, Text
  <2>7. RingInv'
    BY <1>13, <2>3, <2>4 DEF RingInv, Take
  <2> QED
    BY <1>13, <2>1, <2>3, <2>5, <2>6, <2>7 DEF TypeOK, Take, PrintsTheText
<1>14. CASE ConsumerPublish
  <2>1. /\ pc["consumer"] = "publish" /\ pc'["consumer"] = "unlock"
        /\ pc["producer"] \notin Inside /\ pc'["producer"] = pc["producer"]
        /\ i["consumer"] < NUMITEMS /\ occupied \in 1 .. BSIZE
        /\ occupied' = occupied - 1 /\ item = i["consumer"] + 1
    BY <1>14 DEF TypeOK, ConsumerPublish
  <2>2. /\ Oldest = Slot(nextout, BSIZE - 1) /\ Oldest' = nextout
        /\ Filled = occupied /\ Filled' = occupied - 1
        /\ Counted("producer")' = Counted("producer")
        /\ Counted("consumer")' = i["consumer"] + 1 /\ Counted("consumer") = i["consumer"]
    BY <1>14, <2>1 DEF TypeOK, ConsumerPublish, Oldest, Filled, Counted
  <2>3. Slot(Oldest, 1) = nextout /\ Oldest \in 0 .. BSIZE - 1
    BY <2>2, SlotIs, SlotMoves, SizesAssumption DEF TypeOK
  <2>4. TypeOK'
    <3>1. less' \subseteq {"producer"}
      BY <1>14 DEF TypeOK, ConsumerPublish, CondSignal
    <3>2. printed' \in Seq(Text)
      BY <1>14, <2>1 DEF TypeOK, ConsumerPublish, Text
    <3> QED
      BY <1>14, <2>1, <3>1, <3>2 DEF TypeOK, Label, ConsumerPublish
  <2>5. RingInv'
    <3>1. Holds(buf, nextout, occupied - 1, i["consumer"] + 1)
      BY SMTT(30), <2>1, <2>2, <2>3, RingDrop DEF RingInv, TypeOK
    <3>2. nextin = Slot(nextout, occupied - 1)
      BY <2>1, <2>2, <2>3, SlotMoves DEF RingInv
    <3>3. occupied' = Counted("producer")' - Counted("consumer")'
      <4>1. occupied = Counted("producer") - i["consumer"]
        BY <2>2 DEF RingInv
      <4>2. Counted("producer") \in Nat /\ i["consumer"] \in Nat
        BY DEF TypeOK, Counted
      <4> QED
        BY <2>1, <2>2, <4>1, <4>2
    <3> QED
      BY <1>14, <2>1, <2>2, <3>1, <3>2, <3>3 DEF RingInv, ConsumerPublish
  <2>6. PrintsTheText'
    BY <1>14, <2>1, <2>2 DEF PrintsTheText, TypeOK, ConsumerPublish
  <2> QED
    BY <1>14, <2>1, <2>4, <2>5, <2>6 DEF TypeOK, ConsumerPublish, CondSignal
<1> QED
  BY <1>1, <1>2, <1>3, <1>4, <1>5, <1>6, <1>7, <1>8, <1>9, <1>10, <1>11,
     <1>12, <1>13, <1>14 DEF Next, Producer, Consumer, Terminated
-----------------------------------------------------------------------------
\* The inductive invariant: where the producer and the consumer are, and what of the text
\* the ring holds there (05bounded.c:57-135).
THEOREM Invariance == Spec => []IInv
<1>1. IInv /\ [Next]_vars => IInv'
  BY StepInv
<1> QED
  BY InitInv, <1>1, PTL DEF Spec

\* Every variable keeps its type; in particular the counter never leaves
\* 0 .. BSIZE and no index leaves the ring (05bounded.c:71-80, 110-119).
THEOREM TypeCorrect == Spec => []TypeOK
<1>1. IInv => TypeOK
  BY DEF IInv
<1> QED
  BY Invariance, <1>1, PTL

\* The consumer prints a prefix of the text, nothing lost or repeated
\* (05bounded.c:65-91, 106-130).
THEOREM PrintsTheTextAlways == Spec => []PrintsTheText
<1>1. IInv => PrintsTheText
  BY DEF IInv
<1> QED
  BY Invariance, <1>1, PTL

\* Nobody sleeps through the moment it waits for (05bounded.c:71-75, 86,
\* 110-114, 125).
THEOREM SleepIsJustifiedAlways == Spec => []SleepIsJustified
<1>1. IInv => SleepIsJustified
  BY DEF IInv
<1> QED
  BY Invariance, <1>1, PTL
-----------------------------------------------------------------------------
\* The items c + 1 .. c + n in a row.
Row(c, n) == [k \in 1 .. n |-> c + k]

\* A row of consecutive numbers is a sequence of its length.
LEMMA RowIsASeq ==
  ASSUME NEW c \in Nat, NEW n \in Nat
  PROVE  Row(c, n) \in Seq(Nat) /\ Len(Row(c, n)) = n
<1>1. Row(c, n) \in [1 .. n -> Nat]
  BY DEF Row
<1>2. Row(c, n) \in Seq(Nat)
  BY <1>1, SeqDef
<1> QED
  BY <1>2, LenProperties DEF Row

\* Sending the next number makes the row longer by one.
LEMMA RowGrows ==
  ASSUME NEW c \in Nat, NEW n \in Nat
  PROVE  Append(Row(c, n), c + n + 1) = Row(c, n + 1)
<1> DEFINE r == Row(c, n)  x == c + n + 1
<1>1. r \in Seq(Nat) /\ Len(r) = n
  BY RowIsASeq
<1>2. Row(c, n + 1) \in Seq(Nat) /\ Len(Row(c, n + 1)) = n + 1
  BY RowIsASeq
<1>3. x \in Nat
  OBVIOUS
<1>4. /\ \A k \in 1 .. n : r[k] = c + k
      /\ \A k \in 1 .. n + 1 : Row(c, n + 1)[k] = c + k
  BY DEF Row
<1> HIDE DEF r, x
<1>5. /\ Append(r, x) \in Seq(Nat) /\ Len(Append(r, x)) = n + 1
      /\ \A k \in 1 .. n : Append(r, x)[k] = r[k]
      /\ Append(r, x)[n + 1] = x
  BY <1>1, <1>3, AppendProperties
<1>6. ASSUME NEW k \in 1 .. n + 1 PROVE Append(r, x)[k] = Row(c, n + 1)[k]
  <2>1. CASE k \in 1 .. n
    BY <1>4, <1>5, <2>1
  <2>2. CASE k = n + 1
    <3>1. Append(r, x)[k] = c + n + 1
      BY <1>5, <2>2 DEF x
    <3>2. Row(c, n + 1)[k] = c + k
      BY <1>4
    <3> QED
      BY <2>2, <3>1, <3>2
  <2>3. k \in 1 .. n \/ k = n + 1
    OBVIOUS
  <2> QED
    BY <2>1, <2>2, <2>3
<1>7. Append(r, x) = Row(c, n + 1)
  BY <1>2, <1>5, <1>6, SeqEqual
<1> QED
  BY <1>7 DEF r, x

\* Receiving takes the first number of a row.
LEMMA RowShrinks ==
  ASSUME NEW c \in Nat, NEW n \in Nat \ {0}
  PROVE  /\ Row(c, n) # <<>>
         /\ Head(Row(c, n)) = c + 1
         /\ Tail(Row(c, n)) = Row(c + 1, n - 1)
<1> DEFINE r == Row(c, n)
<1>1. r \in Seq(Nat) /\ Len(r) = n
  BY RowIsASeq
<1>2. Row(c + 1, n - 1) \in Seq(Nat) /\ Len(Row(c + 1, n - 1)) = n - 1
  BY RowIsASeq
<1>3. /\ \A k \in 1 .. n : r[k] = c + k
      /\ \A k \in 1 .. n - 1 : Row(c + 1, n - 1)[k] = (c + 1) + k
  BY DEF Row
<1> HIDE DEF r
<1>4. r # <<>> /\ Head(r) = c + 1
  BY <1>1, <1>3, EmptySeq
<1>5. /\ Tail(r) \in Seq(Nat) /\ Len(Tail(r)) = n - 1
      /\ \A k \in 1 .. n - 1 : Tail(r)[k] = r[k + 1]
  BY <1>1, <1>4, HeadTailProperties
<1>6. ASSUME NEW k \in 1 .. n - 1 PROVE Tail(r)[k] = Row(c + 1, n - 1)[k]
  BY <1>3, <1>5
<1>7. Tail(r) = Row(c + 1, n - 1)
  BY <1>2, <1>5, <1>6, SeqEqual
<1> QED
  BY <1>4, <1>7 DEF r

\* What the refinement mapping makes of the ring.
IsARow == /\ Counted("consumer") \in Nat /\ occupied \in Nat
          /\ Contents = Row(Counted("consumer"), occupied)

\* What lies in the ring is the row of numbers that the consumer has not counted yet.
LEMMA ContentsIsARow == IInv => IsARow
<1> SUFFICES ASSUME IInv PROVE IsARow
  OBVIOUS
<1>1. Counted("consumer") \in Nat /\ occupied \in Nat /\ Filled \in Nat
  BY DEF IInv, TypeOK, Counted, Filled, Thread
<1>2. ASSUME NEW k \in 1 .. occupied
      PROVE  buf[Slot(Oldest, k - 1)] = Counted("consumer") + k
  <2>1. k - 1 \in 0 .. Filled - 1
    BY <1>1 DEF Filled
  <2>2. buf[Slot(Oldest, k - 1)] = Counted("consumer") + (k - 1) + 1
    BY <2>1 DEF IInv, RingInv, Holds
  <2> QED
    BY <1>1, <2>2
<1> QED
  BY <1>1, <1>2 DEF IsARow, Contents, Row

\* The steps of the code that the channel sees, and those it does not.
LEMMA StepsOfTheChannel ==
  ASSUME IInv, [Next]_vars
  PROVE  \/ /\ occupied' = occupied + 1 /\ occupied < BSIZE
            /\ Counted("consumer") + occupied + 1 \in Text
            /\ Counted("consumer")' = Counted("consumer") /\ printed' = printed
         \/ /\ occupied' = occupied - 1 /\ occupied > 0
            /\ Counted("consumer")' = Counted("consumer") + 1
            /\ printed' = Append(printed, Counted("consumer") + 1)
         \/ /\ occupied' = occupied /\ printed' = printed
            /\ Counted("consumer")' = Counted("consumer")
<1> USE DEF IInv, Thread, Goto, ring, sync, locals
<1>1. CASE ProducerPublish
  <2>1. /\ pc["producer"] = "publish" /\ i["producer"] \in 0 .. NUMITEMS - 1
        /\ reg["producer"] = occupied /\ occupied \in Nat /\ occupied < BSIZE
    BY <1>1, SizesAssumption DEF ProducerPublish, TypeOK, RoundInv
  <2>2. /\ Counted("producer") = i["producer"] /\ Counted("consumer") \in Nat
        /\ Counted("consumer")' = Counted("consumer")
    BY <1>1, <2>1 DEF ProducerPublish, TypeOK, Counted
  <2>3. Counted("consumer") + occupied + 1 = i["producer"] + 1
    BY <2>1, <2>2 DEF RingInv
  <2> QED
    BY <1>1, <2>1, <2>2, <2>3, SizesAssumption DEF ProducerPublish, Text
<1>2. CASE ConsumerPublish
  BY <1>2 DEF ConsumerPublish, TypeOK, RoundInv, RingInv, Counted, Text
<1>3. CASE \/ Main \/ SpuriousWakeup \/ UNCHANGED vars \/ ProducerWait
           \/ ConsumerWait \/ Put \/ Take
           \/ \E t \in Thread : Enter(t) \/ Exit(t) \/ Leave(t)
           \/ Resume("producer", less) \/ Resume("consumer", more)
  BY <1>3 DEF Main, Create, Join, SpuriousWakeup, vars, ProducerWait,
              ConsumerWait, Put, Take, Enter, Exit, Leave, Resume, Counted,
              TypeOK, MainInv, RoundInv
<1> QED
  BY <1>1, <1>2, <1>3 DEF Next, Producer, Consumer, Terminated

\* The ring with its mutex, its counter and its two conditions implements a
\* first-in first-out channel of BSIZE items (05bounded.c:57-135).
THEOREM ImplementsAChannel == Spec => IsAChannel
<1>1. Init => Channel!Init
  <2> SUFFICES ASSUME Init PROVE Channel!Init
    OBVIOUS
  <2>1. occupied = 0 /\ printed = <<>>
    BY DEF Init
  <2>2. Contents = <<>>
    BY <2>1 DEF Contents
  <2> QED
    BY <2>1, <2>2 DEF Channel!Init
<1>2. IInv' => IsARow'
  BY ContentsIsARow, PTL
<1>3. IInv /\ IInv' /\ [Next]_vars => [Channel!Next]_(Channel!vars)
  <2> SUFFICES ASSUME IInv, IInv', [Next]_vars
               PROVE  [Channel!Next]_(Channel!vars)
    OBVIOUS
  <2> DEFINE c == Counted("consumer")
  <2>1. c \in Nat /\ occupied \in Nat /\ Contents = Row(c, occupied)
    BY ContentsIsARow DEF IsARow
  <2>2. Contents' = Row(c', occupied')
    BY <1>2 DEF IsARow
  <2>3. Len(Row(c, occupied)) = occupied
    BY <2>1, RowIsASeq
  <2> HIDE DEF c
  <2>4. CASE /\ occupied' = occupied + 1 /\ occupied < BSIZE
             /\ c + occupied + 1 \in Text
             /\ c' = c /\ printed' = printed
    <3>1. Contents' = Append(Contents, c + occupied + 1)
      <4>1. Append(Row(c, occupied), c + occupied + 1) = Row(c, occupied + 1)
        BY <2>1, RowGrows
      <4> QED
        BY <2>1, <2>2, <2>4, <4>1
    <3>2. Len(Contents) < BSIZE
      BY <2>1, <2>3, <2>4
    <3>3. Channel!Send(c + occupied + 1)
      BY <2>4, <3>1, <3>2 DEF Channel!Send
    <3> QED
      BY <2>4, <3>3 DEF Channel!Next
  <2>5. CASE /\ occupied' = occupied - 1 /\ occupied > 0
             /\ c' = c + 1
             /\ printed' = Append(printed, c + 1)
    <3>1. /\ Contents # <<>> /\ Head(Contents) = c + 1
          /\ Tail(Contents) = Row(c + 1, occupied - 1)
      <4>1. occupied \in Nat \ {0}
        BY <2>1, <2>5
      <4> QED
        BY <2>1, <4>1, RowShrinks
    <3>2. Channel!Deliver
      BY <2>2, <2>5, <3>1 DEF Channel!Deliver
    <3> QED
      BY <3>2 DEF Channel!Next
  <2>6. CASE occupied' = occupied /\ printed' = printed /\ c' = c
    BY <2>1, <2>2, <2>6 DEF Channel!vars
  <2> QED
    BY <2>4, <2>5, <2>6, StepsOfTheChannel DEF c
<1> QED
  BY Invariance, <1>1, <1>3, PTL DEF Spec, IsAChannel, Channel!Spec

\* The safety of 05bounded.c as a whole, for every size of the ring and every text.
THEOREM BufferIsSafe == Spec => []BufferInv
  BY TypeCorrect, PrintsTheTextAlways, SleepIsJustifiedAlways, PTL DEF BufferInv
=============================================================================
