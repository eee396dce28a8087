--------------------------- MODULE BarriersProofs ---------------------------
(***************************************************************************)
(* Proofs about the programs whose threads go round together: the table of *)
(* philosophers.c, the plate of hot_plate_barriers.c and the memory        *)
(* barriers of test-membarrier-shared.c.                                   *)
(***************************************************************************)
EXTENDS Philosophers, HotPlate, Membarrier, FiniteSetTheorems, WellFoundedInduction, TLAPS

(***************************************************************************)
(* Proofs about Philosophers, for every table of two philosophers or more. *)
(*                                                                         *)
(* The argument: f records exactly who holds which fork (Ownership), which *)
(* keeps neighbours apart.  Whoever waits with a fork in hand waits for a  *)
(* fork with a higher number, so that the member of a waiting group that   *)
(* waits for the highest fork has nobody in the group to wait for.         *)
(***************************************************************************)

Holds(p, k) ==
  \/ phPc[p] = "one_fork" /\ k = First(p)
  \/ phPc[p] \in {"two_forks", "eaten"} /\ k \in {Left(p), Right(p)}
  \/ phPc[p] = "right_fork" /\ k = Right(p)

Ownership == \A k \in Fork, p \in Phil : f[k] = p <=> Holds(p, k)

Fed == \A p \in Phil : phPc[p] \in {"one_fork", "two_forks"} => hungerOfPhylosophs[p] > 0

TableIInv == TableTypeOK /\ Ownership /\ Fed
-----------------------------------------------------------------------------
\* What the two forks of a philosopher are, in a table of two or more.
LEMMA ForkNumbers ==
  ASSUME N >= 2, NEW p \in Phil
  PROVE  /\ Left(p) \in Fork /\ Right(p) \in Fork /\ Left(p) # Right(p)
         /\ First(p) \in {Left(p), Right(p)} /\ Second(p) \in {Left(p), Right(p)}
         /\ First(p) # Second(p)
         /\ {First(p), Second(p)} = {Left(p), Right(p)}
         /\ First(p) < Second(p)
         /\ p # 0 => First(p) = p - 1 /\ Second(p) = p
         /\ p = 0 => First(p) = 0 /\ Second(p) = N - 1
  BY TableAssumption DEF Phil, Fork, Left, Right, First, Second

\* At first all forks lie on the table and everybody is hungry.
LEMMA TableInitInv == N >= 2 /\ TableInit => TableIInv
  BY TableAssumption
  DEF TableInit, TableIInv, TableTypeOK, Ownership, Fed, Holds, Phil, Fork, Nobody

\* Every step of meal() keeps the record of who holds which fork.
LEMMA TableStepInv == N >= 2 /\ TableIInv /\ [TableNext]_tableVars => TableIInv'
<1> SUFFICES ASSUME N >= 2, TableIInv, [TableNext]_tableVars PROVE TableIInv'
  OBVIOUS
<1> USE TableAssumption DEF TableIInv, TableGoto, Take, Put
<1>0. Nobody \notin Phil
  BY DEF Nobody, Phil
<1>1. ASSUME NEW p \in Phil, TakeFirst(p) PROVE TableIInv'
  <2>1. TableTypeOK'
    BY <1>1, ForkNumbers DEF TableTypeOK, TakeFirst
  <2>2. Ownership'
    BY <1>0, <1>1, ForkNumbers DEF TableTypeOK, TakeFirst, Ownership, Holds
  <2>3. Fed'
    BY <1>1 DEF TableTypeOK, TakeFirst, Fed
  <2> QED  BY <2>1, <2>2, <2>3
<1>2. ASSUME NEW p \in Phil, TakeSecond(p) PROVE TableIInv'
  <2>1. TableTypeOK'
    BY <1>2, ForkNumbers DEF TableTypeOK, TakeSecond
  <2>2. Ownership'
    BY <1>0, <1>2, ForkNumbers DEF TableTypeOK, TakeSecond, Ownership, Holds
  <2>3. Fed'
    BY <1>2 DEF TableTypeOK, TakeSecond, Fed
  <2> QED  BY <2>1, <2>2, <2>3
<1>3. ASSUME NEW p \in Phil, Eat(p) PROVE TableIInv'
  <2>1. TableTypeOK'
    BY <1>3 DEF TableTypeOK, Eat, Fed
  <2>2. Ownership'
    BY <1>3 DEF TableTypeOK, Eat, Ownership, Holds
  <2>3. Fed'
    BY <1>3 DEF TableTypeOK, Eat, Fed
  <2> QED  BY <2>1, <2>2, <2>3
<1>4. ASSUME NEW p \in Phil, PutLeft(p) PROVE TableIInv'
  <2>1. TableTypeOK'
    BY <1>4, ForkNumbers DEF TableTypeOK, PutLeft
  <2>2. Ownership'
    BY <1>0, <1>4, ForkNumbers DEF TableTypeOK, PutLeft, Ownership, Holds
  <2>3. Fed'
    BY <1>4 DEF TableTypeOK, PutLeft, Fed
  <2> QED  BY <2>1, <2>2, <2>3
<1>5. ASSUME NEW p \in Phil, PutRight(p) PROVE TableIInv'
  <2>1. TableTypeOK'
    BY <1>5, ForkNumbers DEF TableTypeOK, PutRight
  <2>2. Ownership'
    BY <1>0, <1>5, ForkNumbers DEF TableTypeOK, PutRight, Ownership, Holds
  <2>3. Fed'
    BY <1>5 DEF TableTypeOK, PutRight, Fed
  <2> QED  BY <2>1, <2>2, <2>3
<1>6. ASSUME NEW p \in Phil, Finish(p) PROVE TableIInv'
  BY <1>6 DEF TableTypeOK, Finish, Ownership, Holds, Fed
<1>7. CASE UNCHANGED tableVars
  BY <1>7 DEF tableVars, TableTypeOK, Ownership, Holds, Fed
<1> QED
  BY <1>1, <1>2, <1>3, <1>4, <1>5, <1>6, <1>7 DEF TableNext, meal, TableTerminated

\* The record of who holds which fork is right at all times.
LEMMA TableInvariance == N >= 2 => (TableSpec => []TableIInv)
<1>1. N >= 2 /\ TableInit => TableIInv
  BY TableInitInv
<1>2. N >= 2 /\ TableIInv /\ [TableNext]_tableVars => TableIInv'
  BY TableStepInv
<1> SUFFICES ASSUME N >= 2 PROVE TableSpec => []TableIInv
  OBVIOUS
<1>3. TableInit => TableIInv
  BY <1>1
<1>4. TableIInv /\ [TableNext]_tableVars => TableIInv'
  BY <1>2
<1> QED
  BY <1>3, <1>4, PTL DEF TableSpec
-----------------------------------------------------------------------------
\* The hunger never falls below zero and every fork is owned by one
\* philosopher or by nobody.
THEOREM TableTypeCorrect == N >= 2 => (TableSpec => []TableTypeOK)
<1>1. TableIInv => TableTypeOK
  BY DEF TableIInv
<1> QED
  BY <1>1, TableInvariance, PTL

\* The mutexes of meal() keep philosophers who share a fork apart.
THEOREM NeighboursApart == N >= 2 => (TableSpec => []NeighboursDoNotEatTogether)
<1>1. N >= 2 /\ TableIInv => NeighboursDoNotEatTogether
  <2> SUFFICES ASSUME N >= 2, TableIInv, NEW p \in Phil, NEW q \in Phil, p # q,
                      NEW k \in {Left(p), Right(p)}, k \in {Left(q), Right(q)},
                      Eating(p), Eating(q)
               PROVE  FALSE
    BY DEF NeighboursDoNotEatTogether
  <2>1. k \in Fork
    BY ForkNumbers
  <2>2. f[k] = p /\ f[k] = q
    BY <2>1 DEF TableIInv, Ownership, Holds, Eating
  <2> QED
    BY <2>2
<1> SUFFICES ASSUME N >= 2 PROVE TableSpec => []NeighboursDoNotEatTogether
  OBVIOUS
<1>2. TableIInv => NeighboursDoNotEatTogether
  BY <1>1
<1> QED
  BY <1>2, TableInvariance, PTL
-----------------------------------------------------------------------------
\* A set of numbers below n that is not empty has a greatest element.
LEMMA Greatest ==
  ASSUME NEW n \in Nat, NEW T, T \subseteq 0 .. n, T # {}
  PROVE  \E x \in T : \A y \in T : y <= x
<1> DEFINE R == OpToRel(<, Nat)
           D == {n - x : x \in T}
<1> HIDE DEF R
<1>1. D \subseteq Nat /\ D # {}
  <2>1. PICK x \in T : TRUE
    OBVIOUS
  <2>2. n - x \in D
    BY <2>1
  <2>3. \A y \in T : n - y \in Nat
    BY SMT
  <2> QED  BY <2>2, <2>3
<1>2. \E d \in D : \A e \in D : ~ (<<e, d>> \in R)
  <2> HIDE DEF D
  <2> QED  BY <1>1, NatLessThanWellFounded, WFMin DEF R
<1>3. PICK d \in D : \A e \in D : ~ (<<e, d>> \in R)
  BY <1>2
<1>4. \A e \in D : ~ (e < d)
  BY <1>1, <1>3 DEF R, OpToRel
<1> QED
  BY <1>4

\* A member of a waiting group owns the fork that another one waits for, so
\* it waits with one fork in hand, for a higher one.
LEMMA WaitsForAHigherFork ==
  ASSUME N >= 2, TableIInv, NEW S \in SUBSET Phil, \A p \in S : WaitsIn(p, S), S # {}
  PROVE  /\ \E q \in S : phPc[q] = "one_fork"
         /\ \A q \in S : phPc[q] = "one_fork" =>
              \E r \in S : phPc[r] = "one_fork" /\ First(r) = Second(q)
<1>1. ASSUME NEW q \in S, NEW k \in Fork, f[k] \in S
      PROVE  phPc[f[k]] = "one_fork" /\ First(f[k]) = k
  BY <1>1 DEF TableIInv, Ownership, Holds, WaitsIn
<1>2. ASSUME NEW q \in S, phPc[q] = "one_fork"
      PROVE  \E r \in S : phPc[r] = "one_fork" /\ First(r) = Second(q)
  BY <1>1, <1>2, ForkNumbers DEF WaitsIn
<1>3. \E q \in S : phPc[q] = "one_fork"
  BY <1>1, ForkNumbers DEF WaitsIn
<1> QED
  BY <1>2, <1>3

\* Deadlock freedom: taking philosopher 0's forks the other way round is
\* enough for every table of two or more.
THEOREM NobodyWaitsInACircle == N >= 2 => (TableSpec => []NoCircularWait)
<1>1. N >= 2 /\ TableIInv => NoCircularWait
  <2> SUFFICES ASSUME N >= 2, TableIInv, NEW S \in SUBSET Phil, S # {},
                      \A p \in S : WaitsIn(p, S)
               PROVE  FALSE
    BY DEF NoCircularWait
  <2> DEFINE T == {Second(q) : q \in {s \in S : phPc[s] = "one_fork"}}
  <2>1. T # {} /\ T \subseteq 0 .. N - 1
    BY WaitsForAHigherFork, ForkNumbers DEF Fork
  <2>2. PICK x \in T : \A y \in T : y <= x
    <3> HIDE DEF T
    <3>1. N - 1 \in Nat
      BY TableAssumption
    <3> QED  BY <2>1, <3>1, Greatest
  <2>3. PICK q \in S : phPc[q] = "one_fork" /\ Second(q) = x
    BY <2>2
  <2>4. PICK r \in S : phPc[r] = "one_fork" /\ First(r) = Second(q)
    BY <2>3, WaitsForAHigherFork
  <2>5. Second(r) \in T /\ Second(r) > x /\ Second(r) \in Int /\ x \in Int
    BY <2>1, <2>3, <2>4, ForkNumbers DEF Fork
  <2> QED
    BY <2>2, <2>5
<1> SUFFICES ASSUME N >= 2 PROVE TableSpec => []NoCircularWait
  OBVIOUS
<1>2. TableIInv => NoCircularWait
  BY <1>1
<1> QED
  BY <1>2, TableInvariance, PTL

\* The safety of philosophers.c as a whole, for every table of two or more and every
\* hunger.
THEOREM TableIsSafe == N >= 2 => (TableSpec => []TableInv)
  BY TableTypeCorrect, NeighboursApart, NobodyWaitsInACircle, PTL DEF TableInv
-----------------------------------------------------------------------------
(***************************************************************************)
(* For every number of rows, of workers and of iterations, every locking   *)
(* and every first plate: the threads of hot_plate_barriers.c relax the    *)
(* plate as one thread would, if the rows that belong to nobody are        *)
(* locked; and whatever rows there are, no worker uses a plate that main() *)
(* has freed.                                                              *)
(***************************************************************************)

\* Where the workers and main() can be.
PlaceInv ==
  /\ \A w \in Worker : pc[w] \in {"unborn", "first", "in_first", "update", "second", "in_second"}
  /\ pc[Main] \in {"create", "iterate", "first", "in_first", "second", "in_second", "copy",
                   "clean_up", "free", "hung", "returned"}
  /\ freed <=> pc[Main] = "returned"

\* Who has arrived at a barrier is in it.
BarrierInv ==
  /\ \A t \in barrier_first  : pc[t] = "in_first"
  /\ \A t \in barrier_second : pc[t] = "in_second"

\* A round has two halves: from the moment the first barrier opens until the second does,
\* and from there until the first opens again.  Whoever has not noticed yet is still in
\* the one that has opened; the other one fills up.
Updating ==
  \A t \in Thread : \/ pc[t] = "in_first" /\ t \notin barrier_first
                    \/ pc[t] \in {"update", "second"}
                    \/ t \in barrier_second
Copying ==
  \A t \in Thread : \/ pc[t] = "in_second" /\ t \notin barrier_second
                    \/ pc[t] \in {"unborn", "create", "iterate", "copy", "clean_up", "free",
                                  "hung", "returned", "first"}
                    \/ t \in barrier_first
RoundInv == Updating \/ Copying

\* Both plates have all the rows.
WholeInv == /\ main_plate = [r \in Row |-> main_plate[r]]
            /\ main_prev_plate = [r \in Row |-> main_prev_plate[r]]

\* steady() is asked at most MaxIterations times.
IterationsInv == pc[Main] \in {"create", "iterate"} => iterations < MaxIterations

\* A row as the iteration will leave it; the rows a worker is done with.
NewRow(r) == Relax(main_prev_plate[r - 1], main_prev_plate[r], main_prev_plate[r + 1])
Done(w, r) == /\ r \in begin(w) .. end(w) - 1
              /\ \/ pc[w] = "update" /\ r < row[w]
                 \/ pc[w] \in {"second", "in_second"}

\* While they update the workers write what the plate of the iteration before says, and
\* nobody writes that one.
UpdateInv ==
  Updating => \A r \in Row :
    IF r \in Locked THEN main_plate[r] = main_prev_plate[r]
    ELSE \A w \in Worker : Done(w, r) => main_plate[r] = NewRow(r)

\* When the second barrier opens the new plate is finished; main() copies it row by row,
\* and from then on the plates are the same until the first barrier opens.
CopyInv ==
  Copying =>
    /\ pc[Main] = "in_second" =>
         \A r \in Row : IF r \in Locked THEN main_plate[r] = main_prev_plate[r]
                        ELSE \A w \in Worker :
                          r \in begin(w) .. end(w) - 1 => main_plate[r] = NewRow(r)
    /\ pc[Main] = "copy" => \A r \in Row : r < row[Main] => main_prev_plate[r] = main_plate[r]
    /\ pc[Main] \notin {"in_second", "copy"} => main_prev_plate = main_plate

IInv == /\ TypeOK /\ PlaceInv /\ BarrierInv /\ RoundInv /\ WholeInv /\ IterationsInv
        /\ UpdateInv /\ CopyInv
-----------------------------------------------------------------------------
\* A thread is in one half of the round only.
LEMMA OneHalf == PlaceInv /\ BarrierInv => ~ (Updating /\ Copying)
<1>1. Main \in Thread
  BY DEF Thread
<1> QED
  BY <1>1 DEF PlaceInv, BarrierInv, Updating, Copying

\* The shares of the workers are within the plate.
LEMMA Shares ==
  ASSUME PlateAssumption, NEW w \in Worker
  PROVE  /\ Step \in Nat /\ begin(w) \in Nat /\ end(w) \in Nat
         /\ begin(w) <= end(w) /\ end(w) <= GRID_SIZE
<1>1. Step \in Nat /\ nthreads * Step <= GRID_SIZE /\ GRID_SIZE \in Nat
  BY DEF PlateAssumption, Step
<1>2. w \in Nat /\ w >= 1 /\ nthreads \in Nat /\ w <= nthreads
  BY DEF PlateAssumption, Worker
<1>3. ASSUME NEW s \in Nat
      PROVE  /\ (w - 1) * s \in Nat /\ w * s \in Nat
             /\ (w - 1) * s <= w * s /\ w * s <= nthreads * s /\ nthreads * s \in Nat
  BY <1>2
<1>4. /\ begin(w) \in Nat /\ end(w) \in Nat /\ begin(w) <= end(w)
      /\ end(w) <= nthreads * Step /\ nthreads * Step \in Nat
  BY <1>1, <1>3 DEF begin, end
<1> QED
  BY <1>1, <1>4

\* If nthreads divides the number of rows there is no row of nobody.
LEMMA EvenShares ==
  ASSUME PlateAssumption, GRID_SIZE = nthreads * Step
  PROVE  EveryRowIsSomebodys
<1> SUFFICES ASSUME NEW r \in Row PROVE \E w \in Worker : r \in begin(w) .. end(w) - 1
  BY DEF EveryRowIsSomebodys
<1>1. Step \in Nat /\ nthreads \in Nat /\ r \in Nat /\ r < nthreads * Step
  BY DEF PlateAssumption, Step, Row
<1> DEFINE s == Step
           q == r \div s
<1>2. s \in Nat /\ r < nthreads * s
  BY <1>1
<1> HIDE DEF s
<1>3. s > 0
  BY <1>1, <1>2
<1>4. q \in Nat /\ q * s <= r /\ r < (q + 1) * s
  BY <1>1, <1>2, <1>3
<1> HIDE DEF q
<1>5. q < nthreads
  BY <1>1, <1>2, <1>3, <1>4
<1>6. q + 1 \in Worker /\ begin(q + 1) = q * s /\ end(q + 1) = (q + 1) * s
  BY <1>1, <1>4, <1>5 DEF Worker, begin, end, s
<1> QED
  BY <1>1, <1>2, <1>4, <1>6

\* The barrier opens when everybody has arrived.
LEMMA EverybodyHasArrived ==
  ASSUME PlateAssumption, NEW b \in SUBSET Thread, NEW t \in Thread
  PROVE  Cardinality(b \cup {t}) = nthreads + 1 <=> b \cup {t} = Thread
<1>1. Thread = 0 .. nthreads /\ nthreads \in Nat
  BY DEF Thread, Worker, Main, PlateAssumption
<1>2. IsFiniteSet(Thread) /\ Cardinality(Thread) = nthreads + 1
  BY <1>1, FS_Interval
<1> QED
  BY <1>2, FS_Subset
-----------------------------------------------------------------------------
\* Before main() has created the workers nobody is at a barrier.
LEMMA InitInv == PlateAssumption /\ Init => IInv
<1> SUFFICES ASSUME PlateAssumption, Init PROVE IInv
  OBVIOUS
<1>1. /\ Main \in Thread /\ Main \notin Worker /\ pc[Main] = "create"
      /\ \A w \in Worker : w \in Thread /\ pc[w] = "unborn"
  BY DEF PlateAssumption, Init, Thread, Main, Worker
<1>2. TypeOK
  <2>1. 0 \in 0 .. GRID_SIZE /\ 0 \in 0 .. MaxIterations
    BY DEF PlateAssumption
  <2>2. pc \in [Thread -> {"unborn", "create", "iterate", "first", "in_first", "update",
                           "second", "in_second", "copy", "clean_up", "free", "hung", "returned"}]
    BY DEF Init
  <2>3. row \in [Thread -> 0 .. GRID_SIZE] /\ iterations \in 0 .. MaxIterations
    BY <2>1 DEF Init
  <2>4. DOMAIN main_plate = Row /\ DOMAIN main_prev_plate = Row
    BY DEF Init, PlateAssumption
  <2> QED
    BY <2>2, <2>3, <2>4 DEF TypeOK, Init
<1>3. PlaceInv /\ BarrierInv
  BY <1>1 DEF Init, PlaceInv, BarrierInv
<1>4. Copying
  BY <1>1 DEF Copying, Thread
<1>5. RoundInv /\ ~ Updating
  BY <1>3, <1>4, OneHalf DEF RoundInv
<1>6. WholeInv /\ IterationsInv
  BY DEF Init, WholeInv, IterationsInv, PlateAssumption
<1>7. UpdateInv /\ CopyInv
  BY <1>1, <1>5 DEF Init, UpdateInv, CopyInv
<1> QED
  BY <1>2, <1>3, <1>5, <1>6, <1>7 DEF IInv

\* The steps of main() and of the workers.
LEMMA Steps ==
  ASSUME [Next]_vars
  PROVE  \/ UNCHANGED vars
         \/ Create \/ Iterate \/ CopyRow \/ Steady \/ DestroyBarriers \/ CleanUp
         \/ \E t \in Thread :
              ArriveFirst(t) \/ LeaveFirst(t) \/ ArriveSecond(t) \/ LeaveSecond(t)
         \/ \E w \in Worker : UpdateRow(w) \/ UpdateDone(w)
  BY DEF Next, main, update_plate, Barriers, Terminated, Thread

\* The steps of main() by itself happen between the barriers.
LEMMA PlaceStep == PlateAssumption /\ IInv /\ [Next]_vars => PlaceInv'
<1> SUFFICES ASSUME PlateAssumption, IInv, [Next]_vars PROVE PlaceInv'
  OBVIOUS
<1>1. Main \in Thread /\ Main \notin Worker /\ Thread = Worker \cup {Main}
  BY DEF PlateAssumption, Thread, Main, Worker
<1> USE <1>1 DEF IInv, TypeOK, PlaceInv, Goto
<1> HIDE DEF Main, Worker, Thread
<1>2. CASE UNCHANGED vars
  BY <1>2 DEF vars, plates
<1>3. CASE Create
  BY <1>3 DEF Create, plates
<1>4. CASE Iterate \/ CopyRow \/ Steady \/ DestroyBarriers \/ CleanUp
  BY <1>4 DEF Iterate, CopyRow, Steady, DestroyBarriers, CleanUp, plates
<1>5. ASSUME NEW t \in Thread,
             ArriveFirst(t) \/ LeaveFirst(t) \/ ArriveSecond(t) \/ LeaveSecond(t)
      PROVE  PlaceInv'
  BY <1>5 DEF ArriveFirst, LeaveFirst, ArriveSecond, LeaveSecond, plates
<1>6. ASSUME NEW w \in Worker, UpdateRow(w) \/ UpdateDone(w) PROVE PlaceInv'
  BY <1>6 DEF UpdateRow, UpdateDone, plates
<1> QED
  BY <1>2, <1>3, <1>4, <1>5, <1>6, Steps

\* Who is at a barrier is counted there, and who has been let out is not.
LEMMA BarrierStep == PlateAssumption /\ IInv /\ [Next]_vars => BarrierInv'
<1> SUFFICES ASSUME PlateAssumption, IInv, [Next]_vars PROVE BarrierInv'
  OBVIOUS
<1>1. Main \in Thread /\ Main \notin Worker /\ Thread = Worker \cup {Main}
  BY DEF PlateAssumption, Thread, Main, Worker
<1> USE <1>1 DEF IInv, TypeOK, BarrierInv, Goto
<1> HIDE DEF Main, Worker, Thread
<1>2. CASE UNCHANGED vars
  BY <1>2 DEF vars, barriers
<1>3. CASE Create
  BY <1>3 DEF Create, barriers
<1>4. CASE Iterate \/ CopyRow \/ Steady \/ DestroyBarriers \/ CleanUp
  BY <1>4 DEF Iterate, CopyRow, Steady, DestroyBarriers, CleanUp, barriers
<1>5. ASSUME NEW t \in Thread, LeaveFirst(t) \/ LeaveSecond(t) PROVE BarrierInv'
  BY <1>5 DEF LeaveFirst, LeaveSecond, barriers
<1>6. ASSUME NEW t \in Thread, ArriveFirst(t) \/ ArriveSecond(t) PROVE BarrierInv'
  <2>1. CASE ArriveFirst(t)
    <3>1. barrier_first' \subseteq barrier_first \cup {t} /\ barrier_second' = barrier_second
      BY <2>1 DEF ArriveFirst, BarrierArrive
    <3>2. pc' = [pc EXCEPT ![t] = "in_first"] /\ pc[t] = "first"
      BY <2>1 DEF ArriveFirst
    <3> QED
      BY <3>1, <3>2
  <2>2. CASE ArriveSecond(t)
    <3>1. barrier_second' \subseteq barrier_second \cup {t} /\ barrier_first' = barrier_first
      BY <2>2 DEF ArriveSecond, BarrierArrive
    <3>2. pc' = [pc EXCEPT ![t] = "in_second"] /\ pc[t] = "second"
      BY <2>2 DEF ArriveSecond
    <3> QED
      BY <3>1, <3>2
  <2> QED
    BY <1>6, <2>1, <2>2
<1>7. ASSUME NEW w \in Worker, UpdateRow(w) \/ UpdateDone(w) PROVE BarrierInv'
  BY <1>7 DEF UpdateRow, UpdateDone, barriers
<1> QED
  BY <1>2, <1>3, <1>4, <1>5, <1>6, <1>7, Steps

\* The steps by which everybody goes from one half of the round to the other.
FirstOpens ==
  /\ Copying /\ Updating' /\ UNCHANGED <<plates, row, iterations>>
  /\ \A t \in Thread : pc[t] \in {"first", "in_first"} /\ pc'[t] = "in_first"
SecondOpens ==
  /\ Updating /\ Copying' /\ UNCHANGED <<plates, row, iterations>>
  /\ \A t \in Thread : pc[t] \in {"second", "in_second"} /\ pc'[t] = "in_second"

\* Whoever comes to the first barrier waits, or opens it as the last one to come.
LEMMA FirstStep ==
  ASSUME PlateAssumption, IInv, NEW t \in Thread, ArriveFirst(t)
  PROVE  (Copying /\ Copying') \/ FirstOpens
<1> USE DEF IInv, TypeOK, BarrierInv, Goto
<1> HIDE DEF Main, Worker, Thread
<1>1. /\ pc[t] = "first" /\ pc' = [pc EXCEPT ![t] = "in_first"]
      /\ barrier_second' = barrier_second /\ UNCHANGED <<plates, row, iterations>>
  BY DEF ArriveFirst
<1>2. Copying
  BY <1>1 DEF RoundInv, Updating
<1>3. CASE barrier_first \cup {t} = Thread
  <2>1. barrier_first' = {}
    BY <1>3, EverybodyHasArrived DEF ArriveFirst, BarrierArrive
  <2>2. \A u \in Thread : pc[u] \in {"first", "in_first"} /\ pc'[u] = "in_first"
    BY <1>1, <1>3
  <2>3. Updating'
    BY <2>1, <2>2 DEF Updating
  <2> QED
    BY <1>1, <1>2, <2>2, <2>3 DEF FirstOpens
<1>4. CASE barrier_first \cup {t} # Thread
  <2>1. barrier_first' = barrier_first \cup {t}
    BY <1>4, EverybodyHasArrived DEF ArriveFirst, BarrierArrive
  <2> QED
    BY <1>1, <1>2, <2>1 DEF Copying
<1> QED
  BY <1>3, <1>4

\* Whoever comes to the second barrier waits, or opens it as the last one to come.
LEMMA SecondStep ==
  ASSUME PlateAssumption, IInv, NEW t \in Thread, ArriveSecond(t)
  PROVE  (Updating /\ Updating') \/ SecondOpens
<1> USE DEF IInv, TypeOK, BarrierInv, Goto
<1> HIDE DEF Main, Worker, Thread
<1>1. /\ pc[t] = "second" /\ pc' = [pc EXCEPT ![t] = "in_second"]
      /\ barrier_first' = barrier_first /\ UNCHANGED <<plates, row, iterations>>
  BY DEF ArriveSecond
<1>2. Updating
  BY <1>1 DEF RoundInv, Copying
<1>3. CASE barrier_second \cup {t} = Thread
  <2>1. barrier_second' = {}
    BY <1>3, EverybodyHasArrived DEF ArriveSecond, BarrierArrive
  <2>2. \A u \in Thread : pc[u] \in {"second", "in_second"} /\ pc'[u] = "in_second"
    BY <1>1, <1>3
  <2>3. Copying'
    BY <2>1, <2>2 DEF Copying
  <2> QED
    BY <1>1, <1>2, <2>2, <2>3 DEF SecondOpens
<1>4. CASE barrier_second \cup {t} # Thread
  <2>1. barrier_second' = barrier_second \cup {t}
    BY <1>4, EverybodyHasArrived DEF ArriveSecond, BarrierArrive
  <2> QED
    BY <1>1, <1>2, <2>1 DEF Updating
<1> QED
  BY <1>3, <1>4

\* Nobody is at the next barrier before everybody has left the last one behind.
LEMMA RoundStep ==
  ASSUME PlateAssumption, IInv, [Next]_vars
  PROVE  \/ Updating /\ Updating'
         \/ Copying /\ Copying'
         \/ FirstOpens \/ SecondOpens
<1>1. Main \in Thread /\ Main \notin Worker /\ Thread = Worker \cup {Main}
  BY DEF PlateAssumption, Thread, Main, Worker
<1> USE <1>1 DEF IInv, TypeOK, BarrierInv, Goto
<1> HIDE DEF Main, Worker, Thread
<1>2. CASE UNCHANGED vars
  BY <1>2 DEF vars, barriers, RoundInv, Updating, Copying
<1>3. CASE Create
  <2>1. Copying
    BY <1>3 DEF Create, RoundInv, Updating
  <2> QED
    BY <1>3, <2>1 DEF Create, barriers, Copying
<1>4. CASE Iterate \/ CopyRow \/ Steady \/ DestroyBarriers \/ CleanUp
  <2>1. Copying
    BY <1>4 DEF Iterate, CopyRow, Steady, DestroyBarriers, CleanUp, RoundInv, Updating
  <2>2. barrier_first' = barrier_first /\ barrier_second' = barrier_second
    BY <1>4 DEF Iterate, CopyRow, Steady, DestroyBarriers, CleanUp, barriers
  <2>3. \A t \in Thread \ {Main} : pc'[t] = pc[t]
    BY <1>4 DEF Iterate, CopyRow, Steady, DestroyBarriers, CleanUp
  <2>4. pc'[Main] \in {"first", "copy", "iterate", "clean_up", "free", "hung", "returned"}
    BY <1>4 DEF Iterate, CopyRow, Steady, DestroyBarriers, CleanUp
  <2> QED
    BY <2>1, <2>2, <2>3, <2>4 DEF Copying
<1>5. ASSUME NEW t \in Thread, LeaveFirst(t) PROVE Updating /\ Updating'
  <2>1. Updating
    BY <1>5 DEF LeaveFirst, RoundInv, Copying
  <2> QED
    BY <1>5, <2>1 DEF LeaveFirst, barriers, Updating
<1>6. ASSUME NEW t \in Thread, LeaveSecond(t) PROVE Copying /\ Copying'
  <2>1. Copying
    BY <1>6 DEF LeaveSecond, RoundInv, Updating
  <2> QED
    BY <1>6, <2>1 DEF LeaveSecond, barriers, Copying
<1>7. ASSUME NEW w \in Worker, UpdateRow(w) \/ UpdateDone(w) PROVE Updating /\ Updating'
  <2>1. Updating
    BY <1>7 DEF UpdateRow, UpdateDone, RoundInv, Copying
  <2> QED
    BY <1>7, <2>1 DEF UpdateRow, UpdateDone, barriers, Updating
<1> QED
  BY <1>2, <1>3, <1>4, <1>5, <1>6, <1>7, FirstStep, SecondStep, Steps

\* A step changes one row of one plate, so that both plates stay whole.
LEMMA WholeStep == PlateAssumption /\ IInv /\ [Next]_vars => WholeInv'
<1> SUFFICES ASSUME PlateAssumption, IInv, [Next]_vars PROVE WholeInv'
  OBVIOUS
<1> USE DEF IInv, WholeInv
<1>1. ASSUME UNCHANGED plates PROVE WholeInv'
  BY <1>1 DEF plates
<1>2. ASSUME NEW w \in Worker, UpdateRow(w) PROVE WholeInv'
  BY <1>2 DEF UpdateRow
<1>3. CASE CopyRow
  BY <1>3 DEF CopyRow
<1>4. CASE DestroyBarriers \/ CleanUp
  BY <1>4 DEF DestroyBarriers, CleanUp, plates
<1> QED
  BY <1>1, <1>2, <1>3, <1>4, Steps
     DEF vars, Create, Iterate, Steady, ArriveFirst, LeaveFirst, ArriveSecond, LeaveSecond,
         UpdateDone

\* steady() goes on only before the last iteration.
LEMMA IterationsStep == PlateAssumption /\ IInv /\ [Next]_vars => IterationsInv'
<1> SUFFICES ASSUME PlateAssumption, IInv, [Next]_vars PROVE IterationsInv'
  OBVIOUS
<1>1. Main \in Thread /\ Main \notin Worker /\ Thread = Worker \cup {Main}
  BY DEF PlateAssumption, Thread, Main, Worker
<1> USE <1>1 DEF IInv, TypeOK, IterationsInv, Goto
<1> HIDE DEF Main, Worker, Thread
<1>2. CASE Create \/ Iterate \/ CopyRow \/ Steady \/ DestroyBarriers \/ CleanUp \/ UNCHANGED vars
  BY <1>2 DEF Create, Iterate, CopyRow, Steady, DestroyBarriers, CleanUp, vars
<1>3. ASSUME NEW t \in Thread,
             ArriveFirst(t) \/ LeaveFirst(t) \/ ArriveSecond(t) \/ LeaveSecond(t)
      PROVE  IterationsInv'
  BY <1>3 DEF ArriveFirst, LeaveFirst, ArriveSecond, LeaveSecond
<1>4. ASSUME NEW w \in Worker, UpdateRow(w) \/ UpdateDone(w) PROVE IterationsInv'
  BY <1>4 DEF UpdateRow, UpdateDone
<1> QED
  BY <1>2, <1>3, <1>4, Steps

\* The two halves of a round exclude each other also after a step.
LEMMA OneHalfNext ==
  ASSUME PlateAssumption, IInv, [Next]_vars
  PROVE  ~ (Updating' /\ Copying')
<1>1. Main \in Thread
  BY DEF Thread
<1>2. PlaceInv' /\ BarrierInv'
  BY PlaceStep, BarrierStep
<1> QED
  BY <1>1, <1>2 DEF PlaceInv, BarrierInv, Updating, Copying

\* What the workers write is right because the plate they read does not change meanwhile.
LEMMA UpdateStep == PlateAssumption /\ IInv /\ [Next]_vars => UpdateInv'
<1> DEFINE RowIsRight(r) == IF r \in Locked THEN main_plate[r] = main_prev_plate[r]
                            ELSE \A w \in Worker : Done(w, r) => main_plate[r] = NewRow(r)
<1> SUFFICES ASSUME PlateAssumption, IInv, [Next]_vars, Updating', NEW r \in Row
             PROVE  RowIsRight(r)'
  BY DEF UpdateInv
<1>1. Main \in Thread /\ Main \notin Worker /\ Thread = Worker \cup {Main}
  BY DEF PlateAssumption, Thread, Main, Worker
<1>2. ASSUME NEW w \in Worker PROVE begin(w) \in Nat /\ end(w) \in Nat /\ end(w) <= GRID_SIZE
  BY <1>2, Shares
<1>3. CASE FirstOpens
  <2>1. main_prev_plate = main_plate
    BY <1>1, <1>3 DEF IInv, FirstOpens, CopyInv
  <2>2. main_plate' = main_plate /\ main_prev_plate' = main_prev_plate
    BY <1>3 DEF FirstOpens, plates
  <2>3. ASSUME NEW w \in Worker PROVE ~ Done(w, r)'
    BY <1>1, <1>3 DEF FirstOpens, Done
  <2> QED
    BY <2>1, <2>2, <2>3
<1>4. CASE Updating
  <2>1. RowIsRight(r)
    BY <1>4 DEF IInv, UpdateInv
  <2>2. ASSUME main_plate' = main_plate, main_prev_plate' = main_prev_plate,
               \A w \in Worker : Done(w, r)' => Done(w, r)
        PROVE  RowIsRight(r)'
    BY <2>1, <2>2 DEF NewRow
  <2> USE <1>1 DEF Goto, plates, barriers
  <2> HIDE DEF Main, Worker, Thread, Right
  <2>3. CASE UNCHANGED vars
    BY <2>2, <2>3 DEF vars, Done
  <2>4. CASE Create \/ Iterate \/ CopyRow \/ Steady \/ DestroyBarriers \/ CleanUp
    BY <1>4, <2>4 DEF Create, Iterate, CopyRow, Steady, DestroyBarriers, CleanUp, Updating, IInv,
           BarrierInv
  <2>5. ASSUME NEW t \in Thread, ArriveFirst(t) \/ LeaveSecond(t) PROVE FALSE
    BY <1>4, <2>5 DEF ArriveFirst, LeaveSecond, Updating, IInv, BarrierInv
  <2>6. ASSUME NEW t \in Thread, LeaveFirst(t) PROVE RowIsRight(r)'
    <3>1. ASSUME NEW w \in Worker, Done(w, r)' PROVE Done(w, r)
      <4>1. CASE w = t
        BY <1>2, <2>6, <3>1, <4>1 DEF LeaveFirst, Done, IInv, TypeOK, Row
      <4>2. CASE w # t
        BY <2>6, <3>1, <4>2 DEF LeaveFirst, Done, IInv, TypeOK
      <4> QED
        BY <4>1, <4>2
    <3> QED
      BY <2>2, <2>6, <3>1 DEF LeaveFirst
  <2>7. ASSUME NEW t \in Thread, ArriveSecond(t) PROVE RowIsRight(r)'
    <3>1. ASSUME NEW w \in Worker, Done(w, r)' PROVE Done(w, r)
      BY <2>7, <3>1 DEF ArriveSecond, Done, IInv, TypeOK
    <3> QED
      BY <2>2, <2>7, <3>1 DEF ArriveSecond
  <2>8. ASSUME NEW v \in Worker, UpdateDone(v) PROVE RowIsRight(r)'
    <3>1. ASSUME NEW w \in Worker, Done(w, r)' PROVE Done(w, r)
      BY <1>2, <2>8, <3>1 DEF UpdateDone, Done, IInv, TypeOK, Row
    <3> QED
      BY <2>2, <2>8, <3>1 DEF UpdateDone
  <2>9. ASSUME NEW v \in Worker, UpdateRow(v) PROVE RowIsRight(r)'
    <3>1. /\ pc' = pc /\ row' = [row EXCEPT ![v] = row[v] + 1] /\ row[v] \in Int
          /\ main_prev_plate' = main_prev_plate /\ pc[v] = "update"
      BY <2>9 DEF UpdateRow, IInv, TypeOK
    <3>2. NewRow(r)' = NewRow(r)
      BY <3>1 DEF NewRow
    <3>3. CASE r # row[v]
      <4>1. main_plate'[r] = main_plate[r]
        BY <2>9, <3>3 DEF UpdateRow, IInv, TypeOK
      <4>2. ASSUME NEW w \in Worker, Done(w, r)' PROVE Done(w, r)
        <5>1. CASE w = v
          BY <3>1, <3>3, <4>2, <5>1 DEF Done, Row, IInv, TypeOK
        <5>2. CASE w # v
          BY <3>1, <4>2, <5>2 DEF Done, IInv, TypeOK
        <5> QED
          BY <5>1, <5>2
      <4> QED
        BY <2>1, <3>1, <3>2, <4>1, <4>2 DEF Right
    <3>4. CASE r = row[v]
      <4>1. CASE r \in Locked
        BY <2>1, <2>9, <3>1, <3>4, <4>1 DEF UpdateRow, Right
      <4>2. CASE r \notin Locked
        <5>1. main_plate'[r] = NewRow(r)
          BY <2>9, <3>4, <4>2 DEF UpdateRow, NewRow, IInv, TypeOK
        <5> QED
          BY <3>2, <4>2, <5>1 DEF Right
      <4> QED
        BY <4>1, <4>2
    <3> QED
      BY <3>3, <3>4
  <2> QED
    BY <2>3, <2>4, <2>5, <2>6, <2>7, <2>8, <2>9, Steps
<1> QED
  BY <1>3, <1>4, RoundStep, OneHalfNext DEF SecondOpens

\* The second barrier opens on a finished plate, and main() has copied it all when it asks
\* steady().
LEMMA CopyStep == PlateAssumption /\ IInv /\ [Next]_vars => CopyInv'
<1> SUFFICES ASSUME PlateAssumption, IInv, [Next]_vars, Copying' PROVE CopyInv'
  BY DEF CopyInv
<1>1. Main \in Thread /\ Main \notin Worker /\ Thread = Worker \cup {Main}
  BY DEF PlateAssumption, Thread, Main, Worker
<1>2. CASE SecondOpens
  <2>1. /\ pc'[Main] = "in_second"
        /\ main_plate' = main_plate /\ main_prev_plate' = main_prev_plate
    BY <1>1, <1>2 DEF SecondOpens, plates
  <2>2. ASSUME NEW w \in Worker, NEW r \in begin(w) .. end(w) - 1 PROVE Done(w, r)
    BY <1>1, <1>2 DEF SecondOpens, Done
  <2>3. \A r \in Row : IF r \in Locked THEN main_plate[r] = main_prev_plate[r]
                       ELSE \A w \in Worker : Done(w, r) => main_plate[r] = NewRow(r)
    BY <1>2 DEF SecondOpens, IInv, UpdateInv
  <2> QED
    BY <2>1, <2>2, <2>3 DEF CopyInv, NewRow
<1>3. CASE Copying
  <2> USE <1>1 DEF Goto, plates, barriers
  <2> HIDE DEF Main, Worker, Thread
  <2>1. ASSUME main_plate' = main_plate, main_prev_plate' = main_prev_plate,
               row'[Main] = row[Main],
               \/ pc'[Main] = pc[Main]
               \/ /\ pc[Main] \notin {"in_second", "copy"}
                  /\ pc'[Main] \notin {"in_second", "copy"}
        PROVE  CopyInv'
    BY <1>3, <2>1 DEF IInv, CopyInv, NewRow
  <2>2. CASE UNCHANGED vars
    BY <2>1, <2>2 DEF vars
  <2>3. CASE Create \/ Iterate \/ DestroyBarriers \/ CleanUp
    BY <2>1, <2>3 DEF Create, Iterate, DestroyBarriers, CleanUp, IInv, TypeOK
  <2>4. CASE CopyRow
    <3>1. /\ main_plate' = main_plate /\ pc' = pc /\ pc[Main] = "copy"
          /\ row'[Main] = row[Main] + 1 /\ row[Main] \in Int
          /\ main_prev_plate' = [main_prev_plate EXCEPT ![row[Main]] = main_plate[row[Main]]]
      BY <2>4 DEF CopyRow, IInv, TypeOK
    <3>2. ASSUME NEW r \in Row, r < row[Main] + 1 PROVE main_prev_plate'[r] = main_plate[r]
      <4>1. CASE r = row[Main]
        BY <3>1, <4>1 DEF IInv, TypeOK
      <4>2. CASE r # row[Main]
        <5>1. r < row[Main]
          BY <3>1, <3>2, <4>2 DEF Row
        <5>2. main_prev_plate'[r] = main_prev_plate[r]
          BY <3>1, <4>2 DEF IInv, TypeOK
        <5> QED
          BY <1>3, <3>1, <5>1, <5>2 DEF IInv, CopyInv
      <4> QED
        BY <4>1, <4>2
    <3> QED
      BY <3>1, <3>2 DEF CopyInv
  <2>5. CASE Steady
    <3>1. /\ main_plate' = main_plate /\ main_prev_plate' = main_prev_plate
          /\ pc[Main] = "copy" /\ row[Main] = GRID_SIZE
          /\ pc'[Main] \in {"iterate", "clean_up"}
      BY <2>5 DEF Steady, IInv, TypeOK
    <3>2. \A r \in Row : r < GRID_SIZE
      BY DEF Row, PlateAssumption
    <3>3. \A r \in Row : main_prev_plate[r] = main_plate[r]
      BY <1>3, <3>1, <3>2 DEF IInv, CopyInv
    <3>4. main_prev_plate = main_plate
      BY <3>3 DEF IInv, WholeInv
    <3> QED
      BY <3>1, <3>4 DEF CopyInv
  <2>6. ASSUME NEW t \in Thread, LeaveFirst(t) \/ ArriveSecond(t) PROVE FALSE
    BY <1>3, <2>6 DEF LeaveFirst, ArriveSecond, Copying, IInv, BarrierInv
  <2>7. ASSUME NEW t \in Thread, ArriveFirst(t) PROVE CopyInv'
    BY <2>1, <2>7 DEF ArriveFirst, IInv, TypeOK
  <2>8. ASSUME NEW t \in Thread, LeaveSecond(t) PROVE CopyInv'
    <3>1. CASE t = Main
      <4>1. /\ pc'[Main] = "copy" /\ row'[Main] = 0
        BY <2>8, <3>1 DEF LeaveSecond, IInv, TypeOK
      <4>2. \A r \in Row : ~ r < 0
        BY DEF Row, PlateAssumption
      <4> QED
        BY <4>1, <4>2 DEF CopyInv
    <3>2. CASE t # Main
      BY <2>1, <2>8, <3>2 DEF LeaveSecond, IInv, TypeOK
    <3> QED
      BY <3>1, <3>2
  <2>9. ASSUME NEW w \in Worker, UpdateRow(w) \/ UpdateDone(w) PROVE FALSE
    BY <1>3, <2>9 DEF UpdateRow, UpdateDone, Copying, IInv, BarrierInv
  <2> QED
    BY <2>2, <2>3, <2>4, <2>5, <2>6, <2>7, <2>8, <2>9, Steps
<1> QED
  BY <1>2, <1>3, RoundStep, OneHalfNext DEF FirstOpens

\* Every step keeps the variables in their sets.
LEMMA TypeStep == PlateAssumption /\ IInv /\ [Next]_vars => TypeOK'
<1> SUFFICES ASSUME PlateAssumption, IInv, [Next]_vars PROVE TypeOK'
  OBVIOUS
<1>1. Main \in Thread /\ Main \notin Worker /\ Thread = Worker \cup {Main}
  BY DEF PlateAssumption, Thread, Main, Worker
<1>2. ASSUME NEW w \in Worker
      PROVE  begin(w) \in 0 .. GRID_SIZE /\ end(w) \in Nat /\ end(w) <= GRID_SIZE
  BY <1>2, Shares DEF PlateAssumption
<1>3. GRID_SIZE \in Nat /\ MaxIterations \in Nat /\ TypeOK
  BY DEF PlateAssumption, IInv
<1> USE <1>1 DEF Goto, plates, barriers
<1> HIDE DEF Main, Worker, Thread
<1>4. DOMAIN main_plate' = Row /\ DOMAIN main_prev_plate' = Row
  <2>1. WholeInv'
    BY WholeStep
  <2> QED
    BY <2>1 DEF WholeInv
<1>5. freed' \in BOOLEAN
  BY <1>3, Steps
     DEF TypeOK, vars, Create, Iterate, CopyRow, Steady, DestroyBarriers, CleanUp, ArriveFirst,
         LeaveFirst, ArriveSecond, LeaveSecond, UpdateRow, UpdateDone
<1>6. barrier_first' \subseteq Thread /\ barrier_second' \subseteq Thread
  <2>1. CASE UNCHANGED barriers
    BY <1>3, <2>1 DEF TypeOK
  <2>2. ASSUME NEW t \in Thread, ArriveFirst(t) PROVE <1>6!:
    BY <1>3, <2>2 DEF TypeOK, ArriveFirst, BarrierArrive
  <2>3. ASSUME NEW t \in Thread, ArriveSecond(t) PROVE <1>6!:
    BY <1>3, <2>3 DEF TypeOK, ArriveSecond, BarrierArrive
  <2> QED
    BY <2>1, <2>2, <2>3, Steps
       DEF vars, Create, Iterate, CopyRow, Steady, DestroyBarriers, CleanUp, LeaveFirst,
           LeaveSecond, UpdateRow, UpdateDone
<1>7. pc' \in [Thread -> {"unborn", "create", "iterate", "first", "in_first", "update",
                          "second", "in_second", "copy", "clean_up", "free", "hung", "returned"}]
  <2>1. CASE UNCHANGED vars
    BY <1>3, <2>1 DEF TypeOK, vars
  <2>2. CASE Create \/ Iterate \/ CopyRow \/ Steady \/ DestroyBarriers \/ CleanUp
    BY <1>3, <2>2 DEF TypeOK, Create, Iterate, CopyRow, Steady, DestroyBarriers, CleanUp
  <2>3. ASSUME NEW t \in Thread,
               ArriveFirst(t) \/ LeaveFirst(t) \/ ArriveSecond(t) \/ LeaveSecond(t)
        PROVE  <1>7!:
    BY <1>3, <2>3 DEF TypeOK, ArriveFirst, LeaveFirst, ArriveSecond, LeaveSecond
  <2>4. ASSUME NEW w \in Worker, UpdateRow(w) \/ UpdateDone(w) PROVE <1>7!:
    BY <1>3, <2>4 DEF TypeOK, UpdateRow, UpdateDone
  <2> QED
    BY <2>1, <2>2, <2>3, <2>4, Steps
<1>8. row' \in [Thread -> 0 .. GRID_SIZE]
  <2>1. CASE UNCHANGED row
    BY <1>3, <2>1 DEF TypeOK
  <2>2. CASE CopyRow
    <3>1. row[Main] + 1 \in 0 .. GRID_SIZE
      BY <1>3, <2>2 DEF TypeOK, CopyRow
    <3> QED
      BY <1>3, <2>2, <3>1 DEF TypeOK, CopyRow
  <2>3. ASSUME NEW t \in Thread, LeaveFirst(t) \/ LeaveSecond(t) PROVE <1>8!:
    BY <1>2, <1>3, <2>3 DEF TypeOK, LeaveFirst, LeaveSecond
  <2>4. ASSUME NEW w \in Worker, UpdateRow(w) PROVE <1>8!:
    <3>1. row[w] + 1 \in 0 .. GRID_SIZE
      BY <1>2, <1>3, <2>4 DEF TypeOK, UpdateRow
    <3> QED
      BY <1>3, <2>4, <3>1 DEF TypeOK, UpdateRow
  <2> QED
    BY <2>1, <2>2, <2>3, <2>4, Steps
       DEF vars, Create, Iterate, Steady, DestroyBarriers, CleanUp, ArriveFirst, ArriveSecond,
           UpdateDone
<1>9. iterations' \in 0 .. MaxIterations
  <2>1. CASE Iterate
    BY <1>3, <2>1 DEF TypeOK, Iterate, IInv, IterationsInv
  <2>2. CASE UNCHANGED iterations
    BY <1>3, <2>2 DEF TypeOK
  <2> QED
    BY <2>1, <2>2, Steps
       DEF vars, Create, CopyRow, Steady, DestroyBarriers, CleanUp, ArriveFirst, LeaveFirst,
           ArriveSecond, LeaveSecond, UpdateRow, UpdateDone
<1> QED
  BY <1>4, <1>5, <1>6, <1>7, <1>8, <1>9 DEF TypeOK
-----------------------------------------------------------------------------
\* The inductive invariant: which half of which round each thread is in, and which plate
\* its rows are of there (hot_plate_barriers.c:125-149, 188-223).
THEOREM Invariance == ASSUME PlateAssumption PROVE Spec => []IInv
<1>1. Init => IInv
  BY InitInv
<1>2. IInv /\ [Next]_vars => IInv'
  <2> SUFFICES ASSUME IInv, [Next]_vars PROVE IInv'
    OBVIOUS
  <2>1. TypeOK' /\ PlaceInv' /\ BarrierInv' /\ WholeInv'
    BY TypeStep, PlaceStep, BarrierStep, WholeStep
  <2>2. IterationsInv' /\ UpdateInv' /\ CopyInv'
    BY IterationsStep, UpdateStep, CopyStep
  <2>3. RoundInv'
    BY RoundStep DEF RoundInv, FirstOpens, SecondOpens
  <2> QED
    BY <2>1, <2>2, <2>3 DEF IInv
<1> QED
  BY <1>1, <1>2, PTL DEF Spec

\* Whatever argv[1] is, no worker uses a plate that main() has freed
\* (hot_plate_barriers.c:125-149 and 188-262).
THEOREM PlateIsSafe == ASSUME PlateAssumption PROVE Spec => []PlateInv
<1>1. ASSUME IInv, freed, NEW w \in Worker PROVE pc[w] # "update"
  <2>1. Main \in Thread /\ w \in Thread
    BY DEF Thread
  <2>2. pc[Main] = "returned"
    BY <1>1 DEF IInv, PlaceInv
  <2>3. Copying
    BY <1>1, <2>1, <2>2 DEF IInv, RoundInv, BarrierInv, Updating
  <2> QED
    BY <1>1, <2>1, <2>3 DEF IInv, BarrierInv, Copying
<1>2. IInv => PlateInv
  BY <1>1 DEF IInv, PlateInv, NobodyUsesAFreedPlate
<1> QED
  BY <1>2, Invariance, PTL

\* As main() leaves the second barrier the plate is relaxed.
LEMMA LeavingIsAnIteration ==
  ASSUME PlateAssumption, EveryRowIsSomebodys, IInv, LeaveSecond(Main)
  PROVE  Abstract!Iterate
<1>1. Main \in Thread
  BY DEF Thread
<1>2. /\ pc[Main] = "in_second" /\ pc'[Main] = "copy" /\ Main \notin barrier_second
      /\ main_plate' = main_plate
  BY <1>1 DEF LeaveSecond, Goto, plates, IInv, TypeOK
<1>3. Copying
  BY <1>1, <1>2 DEF IInv, RoundInv, BarrierInv, Updating
<1>4. \A r \in Row : main_plate[r] = IF r \in Locked THEN main_prev_plate[r] ELSE NewRow(r)
  BY <1>2, <1>3 DEF IInv, CopyInv, EveryRowIsSomebodys
<1>5. main_plate = [r \in Row |-> IF r \in Locked THEN main_prev_plate[r] ELSE NewRow(r)]
  BY <1>4 DEF IInv, WholeInv
<1> QED
  BY <1>2, <1>5 DEF Abstract!Iterate, Abstract!Relaxed, NewRow

\* The two barriers make one synchronous iteration of the loops of all workers, provided
\* that the rows that belong to nobody are locked: allocateWorkload (174-186) divides with
\* truncation and does not see to it.
THEOREM ImplementsSyncPlate ==
  ASSUME PlateAssumption, EveryRowIsSomebodys
  PROVE  Spec => IsSynchronous
<1>1. Init => Abstract!Init
  BY DEF Init, Abstract!Init, Thread, Main
<1>2. IInv /\ [Next]_vars =>
        [Abstract!Iterate \/ Abstract!Stop]_<<
           IF pc[Main] = "copy" THEN main_plate ELSE main_prev_plate,
           pc[Main] \in {"clean_up", "free", "hung", "returned"}>>
  <2> SUFFICES ASSUME IInv, [Next]_vars PROVE <1>2!2
    OBVIOUS
  <2>1. Main \in Thread /\ Main \notin Worker /\ Thread = Worker \cup {Main}
    BY DEF PlateAssumption, Thread, Main, Worker
  <2> USE <2>1 DEF Goto, plates
  <2> HIDE DEF Main, Worker, Thread
  <2>2. CASE LeaveSecond(Main)
    BY <2>2, LeavingIsAnIteration
  <2>3. CASE Steady
    <3>1. pc[Main] = "copy" /\ main_plate' = main_plate /\ main_prev_plate' = main_prev_plate
          /\ pc'[Main] \in {"iterate", "clean_up"}
      BY <2>3 DEF Steady, IInv, TypeOK
    <3>2. CopyInv' /\ Copying'
      <4>1. Copying
        BY <2>1, <3>1 DEF IInv, RoundInv, BarrierInv, Updating
      <4>2. Copying'
        BY <4>1, RoundStep, OneHalf, <3>1, <2>1 DEF FirstOpens, SecondOpens, IInv
      <4> QED
        BY <4>2, CopyStep
    <3>3. main_prev_plate = main_plate
      BY <3>1, <3>2 DEF CopyInv
    <3> QED
      BY <3>1, <3>3 DEF Abstract!Stop
  <2>4. ASSUME main_plate' = main_plate,
               pc'[Main] = "copy" <=> pc[Main] = "copy",
               main_prev_plate' = main_prev_plate \/ pc[Main] = "copy",
               pc'[Main] \in {"clean_up", "free", "hung", "returned"}
               <=> pc[Main] \in {"clean_up", "free", "hung", "returned"}
        PROVE  <1>2!2
    BY <2>4
  <2>5. CASE UNCHANGED vars
    BY <2>4, <2>5 DEF vars
  <2>6. CASE Create \/ Iterate \/ CopyRow \/ DestroyBarriers \/ CleanUp
    BY <2>4, <2>6 DEF Create, Iterate, CopyRow, DestroyBarriers, CleanUp, IInv, TypeOK
  <2>7. ASSUME NEW t \in Thread,
               ArriveFirst(t) \/ LeaveFirst(t) \/ ArriveSecond(t)
               \/ (t # Main /\ LeaveSecond(t))
        PROVE  <1>2!2
    BY <2>4, <2>7 DEF ArriveFirst, LeaveFirst, ArriveSecond, LeaveSecond, IInv, TypeOK
  <2>8. ASSUME NEW w \in Worker, UpdateRow(w) \/ UpdateDone(w), pc[Main] # "copy"
        PROVE  <1>2!2
    BY <2>8 DEF UpdateRow, UpdateDone, IInv, TypeOK
  <2>9. ASSUME NEW w \in Worker, UpdateRow(w) \/ UpdateDone(w) PROVE pc[Main] # "copy"
    BY <2>1, <2>9 DEF UpdateRow, UpdateDone, IInv, RoundInv, BarrierInv, Updating, Copying
  <2> QED
    BY <2>2, <2>3, <2>5, <2>6, <2>7, <2>8, <2>9, Steps
<1> QED
  BY Invariance, <1>1, <1>2, PTL DEF Spec, IsSynchronous, Abstract!Spec
-----------------------------------------------------------------------------

(***************************************************************************)
(* Proofs about Membarrier, for every number of rounds and in all modes.   *)
(*                                                                         *)
(* The argument: nobody passes the spin of a round before the other is in  *)
(* it, so that they are at most one round apart (Rendezvous); a result is  *)
(* ready from the moment the first of a round leaves it until the second   *)
(* has compared (ReadyResults); resets are in a store buffer only while    *)
(* the second has the mutex and the first is already in the next round,    *)
(* where it waits at the spin (BufferedStores).  With barriers on both     *)
(* sides the store of a process is in memory from its load until the       *)
(* reset of the round (StoresAreSeen), and so the second of two loads sees *)
(* it (OneSeesTheOther).                                                   *)
(***************************************************************************)

\* Where a process is past the spin of its round, and where it has arrived at it.
InRound(p) == mbPc[p] \in {"store", "fence", "load", "check", "compare", "leave"}
HasArrived(p) == InRound(p) \/ mbPc[p] \in {"spin", "aborted"}

\* What p may have added to ref.
Arrivals(p) == IF HasArrived(p) THEN i[p] + 1 ELSE i[p]

\* The store of a round, and what is left of the two resets at its end.
Storing(p)  == <<<<Mine(p), 1>>>>
Resetting   == {<<<<"x", 0>>, <<"y", 0>>>>, <<<<"y", 0>>>>}

BuffersTyped == buffer \in [Process -> Seq({"x", "y"} \X {0, 1})]

\* Only stores of the round are in the buffer, or resets of the second to end it.
BufferedStores ==
  \A p \in Process :
    \/ buffer[p] = <<>>
    \/ buffer[p] = Storing(p) /\ mbPc[p] \in {"fence", "load", "check", "aborted"}
    \/ /\ buffer[p] \in Resetting /\ mbPc[p] = "leave"
       /\ i[Other(p)] = i[p] + 1 /\ ~ ready[p] /\ ~ ready[Other(p)]

\* Who is past the spin of a round has met the other one there.
Rendezvous ==
  \A p \in Process :
    /\ ref <= Arrivals(p) + Arrivals(Other(p))
    /\ InRound(p) => Arrivals(Other(p)) >= i[p] + 1
    /\ i[p] <= i[Other(p)] + 1
    /\ HasArrived(p) => i[p] < Rounds
    /\ mbPc[p] = "register" => i[p] = 0

\* The mutex.
Locking == \A p \in Process : mbPc[p] \in {"compare", "leave"} => lock = p

\* A result that is ready is that of the round the other is in.
ReadyResults ==
  \A p \in Process : ready[p] =>
    /\ result[p] = seen[p]
    /\ i[p] = i[Other(p)] + 1 \/ (mbPc[p] = "leave" /\ i[p] = i[Other(p)])
    /\ mbPc[Other(p)] # "leave"

\* The first of a round leaves its result: it is ready while the other has not compared.
FirstLeavesResult ==
  \A p \in Process :
    /\ i[Other(p)] = i[p] + 1 => HasArrived(p) /\ (mbPc[p] = "leave" \/ ready[Other(p)])
    /\ mbPc[p] = "leave" /\ i[p] = i[Other(p)] => ready[p]

\* With barriers: nobody stops, and nothing is buffered after the barrier.
Paired ==
  mode = "mb" =>
    /\ ~ killed
    /\ \A p \in Process : /\ mbPc[p] # "aborted"
                          /\ mbPc[p] \in {"load", "check"} => buffer[p] = <<>>

\* With barriers: after the barrier the store is in memory until the round is over.
StoresAreSeen ==
  mode = "mb" =>
    \A p \in Process :
      /\ mbPc[p] \in {"load", "check", "compare"} \/ ready[p] => mem[Mine(p)] = 1
      /\ mbPc[p] = "fence" => buffer[p] = Storing(p) \/ mem[Mine(p)] = 1

\* With barriers: one of the two loads of a round gives 1.
HasLoaded(p) == mbPc[p] \in {"check", "compare"} \/ ready[p]

OneSeesTheOther ==
  mode = "mb" =>
    \A p \in Process : mbPc[p] \in {"check", "compare"} /\ HasLoaded(Other(p)) =>
      seen[p] = 1 \/ seen[Other(p)] = 1

MembarrierIInv ==
  /\ TestTypeOK /\ BuffersTyped /\ BufferedStores /\ Rendezvous /\ Locking /\ ReadyResults
  /\ FirstLeavesResult /\ Paired /\ StoresAreSeen /\ OneSeesTheOther
-----------------------------------------------------------------------------
\* The two processes and their variables.
LEMMA TwoProcesses ==
  ASSUME NEW p \in Process
  PROVE  /\ p \in {"parent", "child"}
         /\ Other(p) \in Process /\ Other(p) # p /\ Other(Other(p)) = p
         /\ Process = {p, Other(p)} /\ Mine(p) \in {"x", "y"} /\ Mine(Other(p)) # Mine(p)
         /\ {"x", "y"} = {Mine(p), Mine(Other(p))} /\ NoThread \notin Process
  BY DEF Process, Other, Mine, NoThread

\* What is in a buffer, and what is left when its oldest store is gone.
LEMMA Buffers ==
  ASSUME NEW p \in Process
  PROVE  /\ Storing(p) # <<>> /\ Head(Storing(p)) = <<Mine(p), 1>> /\ Tail(Storing(p)) = <<>>
         /\ \A b \in Resetting : b # <<>> /\ Head(b) \in {<<"x", 0>>, <<"y", 0>>}
                                 /\ (Tail(b) = <<>> \/ Tail(b) \in Resetting)
         /\ Append(<<>>, <<Mine(p), 1>>) = Storing(p)
         /\ <<>> \o <<<<"x", 0>>, <<"y", 0>>>> \in Resetting
         /\ Storing(p) \notin Resetting
  BY TwoProcesses DEF Storing, Resetting

\* No store of a process is a store to the variable of the other, before the resets.
LEMMA LoadsOfOther ==
  ASSUME NEW p \in Process, buffer[p] = <<>> \/ buffer[p] = Storing(p)
  PROVE  Loaded(p, Mine(Other(p))) = mem[Mine(Other(p))]
<1>1. {n \in DOMAIN buffer[p] : buffer[p][n][1] = Mine(Other(p))} = {}
  BY TwoProcesses DEF Storing
<1> QED  BY <1>1 DEF Loaded

\* At first nothing is buffered and nobody has arrived.
LEMMA TestInitInv == TestInit => MembarrierIInv
<1> SUFFICES ASSUME TestInit PROVE MembarrierIInv
  OBVIOUS
<1> USE RoundsAssumption DEF TestInit
<1>1. TestTypeOK
  <2>1. \A p \in Process : {buffer[p][n] : n \in DOMAIN buffer[p]} = {}
    OBVIOUS
  <2>2. mbPc \in [Process -> {"register", "round"}] /\ lock = NoThread /\ ref = 0
    OBVIOUS
  <2>3. mbPc \in [Process -> {"register", "round", "spin", "store", "fence", "load", "check",
                           "compare", "leave", "ended", "aborted"}]
    BY <2>2
  <2>4. i \in [Process -> 0 .. Rounds] /\ seen \in [Process -> {0, 1}] /\ ref \in 0 .. 2 * Rounds
    OBVIOUS
  <2>5. mem \in [{"x", "y"} -> {0, 1}] /\ killed \in BOOLEAN /\ mode \in Modes
    OBVIOUS
  <2>6. result \in [Process -> {0, 1}] /\ ready \in [Process -> BOOLEAN]
    OBVIOUS
  <2> HIDE DEF TestInit
  <2> QED  BY <2>1, <2>2, <2>3, <2>4, <2>5, <2>6 DEF TestTypeOK
<1>2. BuffersTyped /\ BufferedStores /\ Rendezvous /\ Locking
  BY TwoProcesses
  DEF BuffersTyped, BufferedStores, Rendezvous, Locking, Arrivals, HasArrived, InRound, Process,
      Other
<1>3. ReadyResults /\ FirstLeavesResult /\ Paired /\ StoresAreSeen /\ OneSeesTheOther
  BY TwoProcesses
  DEF ReadyResults, FirstLeavesResult, Paired, StoresAreSeen, OneSeesTheOther, Process, Other
<1> QED  BY <1>1, <1>2, <1>3 DEF MembarrierIInv

\* What a buffer holds are stores to x and y.
LEMMA StoresTyped ==
  ASSUME NEW b \in [Process -> Seq({"x", "y"} \X {0, 1})]
  PROVE  \A p \in Process : \A s \in {b[p][n] : n \in DOMAIN b[p]} : s \in {"x", "y"} \X {0, 1}
  OBVIOUS

\* TestTypeOK without the buffers.
TestTypes ==
  /\ mode \in Modes /\ mem \in [{"x", "y"} -> {0, 1}]
  /\ ref \in 0 .. 2 * Rounds /\ killed \in BOOLEAN
  /\ lock \in Process \cup {NoThread}
  /\ result \in [Process -> {0, 1}] /\ ready \in [Process -> BOOLEAN]
  /\ mbPc \in [Process -> {"register", "round", "spin", "store", "fence", "load", "check",
                         "compare", "leave", "ended", "aborted"}]
  /\ i \in [Process -> 0 .. Rounds] /\ seen \in [Process -> {0, 1}]

\* The registration of the child: it goes to its first round, or stops.
LEMMA RegisterInv ==
  ASSUME MembarrierIInv, mode' = mode, NEW p \in Process, p = "child" /\ Register
  PROVE  MembarrierIInv'
<1> DEFINE q == Other(p)
<1> USE RoundsAssumption DEF MembarrierIInv
<1>a. /\ q \in Process /\ q # p /\ Other(p) = q /\ Other(q) = p /\ p \in {"parent", "child"}
      /\ NoThread # p /\ NoThread # q
      /\ Mine(p) \in {"x", "y"} /\ Mine(q) \in {"x", "y"} /\ Mine(p) # Mine(q)
      /\ \A x \in Process : x = p \/ x = q
  BY TwoProcesses
<1>0. TestTypes BY DEF TestTypes, TestTypeOK
<1>e. /\ mbPc[p] = "register" /\ mbPc'[p] \in {"round", "aborted"}
      /\ mbPc'[q] = mbPc[q]
      /\ i' = i
      /\ seen' = seen
      /\ result' = result
      /\ ready' = ready
      /\ buffer' = buffer
      /\ mode = "mb" => mbPc'[p] = "round" /\ killed' = killed
      /\ mem' = mem
      /\ ref' = ref
      /\ lock' = lock
  BY <1>a, <1>0
  DEF TestTypes, Register, TestGoto, Drained, Abort, Lock, Unlock, BuffersTyped, shared
<1> HIDE DEF q
<1>1. TestTypes'
  BY <1>a, <1>0
  DEF TestTypes, Rendezvous, HasArrived, InRound, Arrivals, BufferedStores, shared, Register,
      TestGoto, Drained, Abort, Lock, Unlock
<1>11. BuffersTyped'
  BY <1>a, <1>e, <1>0 DEF BuffersTyped
<1>2. BufferedStores'
  BY <1>a, <1>e, <1>0
  DEF TestTypes, BufferedStores, Rendezvous, InRound, HasArrived, Arrivals, ReadyResults,
      Locking
<1>3. Rendezvous'
  BY <1>a, <1>e, <1>0 DEF TestTypes, Rendezvous, HasArrived, InRound, Arrivals
<1>4. Locking'
  BY <1>a, <1>e, <1>0 DEF TestTypes, Locking
<1>5. ReadyResults'
  BY <1>a, <1>e, <1>0
  DEF TestTypes, ReadyResults, FirstLeavesResult, Locking, Rendezvous, InRound, HasArrived,
      Arrivals
<1>6. FirstLeavesResult'
  BY <1>a, <1>e, <1>0
  DEF TestTypes, ReadyResults, FirstLeavesResult, Locking, Rendezvous, InRound, HasArrived,
      Arrivals
<1>7. Paired'
  BY <1>a, <1>e, <1>0
  DEF TestTypes, Paired, OneSeesTheOther, HasLoaded, ReadyResults, BufferedStores
<1>8. StoresAreSeen'
  BY <1>a, <1>e, <1>0
  DEF TestTypes, StoresAreSeen, BufferedStores, ReadyResults, Locking, Rendezvous, InRound,
      HasArrived, Arrivals
<1>9. OneSeesTheOther'
  BY <1>a, <1>e, <1>0 DEF OneSeesTheOther, HasLoaded
<1>10. TestTypeOK'
  BY <1>1, <1>11, StoresTyped DEF TestTypes, TestTypeOK, BuffersTyped
<1> QED  BY <1>2, <1>3, <1>4, <1>5, <1>6, <1>7, <1>8, <1>9, <1>10, <1>11

\* uatomic_inc(&ref), or the end of the loop: one arrival more is one process more in the round.
LEMMA ArriveInv ==
  ASSUME MembarrierIInv, mode' = mode, NEW p \in Process, Arrive(p)
  PROVE  MembarrierIInv'
<1> DEFINE q == Other(p)
<1> USE RoundsAssumption DEF MembarrierIInv
<1>a. /\ q \in Process /\ q # p /\ Other(p) = q /\ Other(q) = p /\ p \in {"parent", "child"}
      /\ NoThread # p /\ NoThread # q
      /\ Mine(p) \in {"x", "y"} /\ Mine(q) \in {"x", "y"} /\ Mine(p) # Mine(q)
      /\ \A x \in Process : x = p \/ x = q
  BY TwoProcesses
<1>0. TestTypes BY DEF TestTypes, TestTypeOK
<1>e. /\ mbPc[p] = "round" /\ mbPc'[p] \in {"spin", "ended"}
      /\ mbPc'[q] = mbPc[q]
      /\ i' = i
      /\ seen' = seen
      /\ result' = result
      /\ ready' = ready
      /\ buffer' = buffer
      /\ mbPc'[p] = "spin" => i[p] < Rounds /\ ref' = ref + 1
      /\ mbPc'[p] = "ended" => ref' = ref
      /\ mem' = mem
      /\ killed' = killed
      /\ lock' = lock
  BY <1>a, <1>0
  DEF TestTypes, Arrive, TestGoto, Drained, Abort, Lock, Unlock, BuffersTyped, shared
<1> HIDE DEF q
<1>1. TestTypes'
  BY <1>a, <1>0
  DEF TestTypes, Rendezvous, HasArrived, InRound, Arrivals, BufferedStores, shared, Arrive,
      TestGoto, Drained, Abort, Lock, Unlock
<1>11. BuffersTyped'
  BY <1>a, <1>e, <1>0 DEF BuffersTyped
<1>2. BufferedStores'
  BY <1>a, <1>e, <1>0
  DEF TestTypes, BufferedStores, Rendezvous, InRound, HasArrived, Arrivals, ReadyResults,
      Locking
<1>3. Rendezvous'
  BY <1>a, <1>e, <1>0 DEF TestTypes, Rendezvous, HasArrived, InRound, Arrivals
<1>4. Locking'
  BY <1>a, <1>e, <1>0 DEF TestTypes, Locking
<1>5. ReadyResults'
  BY <1>a, <1>e, <1>0
  DEF TestTypes, ReadyResults, FirstLeavesResult, Locking, Rendezvous, InRound, HasArrived,
      Arrivals
<1>6. FirstLeavesResult'
  BY <1>a, <1>e, <1>0
  DEF TestTypes, ReadyResults, FirstLeavesResult, Locking, Rendezvous, InRound, HasArrived,
      Arrivals
<1>7. Paired'
  BY <1>a, <1>e, <1>0
  DEF TestTypes, Paired, OneSeesTheOther, HasLoaded, ReadyResults, BufferedStores
<1>8. StoresAreSeen'
  BY <1>a, <1>e, <1>0
  DEF TestTypes, StoresAreSeen, BufferedStores, ReadyResults, Locking, Rendezvous, InRound,
      HasArrived, Arrivals
<1>9. OneSeesTheOther'
  BY <1>a, <1>e, <1>0 DEF OneSeesTheOther, HasLoaded
<1>10. TestTypeOK'
  BY <1>1, <1>11, StoresTyped DEF TestTypes, TestTypeOK, BuffersTyped
<1> QED  BY <1>2, <1>3, <1>4, <1>5, <1>6, <1>7, <1>8, <1>9, <1>10, <1>11

\* Past the spin: both have arrived.
LEMMA SpinInv ==
  ASSUME MembarrierIInv, mode' = mode, NEW p \in Process, Spin(p)
  PROVE  MembarrierIInv'
<1> DEFINE q == Other(p)
<1> USE RoundsAssumption DEF MembarrierIInv
<1>a. /\ q \in Process /\ q # p /\ Other(p) = q /\ Other(q) = p /\ p \in {"parent", "child"}
      /\ NoThread # p /\ NoThread # q
      /\ Mine(p) \in {"x", "y"} /\ Mine(q) \in {"x", "y"} /\ Mine(p) # Mine(q)
      /\ \A x \in Process : x = p \/ x = q
  BY TwoProcesses
<1>0. TestTypes BY DEF TestTypes, TestTypeOK
<1>e. /\ mbPc[p] = "spin" /\ mbPc'[p] \in {"store"}
      /\ mbPc'[q] = mbPc[q]
      /\ i' = i
      /\ seen' = seen
      /\ result' = result
      /\ ready' = ready
      /\ buffer' = buffer
      /\ ref >= 2 * (i[p] + 1)
      /\ mem' = mem
      /\ ref' = ref
      /\ killed' = killed
      /\ lock' = lock
  BY <1>a, <1>0
  DEF TestTypes, Spin, TestGoto, Drained, Abort, Lock, Unlock, BuffersTyped, shared
<1> HIDE DEF q
<1>1. TestTypes'
  BY <1>a, <1>0
  DEF TestTypes, Rendezvous, HasArrived, InRound, Arrivals, BufferedStores, shared, Spin,
      TestGoto, Drained, Abort, Lock, Unlock
<1>11. BuffersTyped'
  BY <1>a, <1>e, <1>0 DEF BuffersTyped
<1>2. BufferedStores'
  BY <1>a, <1>e, <1>0
  DEF TestTypes, BufferedStores, Rendezvous, InRound, HasArrived, Arrivals, ReadyResults,
      Locking
<1>3. Rendezvous'
  BY <1>a, <1>e, <1>0 DEF TestTypes, Rendezvous, HasArrived, InRound, Arrivals
<1>4. Locking'
  BY <1>a, <1>e, <1>0 DEF TestTypes, Locking
<1>5. ReadyResults'
  BY <1>a, <1>e, <1>0
  DEF TestTypes, ReadyResults, FirstLeavesResult, Locking, Rendezvous, InRound, HasArrived,
      Arrivals
<1>6. FirstLeavesResult'
  BY <1>a, <1>e, <1>0
  DEF TestTypes, ReadyResults, FirstLeavesResult, Locking, Rendezvous, InRound, HasArrived,
      Arrivals
<1>7. Paired'
  BY <1>a, <1>e, <1>0
  DEF TestTypes, Paired, OneSeesTheOther, HasLoaded, ReadyResults, BufferedStores
<1>8. StoresAreSeen'
  BY <1>a, <1>e, <1>0
  DEF TestTypes, StoresAreSeen, BufferedStores, ReadyResults, Locking, Rendezvous, InRound,
      HasArrived, Arrivals
<1>9. OneSeesTheOther'
  BY <1>a, <1>e, <1>0 DEF OneSeesTheOther, HasLoaded
<1>10. TestTypeOK'
  BY <1>1, <1>11, StoresTyped DEF TestTypes, TestTypeOK, BuffersTyped
<1> QED  BY <1>2, <1>3, <1>4, <1>5, <1>6, <1>7, <1>8, <1>9, <1>10, <1>11

\* The end of the spin when the other has been killed.
LEMMA SpinKilledInv ==
  ASSUME MembarrierIInv, mode' = mode, NEW p \in Process, SpinKilled(p)
  PROVE  MembarrierIInv'
<1> DEFINE q == Other(p)
<1> USE RoundsAssumption DEF MembarrierIInv
<1>a. /\ q \in Process /\ q # p /\ Other(p) = q /\ Other(q) = p /\ p \in {"parent", "child"}
      /\ NoThread # p /\ NoThread # q
      /\ Mine(p) \in {"x", "y"} /\ Mine(q) \in {"x", "y"} /\ Mine(p) # Mine(q)
      /\ \A x \in Process : x = p \/ x = q
  BY TwoProcesses
<1>0. TestTypes BY DEF TestTypes, TestTypeOK
<1>e. /\ mbPc[p] = "spin" /\ mbPc'[p] \in {"aborted"}
      /\ mbPc'[q] = mbPc[q]
      /\ i' = i
      /\ seen' = seen
      /\ result' = result
      /\ ready' = ready
      /\ buffer' = buffer
      /\ killed
      /\ mem' = mem
      /\ ref' = ref
      /\ killed' = killed
      /\ lock' = lock
  BY <1>a, <1>0
  DEF TestTypes, SpinKilled, TestGoto, Drained, Abort, Lock, Unlock, BuffersTyped, shared
<1> HIDE DEF q
<1>1. TestTypes'
  BY <1>a, <1>0
  DEF TestTypes, Rendezvous, HasArrived, InRound, Arrivals, BufferedStores, shared, SpinKilled,
      TestGoto, Drained, Abort, Lock, Unlock
<1>11. BuffersTyped'
  BY <1>a, <1>e, <1>0 DEF BuffersTyped
<1>2. BufferedStores'
  BY <1>a, <1>e, <1>0
  DEF TestTypes, BufferedStores, Rendezvous, InRound, HasArrived, Arrivals, ReadyResults,
      Locking
<1>3. Rendezvous'
  BY <1>a, <1>e, <1>0 DEF TestTypes, Rendezvous, HasArrived, InRound, Arrivals
<1>4. Locking'
  BY <1>a, <1>e, <1>0 DEF TestTypes, Locking
<1>5. ReadyResults'
  BY <1>a, <1>e, <1>0
  DEF TestTypes, ReadyResults, FirstLeavesResult, Locking, Rendezvous, InRound, HasArrived,
      Arrivals
<1>6. FirstLeavesResult'
  BY <1>a, <1>e, <1>0
  DEF TestTypes, ReadyResults, FirstLeavesResult, Locking, Rendezvous, InRound, HasArrived,
      Arrivals
<1>7. Paired'
  BY <1>a, <1>e, <1>0
  DEF TestTypes, Paired, OneSeesTheOther, HasLoaded, ReadyResults, BufferedStores
<1>8. StoresAreSeen'
  BY <1>a, <1>e, <1>0
  DEF TestTypes, StoresAreSeen, BufferedStores, ReadyResults, Locking, Rendezvous, InRound,
      HasArrived, Arrivals
<1>9. OneSeesTheOther'
  BY <1>a, <1>e, <1>0 DEF OneSeesTheOther, HasLoaded
<1>10. TestTypeOK'
  BY <1>1, <1>11, StoresTyped DEF TestTypes, TestTypeOK, BuffersTyped
<1> QED  BY <1>2, <1>3, <1>4, <1>5, <1>6, <1>7, <1>8, <1>9, <1>10, <1>11

\* The store of the round goes to an empty buffer.
LEMMA StoreInv ==
  ASSUME MembarrierIInv, mode' = mode, NEW p \in Process, Store(p)
  PROVE  MembarrierIInv'
<1> DEFINE q == Other(p)
<1> USE RoundsAssumption DEF MembarrierIInv
<1>a. /\ q \in Process /\ q # p /\ Other(p) = q /\ Other(q) = p /\ p \in {"parent", "child"}
      /\ NoThread # p /\ NoThread # q
      /\ Mine(p) \in {"x", "y"} /\ Mine(q) \in {"x", "y"} /\ Mine(p) # Mine(q)
      /\ \A x \in Process : x = p \/ x = q
  BY TwoProcesses
<1>0. TestTypes BY DEF TestTypes, TestTypeOK
<1>e. /\ mbPc[p] = "store" /\ mbPc'[p] \in {"fence"}
      /\ mbPc'[q] = mbPc[q]
      /\ i' = i
      /\ seen' = seen
      /\ result' = result
      /\ ready' = ready
      /\ buffer'[q] = buffer[q]
      /\ mem' = mem
      /\ ref' = ref
      /\ killed' = killed
      /\ lock' = lock
  BY <1>a, <1>0
  DEF TestTypes, Store, TestGoto, Drained, Abort, Lock, Unlock, BuffersTyped, shared
<1> HIDE DEF q
<1>1. TestTypes'
  BY <1>a, <1>0
  DEF TestTypes, Rendezvous, HasArrived, InRound, Arrivals, BufferedStores, shared, Store,
      TestGoto, Drained, Abort, Lock, Unlock
<1>11. BuffersTyped'
  <2>1. Append(buffer[p], <<Mine(p), 1>>) \in Seq({"x", "y"} \X {0, 1})
    BY <1>a DEF BuffersTyped
  <2> QED  BY <2>1 DEF Store, BuffersTyped
<1>12. buffer'[p] = Storing(p)
  <2>1. buffer[p] = <<>>
    BY <1>a, <1>e DEF BufferedStores
  <2> QED  BY <2>1, Buffers DEF Store, BuffersTyped
<1>2. BufferedStores'
  BY <1>a, <1>e, <1>0, <1>12
  DEF TestTypes, BufferedStores, Rendezvous, InRound, HasArrived, Arrivals, ReadyResults,
      Locking
<1>3. Rendezvous'
  <2>1. Arrivals(p)' = Arrivals(p) /\ Arrivals(q)' = Arrivals(q)
    BY <1>a, <1>e DEF Arrivals, HasArrived, InRound
  <2> QED  BY <2>1, <1>a, <1>e, <1>0 DEF TestTypes, Rendezvous, HasArrived, InRound, Arrivals
<1>4. Locking'
  BY <1>a, <1>e, <1>0 DEF TestTypes, Locking
<1>5. ReadyResults'
  BY <1>a, <1>e, <1>0
  DEF TestTypes, ReadyResults, FirstLeavesResult, Locking, Rendezvous, InRound, HasArrived,
      Arrivals
<1>6. FirstLeavesResult'
  BY <1>a, <1>e, <1>0
  DEF TestTypes, ReadyResults, FirstLeavesResult, Locking, Rendezvous, InRound, HasArrived,
      Arrivals
<1>7. Paired'
  BY <1>a, <1>e, <1>0
  DEF TestTypes, Paired, OneSeesTheOther, HasLoaded, ReadyResults, BufferedStores
<1>8. StoresAreSeen'
  BY <1>a, <1>e, <1>0, <1>12
  DEF TestTypes, StoresAreSeen, BufferedStores, ReadyResults, Locking, Rendezvous, InRound,
      HasArrived, Arrivals
<1>9. OneSeesTheOther'
  BY <1>a, <1>e, <1>0 DEF OneSeesTheOther, HasLoaded
<1>10. TestTypeOK'
  BY <1>1, <1>11, StoresTyped DEF TestTypes, TestTypeOK, BuffersTyped
<1> QED  BY <1>2, <1>3, <1>4, <1>5, <1>6, <1>7, <1>8, <1>9, <1>10, <1>11

\* What stands between store and load: with barriers the store is in memory afterwards.
LEMMA FenceInv ==
  ASSUME MembarrierIInv, mode' = mode, NEW p \in Process, Fence(p)
  PROVE  MembarrierIInv'
<1> DEFINE q == Other(p)
<1> USE RoundsAssumption DEF MembarrierIInv
<1>a. /\ q \in Process /\ q # p /\ Other(p) = q /\ Other(q) = p /\ p \in {"parent", "child"}
      /\ NoThread # p /\ NoThread # q
      /\ Mine(p) \in {"x", "y"} /\ Mine(q) \in {"x", "y"} /\ Mine(p) # Mine(q)
      /\ \A x \in Process : x = p \/ x = q
  BY TwoProcesses
<1>0. TestTypes BY DEF TestTypes, TestTypeOK
<1>e. /\ mbPc[p] = "fence" /\ mbPc'[p] \in {"load", "aborted"}
      /\ mbPc'[q] = mbPc[q]
      /\ i' = i
      /\ seen' = seen
      /\ result' = result
      /\ ready' = ready
      /\ buffer' = buffer
      /\ mode = "mb" => buffer[p] = <<>>
      /\ mode = "mb" => mbPc'[p] = "load"
      /\ killed' = killed \/ mode # "mb"
      /\ mem' = mem
      /\ ref' = ref
      /\ lock' = lock
  BY <1>a, <1>0
  DEF TestTypes, Fence, TestGoto, Drained, Abort, Lock, Unlock, BuffersTyped, shared
<1> HIDE DEF q
<1>1. TestTypes'
  BY <1>a, <1>0 DEF TestTypes, Fence, TestGoto, Drained, Abort, Lock, Unlock
<1>11. BuffersTyped'
  BY <1>a, <1>e, <1>0 DEF BuffersTyped
<1>2. BufferedStores'
  BY <1>a, <1>e, <1>0
  DEF TestTypes, BufferedStores, Rendezvous, InRound, HasArrived, Arrivals, ReadyResults,
      Locking
<1>3. Rendezvous'
  <2>1. Arrivals(p)' = Arrivals(p) /\ Arrivals(q)' = Arrivals(q)
    BY <1>a, <1>e DEF Arrivals, HasArrived, InRound
  <2> QED  BY <2>1, <1>a, <1>e, <1>0 DEF TestTypes, Rendezvous, HasArrived, InRound, Arrivals
<1>4. Locking'
  BY <1>a, <1>e, <1>0 DEF TestTypes, Locking
<1>5. ReadyResults'
  BY <1>a, <1>e, <1>0 DEF ReadyResults
<1>6. FirstLeavesResult'
  BY <1>a, <1>e, <1>0
  DEF TestTypes, ReadyResults, FirstLeavesResult, Locking, Rendezvous, InRound, HasArrived,
      Arrivals
<1>7. Paired'
  BY <1>a, <1>e, <1>0
  DEF TestTypes, Paired, OneSeesTheOther, HasLoaded, ReadyResults, BufferedStores
<1>8. StoresAreSeen'
  BY <1>a, <1>e, Buffers DEF StoresAreSeen, BufferedStores
<1>9. OneSeesTheOther'
  BY <1>a, <1>e, <1>0 DEF OneSeesTheOther, HasLoaded
<1>10. TestTypeOK'
  BY <1>1, <1>11, StoresTyped DEF TestTypes, TestTypeOK, BuffersTyped
<1> QED  BY <1>2, <1>3, <1>4, <1>5, <1>6, <1>7, <1>8, <1>9, <1>10, <1>11

\* The load: with barriers it sees the store of who has loaded before.
LEMMA LoadInv ==
  ASSUME MembarrierIInv, mode' = mode, NEW p \in Process, Load(p)
  PROVE  MembarrierIInv'
<1> DEFINE q == Other(p)
<1> USE RoundsAssumption DEF MembarrierIInv
<1>a. /\ q \in Process /\ q # p /\ Other(p) = q /\ Other(q) = p /\ p \in {"parent", "child"}
      /\ NoThread # p /\ NoThread # q
      /\ Mine(p) \in {"x", "y"} /\ Mine(q) \in {"x", "y"} /\ Mine(p) # Mine(q)
      /\ \A x \in Process : x = p \/ x = q
  BY TwoProcesses
<1>0. TestTypes BY DEF TestTypes, TestTypeOK
<1>e. /\ mbPc[p] = "load" /\ mbPc'[p] \in {"check"}
      /\ mbPc'[q] = mbPc[q]
      /\ i' = i
      /\ seen'[q] = seen[q]
      /\ result' = result
      /\ ready' = ready
      /\ buffer' = buffer
      /\ seen'[p] = Loaded(p, Mine(q))
      /\ mem' = mem
      /\ ref' = ref
      /\ killed' = killed
      /\ lock' = lock
  BY <1>a, <1>0
  DEF TestTypes, Load, TestGoto, Drained, Abort, Lock, Unlock, BuffersTyped, shared
<1> HIDE DEF q
<1>1. TestTypes'
  BY <1>a, <1>0, LoadsOfOther
  DEF TestTypes, Rendezvous, HasArrived, InRound, Arrivals, BufferedStores, shared, Load,
      TestGoto, Drained, Abort, Lock, Unlock
<1>11. BuffersTyped'
  BY <1>a, <1>e, <1>0 DEF BuffersTyped
<1>2. BufferedStores'
  BY <1>a, <1>e, <1>0
  DEF TestTypes, BufferedStores, Rendezvous, InRound, HasArrived, Arrivals, ReadyResults,
      Locking
<1>3. Rendezvous'
  BY <1>a, <1>e, <1>0 DEF TestTypes, Rendezvous, HasArrived, InRound, Arrivals
<1>4. Locking'
  BY <1>a, <1>e, <1>0 DEF TestTypes, Locking
<1>5. ReadyResults'
  BY <1>a, <1>e, <1>0
  DEF TestTypes, ReadyResults, FirstLeavesResult, Locking, Rendezvous, InRound, HasArrived,
      Arrivals
<1>6. FirstLeavesResult'
  BY <1>a, <1>e, <1>0
  DEF TestTypes, ReadyResults, FirstLeavesResult, Locking, Rendezvous, InRound, HasArrived,
      Arrivals
<1>7. Paired'
  BY <1>a, <1>e, <1>0
  DEF TestTypes, Paired, OneSeesTheOther, HasLoaded, ReadyResults, BufferedStores
<1>8. StoresAreSeen'
  BY <1>a, <1>e, <1>0
  DEF TestTypes, StoresAreSeen, BufferedStores, ReadyResults, Locking, Rendezvous, InRound,
      HasArrived, Arrivals
<1>9. OneSeesTheOther'
  BY <1>a, <1>e, <1>0, LoadsOfOther
  DEF TestTypes, OneSeesTheOther, HasLoaded, Paired, StoresAreSeen, ReadyResults, Rendezvous,
      InRound, HasArrived, Arrivals
<1>10. TestTypeOK'
  BY <1>1, <1>11, StoresTyped DEF TestTypes, TestTypeOK, BuffersTyped
<1> QED  BY <1>2, <1>3, <1>4, <1>5, <1>6, <1>7, <1>8, <1>9, <1>10, <1>11

\* The mutex is taken by one.
LEMMA EnterInv ==
  ASSUME MembarrierIInv, mode' = mode, NEW p \in Process, Enter(p)
  PROVE  MembarrierIInv'
<1> DEFINE q == Other(p)
<1> USE RoundsAssumption DEF MembarrierIInv
<1>a. /\ q \in Process /\ q # p /\ Other(p) = q /\ Other(q) = p /\ p \in {"parent", "child"}
      /\ NoThread # p /\ NoThread # q
      /\ Mine(p) \in {"x", "y"} /\ Mine(q) \in {"x", "y"} /\ Mine(p) # Mine(q)
      /\ \A x \in Process : x = p \/ x = q
  BY TwoProcesses
<1>0. TestTypes BY DEF TestTypes, TestTypeOK
<1>e. /\ mbPc[p] = "check" /\ mbPc'[p] \in {"compare"}
      /\ mbPc'[q] = mbPc[q]
      /\ i' = i
      /\ seen' = seen
      /\ result' = result
      /\ ready' = ready
      /\ buffer' = buffer
      /\ buffer[p] = <<>>
      /\ lock = NoThread /\ lock' = p
      /\ mem' = mem
      /\ ref' = ref
      /\ killed' = killed
  BY <1>a, <1>0
  DEF TestTypes, Enter, TestGoto, Drained, Abort, Lock, Unlock, BuffersTyped, shared
<1> HIDE DEF q
<1>1. TestTypes'
  BY <1>a, <1>0
  DEF TestTypes, Rendezvous, HasArrived, InRound, Arrivals, BufferedStores, shared, Enter,
      TestGoto, Drained, Abort, Lock, Unlock
<1>11. BuffersTyped'
  BY <1>a, <1>e, <1>0 DEF BuffersTyped
<1>2. BufferedStores'
  BY <1>a, <1>e, <1>0
  DEF TestTypes, BufferedStores, Rendezvous, InRound, HasArrived, Arrivals, ReadyResults,
      Locking
<1>3. Rendezvous'
  BY <1>a, <1>e, <1>0 DEF TestTypes, Rendezvous, HasArrived, InRound, Arrivals
<1>4. Locking'
  BY <1>a, <1>e, <1>0 DEF TestTypes, Locking
<1>5. ReadyResults'
  BY <1>a, <1>e, <1>0
  DEF TestTypes, ReadyResults, FirstLeavesResult, Locking, Rendezvous, InRound, HasArrived,
      Arrivals
<1>6. FirstLeavesResult'
  BY <1>a, <1>e, <1>0
  DEF TestTypes, ReadyResults, FirstLeavesResult, Locking, Rendezvous, InRound, HasArrived,
      Arrivals
<1>7. Paired'
  BY <1>a, <1>e, <1>0
  DEF TestTypes, Paired, OneSeesTheOther, HasLoaded, ReadyResults, BufferedStores
<1>8. StoresAreSeen'
  BY <1>a, <1>e, <1>0
  DEF TestTypes, StoresAreSeen, BufferedStores, ReadyResults, Locking, Rendezvous, InRound,
      HasArrived, Arrivals
<1>9. OneSeesTheOther'
  BY <1>a, <1>e, <1>0 DEF OneSeesTheOther, HasLoaded
<1>10. TestTypeOK'
  BY <1>1, <1>11, StoresTyped DEF TestTypes, TestTypeOK, BuffersTyped
<1> QED  BY <1>2, <1>3, <1>4, <1>5, <1>6, <1>7, <1>8, <1>9, <1>10, <1>11

\* The first of a round leaves its result.
LEMMA LeaveResultInv ==
  ASSUME MembarrierIInv, mode' = mode, NEW p \in Process, LeaveResult(p)
  PROVE  MembarrierIInv'
<1> DEFINE q == Other(p)
<1> USE RoundsAssumption DEF MembarrierIInv
<1>a. /\ q \in Process /\ q # p /\ Other(p) = q /\ Other(q) = p /\ p \in {"parent", "child"}
      /\ NoThread # p /\ NoThread # q
      /\ Mine(p) \in {"x", "y"} /\ Mine(q) \in {"x", "y"} /\ Mine(p) # Mine(q)
      /\ \A x \in Process : x = p \/ x = q
  BY TwoProcesses
<1>0. TestTypes BY DEF TestTypes, TestTypeOK
<1>e. /\ mbPc[p] = "compare" /\ mbPc'[p] \in {"leave"}
      /\ mbPc'[q] = mbPc[q]
      /\ i' = i
      /\ seen' = seen
      /\ result'[q] = result[q]
      /\ ready'[q] = ready[q]
      /\ buffer' = buffer
      /\ result'[p] = seen[p]
      /\ ready'[p] = TRUE
      /\ ~ ready[q]
      /\ mem' = mem
      /\ ref' = ref
      /\ killed' = killed
      /\ lock' = lock
  BY <1>a, <1>0
  DEF TestTypes, LeaveResult, TestGoto, Drained, Abort, Lock, Unlock, BuffersTyped, shared
<1> HIDE DEF q
<1>1. TestTypes'
  BY <1>a, <1>0
  DEF TestTypes, Rendezvous, HasArrived, InRound, Arrivals, BufferedStores, shared, LeaveResult,
      TestGoto, Drained, Abort, Lock, Unlock
<1>11. BuffersTyped'
  BY <1>a, <1>e, <1>0 DEF BuffersTyped
<1>2. BufferedStores'
  <2>1. buffer[p] = <<>>
    BY <1>a, <1>e DEF BufferedStores
  <2>2. mbPc[q] # "leave"
    BY <1>a, <1>e DEF Locking
  <2> QED  BY <1>a, <1>e, <2>1, <2>2 DEF BufferedStores
<1>3. Rendezvous'
  BY <1>a, <1>e, <1>0 DEF TestTypes, Rendezvous, HasArrived, InRound, Arrivals
<1>4. Locking'
  BY <1>a, <1>e, <1>0 DEF TestTypes, Locking
<1>5. ReadyResults'
  BY <1>a, <1>e, <1>0
  DEF TestTypes, ReadyResults, FirstLeavesResult, Locking, Rendezvous, InRound, HasArrived,
      Arrivals
<1>6. FirstLeavesResult'
  BY <1>a, <1>e, <1>0
  DEF TestTypes, ReadyResults, FirstLeavesResult, Locking, Rendezvous, InRound, HasArrived,
      Arrivals
<1>7. Paired'
  BY <1>a, <1>e, <1>0
  DEF TestTypes, Paired, OneSeesTheOther, HasLoaded, ReadyResults, BufferedStores
<1>8. StoresAreSeen'
  BY <1>a, <1>e, <1>0
  DEF TestTypes, StoresAreSeen, BufferedStores, ReadyResults, Locking, Rendezvous, InRound,
      HasArrived, Arrivals
<1>9. OneSeesTheOther'
  BY <1>a, <1>e, <1>0 DEF OneSeesTheOther, HasLoaded
<1>10. TestTypeOK'
  BY <1>1, <1>11, StoresTyped DEF TestTypes, TestTypeOK, BuffersTyped
<1> QED  BY <1>2, <1>3, <1>4, <1>5, <1>6, <1>7, <1>8, <1>9, <1>10, <1>11

\* The alarm: with barriers one of the two results is 1, so that it is not raised.
LEMMA AlarmInv ==
  ASSUME MembarrierIInv, mode' = mode, NEW p \in Process, Alarm(p)
  PROVE  MembarrierIInv'
<1> DEFINE q == Other(p)
<1> USE RoundsAssumption DEF MembarrierIInv
<1>a. /\ q \in Process /\ q # p /\ Other(p) = q /\ Other(q) = p /\ p \in {"parent", "child"}
      /\ NoThread # p /\ NoThread # q
      /\ Mine(p) \in {"x", "y"} /\ Mine(q) \in {"x", "y"} /\ Mine(p) # Mine(q)
      /\ \A x \in Process : x = p \/ x = q
  BY TwoProcesses
<1>0. TestTypes BY DEF TestTypes, TestTypeOK
<1>e. /\ mbPc[p] = "compare" /\ mbPc'[p] \in {"aborted"}
      /\ mbPc'[q] = mbPc[q]
      /\ i' = i
      /\ seen' = seen
      /\ result' = result
      /\ ready' = ready
      /\ buffer' = buffer
      /\ seen[p] = 0 /\ result[q] = 0 /\ ready[q]
      /\ mem' = mem
      /\ ref' = ref
      /\ lock' = lock
  BY <1>a, <1>0
  DEF TestTypes, Alarm, TestGoto, Drained, Abort, Lock, Unlock, BuffersTyped, shared
<1> HIDE DEF q
<1>1. TestTypes'
  BY <1>a, <1>0
  DEF TestTypes, Rendezvous, HasArrived, InRound, Arrivals, BufferedStores, shared, Alarm,
      TestGoto, Drained, Abort, Lock, Unlock
<1>11. BuffersTyped'
  BY <1>a, <1>e, <1>0 DEF BuffersTyped
<1>2. BufferedStores'
  BY <1>a, <1>e, <1>0
  DEF TestTypes, BufferedStores, Rendezvous, InRound, HasArrived, Arrivals, ReadyResults,
      Locking
<1>3. Rendezvous'
  BY <1>a, <1>e, <1>0 DEF TestTypes, Rendezvous, HasArrived, InRound, Arrivals
<1>4. Locking'
  BY <1>a, <1>e, <1>0 DEF TestTypes, Locking
<1>5. ReadyResults'
  BY <1>a, <1>e, <1>0
  DEF TestTypes, ReadyResults, FirstLeavesResult, Locking, Rendezvous, InRound, HasArrived,
      Arrivals
<1>6. FirstLeavesResult'
  BY <1>a, <1>e, <1>0
  DEF TestTypes, ReadyResults, FirstLeavesResult, Locking, Rendezvous, InRound, HasArrived,
      Arrivals
<1>7. Paired'
  BY <1>a, <1>e, <1>0
  DEF TestTypes, Paired, OneSeesTheOther, HasLoaded, ReadyResults, BufferedStores
<1>8. StoresAreSeen'
  BY <1>a, <1>e, <1>0
  DEF TestTypes, StoresAreSeen, BufferedStores, ReadyResults, Locking, Rendezvous, InRound,
      HasArrived, Arrivals
<1>9. OneSeesTheOther'
  BY <1>a, <1>e, <1>0 DEF OneSeesTheOther, HasLoaded
<1>10. TestTypeOK'
  BY <1>1, <1>11, StoresTyped DEF TestTypes, TestTypeOK, BuffersTyped
<1> QED  BY <1>2, <1>3, <1>4, <1>5, <1>6, <1>7, <1>8, <1>9, <1>10, <1>11

\* The second of a round: the first is in the next one already, at the spin.
LEMMA ResetInv ==
  ASSUME MembarrierIInv, mode' = mode, NEW p \in Process, Reset(p)
  PROVE  MembarrierIInv'
<1> DEFINE q == Other(p)
<1> USE RoundsAssumption DEF MembarrierIInv
<1>a. /\ q \in Process /\ q # p /\ Other(p) = q /\ Other(q) = p /\ p \in {"parent", "child"}
      /\ NoThread # p /\ NoThread # q
      /\ Mine(p) \in {"x", "y"} /\ Mine(q) \in {"x", "y"} /\ Mine(p) # Mine(q)
      /\ \A x \in Process : x = p \/ x = q
  BY TwoProcesses
<1>0. TestTypes BY DEF TestTypes, TestTypeOK
<1>e. /\ mbPc[p] = "compare" /\ mbPc'[p] \in {"leave"}
      /\ mbPc'[q] = mbPc[q]
      /\ i' = i
      /\ seen' = seen
      /\ result' = result
      /\ buffer'[q] = buffer[q]
      /\ ready'[p] = ready[p]
      /\ ready'[q] = FALSE
      /\ ready[q]
      /\ mem' = mem
      /\ ref' = ref
      /\ killed' = killed
      /\ lock' = lock
  BY <1>a, <1>0
  DEF TestTypes, Reset, TestGoto, Drained, Abort, Lock, Unlock, BuffersTyped, shared
<1> HIDE DEF q
<1>1. TestTypes'
  BY <1>a, <1>0
  DEF TestTypes, Rendezvous, HasArrived, InRound, Arrivals, BufferedStores, shared, Reset,
      TestGoto, Drained, Abort, Lock, Unlock
<1>11. BuffersTyped'
  <2>1. <<<<"x", 0>>, <<"y", 0>>>> \in Seq({"x", "y"} \X {0, 1})
    OBVIOUS
  <2>2. buffer[p] \o <<<<"x", 0>>, <<"y", 0>>>> \in Seq({"x", "y"} \X {0, 1})
    BY <2>1 DEF BuffersTyped
  <2> QED  BY <2>2 DEF Reset, BuffersTyped
<1>2. BufferedStores'
  <2>1. buffer[p] = <<>>
    BY <1>a, <1>e DEF BufferedStores
  <2>2. buffer'[p] \in Resetting
    BY <2>1, Buffers DEF Reset, BuffersTyped
  <2>3. i[q] = i[p] + 1 /\ ~ ready[p]
    BY <1>a, <1>e, <1>0
    DEF TestTypes, ReadyResults, Locking, Rendezvous, InRound, HasArrived, Arrivals
  <2> QED  BY <1>a, <1>e, <1>0, <2>2, <2>3 DEF TestTypes, BufferedStores, ReadyResults, Locking
<1>3. Rendezvous'
  <2>1. Arrivals(p)' = Arrivals(p) /\ Arrivals(q)' = Arrivals(q)
    BY <1>a, <1>e DEF Arrivals, HasArrived, InRound
  <2> QED  BY <2>1, <1>a, <1>e, <1>0 DEF TestTypes, Rendezvous, HasArrived, InRound, Arrivals
<1>4. Locking'
  BY <1>a, <1>e, <1>0 DEF TestTypes, Locking
<1>5. ReadyResults'
  BY <1>a, <1>e, <1>0
  DEF TestTypes, ReadyResults, FirstLeavesResult, Locking, Rendezvous, InRound, HasArrived,
      Arrivals
<1>6. FirstLeavesResult'
  BY <1>a, <1>e, <1>0
  DEF TestTypes, ReadyResults, FirstLeavesResult, Locking, Rendezvous, InRound, HasArrived,
      Arrivals
<1>7. Paired'
  BY <1>a, <1>e, <1>0
  DEF TestTypes, Paired, OneSeesTheOther, HasLoaded, ReadyResults, BufferedStores
<1>8. StoresAreSeen'
  BY <1>a, <1>e, <1>0
  DEF TestTypes, StoresAreSeen, BufferedStores, ReadyResults, Locking, Rendezvous, InRound,
      HasArrived, Arrivals
<1>9. OneSeesTheOther'
  BY <1>a, <1>e, <1>0 DEF OneSeesTheOther, HasLoaded
<1>10. TestTypeOK'
  BY <1>1, <1>11, StoresTyped DEF TestTypes, TestTypeOK, BuffersTyped
<1> QED  BY <1>2, <1>3, <1>4, <1>5, <1>6, <1>7, <1>8, <1>9, <1>10, <1>11

\* The mutex is given back when the buffer is empty.
LEMMA LeaveInv ==
  ASSUME MembarrierIInv, mode' = mode, NEW p \in Process, Leave(p)
  PROVE  MembarrierIInv'
<1> DEFINE q == Other(p)
<1> USE RoundsAssumption DEF MembarrierIInv
<1>a. /\ q \in Process /\ q # p /\ Other(p) = q /\ Other(q) = p /\ p \in {"parent", "child"}
      /\ NoThread # p /\ NoThread # q
      /\ Mine(p) \in {"x", "y"} /\ Mine(q) \in {"x", "y"} /\ Mine(p) # Mine(q)
      /\ \A x \in Process : x = p \/ x = q
  BY TwoProcesses
<1>0. TestTypes BY DEF TestTypes, TestTypeOK
<1>e. /\ mbPc[p] = "leave" /\ mbPc'[p] \in {"round"}
      /\ mbPc'[q] = mbPc[q]
      /\ i'[q] = i[q]
      /\ seen' = seen
      /\ result' = result
      /\ ready' = ready
      /\ buffer' = buffer
      /\ i'[p] = i[p] + 1
      /\ buffer[p] = <<>>
      /\ lock' = NoThread
      /\ mem' = mem
      /\ ref' = ref
      /\ killed' = killed
  BY <1>a, <1>0
  DEF TestTypes, Leave, TestGoto, Drained, Abort, Lock, Unlock, BuffersTyped, shared
<1> HIDE DEF q
<1>1. TestTypes'
  BY <1>a, <1>0
  DEF TestTypes, Rendezvous, HasArrived, InRound, Arrivals, BufferedStores, shared, Leave,
      TestGoto, Drained, Abort, Lock, Unlock
<1>11. BuffersTyped'
  BY <1>a, <1>e, <1>0 DEF BuffersTyped
<1>2. BufferedStores'
  BY <1>a, <1>e, <1>0
  DEF TestTypes, BufferedStores, Rendezvous, InRound, HasArrived, Arrivals, ReadyResults,
      Locking
<1>3. Rendezvous'
  <2>1. Arrivals(p)' = Arrivals(p) /\ Arrivals(q)' = Arrivals(q)
    BY <1>a, <1>e, <1>0 DEF TestTypes, Arrivals, HasArrived, InRound
  <2>2. i[q] >= i[p] /\ i[p] < Rounds /\ i[q] <= i[p] + 1
    BY <1>a, <1>e, <1>0 DEF TestTypes, Rendezvous, HasArrived, InRound, Arrivals
  <2>3. i'[p] <= i'[q] + 1 /\ i'[q] <= i'[p] + 1
    <3>1. i[p] \in Nat /\ i[q] \in Nat /\ i'[p] = i[p] + 1 /\ i'[q] = i[q]
      BY <1>a, <1>e, <1>0 DEF TestTypes
    <3> QED  BY ONLY <2>2, <3>1
  <2>4. ref' <= Arrivals(p)' + Arrivals(q)' /\ ref' <= Arrivals(q)' + Arrivals(p)'
    BY <1>a, <1>e, <1>0, <2>1 DEF TestTypes, Rendezvous
  <2> QED  BY <1>a, <1>e, <1>0, <2>1, <2>2, <2>3, <2>4
           DEF TestTypes, Rendezvous, HasArrived, InRound
<1>4. Locking'
  BY <1>a, <1>e, <1>0 DEF TestTypes, Locking
<1>5. ReadyResults'
  <2>1. i[p] \in Nat /\ i[q] \in Nat
    BY <1>a, <1>0 DEF TestTypes
  <2>2. ready[q] => mbPc[p] # "leave"
    BY <1>a DEF ReadyResults
  <2>3. ready[p] => i[p] = i[q] \/ i[p] = i[q] + 1
    BY <1>a DEF ReadyResults
  <2>4. i[q] >= i[p]
    BY <1>a, <1>e, <2>1 DEF Rendezvous, HasArrived, InRound, Arrivals
  <2>5. ready[p] => i'[p] = i'[q] + 1
    BY <1>e, <2>1, <2>3, <2>4
  <2> QED  BY <1>a, <1>e, <2>2, <2>5 DEF ReadyResults
<1>6. FirstLeavesResult'
  <2>1. i[p] \in Nat /\ i[q] \in Nat /\ i'[p] = i[p] + 1 /\ i'[q] = i[q]
    BY <1>a, <1>e, <1>0 DEF TestTypes
  <2>2. i[q] >= i[p] /\ i[q] <= i[p] + 1
    BY <1>a, <1>e, <2>1 DEF Rendezvous, HasArrived, InRound, Arrivals
  <2>3. mbPc[q] # "leave"
    BY <1>a, <1>e DEF Locking
  <2>4. i[p] = i[q] => ready[p] /\ HasArrived(q)
    <3>1. i[p] = i[q] => ready[p]
      BY <1>a, <1>e DEF FirstLeavesResult
    <3>2. Arrivals(q) >= i[p] + 1
      BY <1>a, <1>e DEF Rendezvous, InRound
    <3>3. ~ HasArrived(q) => Arrivals(q) = i[q]
      BY DEF Arrivals
    <3> QED  BY <2>1, <3>1, <3>2, <3>3
  <2>5. HasArrived(q)' = HasArrived(q)
    BY <1>a, <1>e DEF HasArrived, InRound
  <2>6. ~ (i'[q] = i'[p] + 1) /\ mbPc'[p] # "leave" /\ mbPc'[q] # "leave"
    BY <1>e, <2>1, <2>2, <2>3
  <2>7. i'[p] = i'[q] + 1 => HasArrived(q)' /\ ready'[p]
    BY <1>e, <2>1, <2>4, <2>5
  <2> QED  BY <1>a, <2>6, <2>7 DEF FirstLeavesResult
<1>7. Paired'
  BY <1>a, <1>e, <1>0
  DEF TestTypes, Paired, OneSeesTheOther, HasLoaded, ReadyResults, BufferedStores
<1>8. StoresAreSeen'
  BY <1>a, <1>e DEF StoresAreSeen
<1>9. OneSeesTheOther'
  BY <1>a, <1>e, <1>0 DEF OneSeesTheOther, HasLoaded
<1>10. TestTypeOK'
  BY <1>1, <1>11, StoresTyped DEF TestTypes, TestTypeOK, BuffersTyped
<1> QED  BY <1>2, <1>3, <1>4, <1>5, <1>6, <1>7, <1>8, <1>9, <1>10, <1>11

\* A store reaches the memory: one of the round, or a reset while nobody is past the spin.
LEMMA DrainInv ==
  ASSUME MembarrierIInv, mode' = mode, NEW p \in Process, Drain(p)
  PROVE  MembarrierIInv'
<1> DEFINE q == Other(p)
<1> USE RoundsAssumption DEF MembarrierIInv
<1>a. /\ q \in Process /\ q # p /\ Other(p) = q /\ Other(q) = p /\ p \in {"parent", "child"}
      /\ NoThread # p /\ NoThread # q
      /\ Mine(p) \in {"x", "y"} /\ Mine(q) \in {"x", "y"} /\ Mine(p) # Mine(q)
      /\ \A x \in Process : x = p \/ x = q
  BY TwoProcesses
<1>0. TestTypes BY DEF TestTypes, TestTypeOK
<1>e. /\ mbPc' = mbPc
      /\ i' = i
      /\ seen' = seen
      /\ result' = result
      /\ ready' = ready
      /\ buffer'[q] = buffer[q]
      /\ ref' = ref
      /\ killed' = killed
      /\ lock' = lock
  BY <1>a, <1>0
  DEF TestTypes, Drain, TestGoto, Drained, Abort, Lock, Unlock, BuffersTyped, shared
<1>d. \/ /\ buffer[p] = Storing(p) /\ buffer'[p] = <<>>
         /\ mem' = [mem EXCEPT ![Mine(p)] = 1]
      \/ /\ mbPc[p] = "leave" /\ i[q] = i[p] + 1 /\ ~ ready[p] /\ ~ ready[q]
         /\ buffer'[p] = <<>> \/ buffer'[p] \in Resetting
         /\ \E v \in {"x", "y"} : mem' = [mem EXCEPT ![v] = 0]
  <2>1. \/ buffer[p] = Storing(p)
        \/ /\ buffer[p] \in Resetting
           /\ mbPc[p] = "leave" /\ i[q] = i[p] + 1 /\ ~ ready[p] /\ ~ ready[q]
    BY DEF Drain, Drained, BufferedStores
  <2>2. buffer'[p] = Tail(buffer[p])
    BY DEF Drain, BuffersTyped
  <2>3. mem' = [mem EXCEPT ![Head(buffer[p])[1]] = Head(buffer[p])[2]]
    BY DEF Drain
  <2>4. CASE buffer[p] = Storing(p)
    <3>1. Head(buffer[p]) = <<Mine(p), 1>> /\ Tail(buffer[p]) = <<>>
      BY <2>4, Buffers
    <3>2. Head(buffer[p])[1] = Mine(p) /\ Head(buffer[p])[2] = 1
      BY <3>1
    <3> QED  BY <2>2, <2>3, <2>4, <3>1, <3>2
  <2>5. CASE buffer[p] \in Resetting
    <3>1. /\ Head(buffer[p]) \in {<<"x", 0>>, <<"y", 0>>}
          /\ Tail(buffer[p]) = <<>> \/ Tail(buffer[p]) \in Resetting
      BY <2>5, Buffers
    <3>2. Head(buffer[p])[1] \in {"x", "y"} /\ Head(buffer[p])[2] = 0
      BY <3>1
    <3> QED  BY <2>1, <2>2, <2>3, <2>5, <3>1, <3>2, Buffers
  <2> QED  BY <2>1, <2>4, <2>5
<1> HIDE DEF q
<1>1. TestTypes'
  BY <1>a, <1>e, <1>d, <1>0 DEF TestTypes
<1>11. BuffersTyped'
  <2>1. Tail(buffer[p]) \in Seq({"x", "y"} \X {0, 1})
    BY DEF BuffersTyped, Drain, Drained
  <2> QED  BY <2>1 DEF Drain, BuffersTyped
<1>2. BufferedStores'
  BY <1>a, <1>e, <1>d, <1>0
  DEF TestTypes, BufferedStores, Rendezvous, InRound, HasArrived, Arrivals, ReadyResults,
      Locking
<1>3. Rendezvous'
  BY <1>a, <1>e, <1>0 DEF TestTypes, Rendezvous, HasArrived, InRound, Arrivals
<1>4. Locking'
  BY <1>a, <1>e, <1>0 DEF TestTypes, Locking
<1>5. ReadyResults'
  BY <1>a, <1>e, <1>0
  DEF TestTypes, ReadyResults, FirstLeavesResult, Locking, Rendezvous, InRound, HasArrived,
      Arrivals
<1>6. FirstLeavesResult'
  BY <1>a, <1>e, <1>0
  DEF TestTypes, ReadyResults, FirstLeavesResult, Locking, Rendezvous, InRound, HasArrived,
      Arrivals
<1>7. Paired'
  BY <1>a, <1>e, <1>d, <1>0
  DEF TestTypes, Paired, OneSeesTheOther, HasLoaded, ReadyResults, BufferedStores
<1>8. StoresAreSeen'
  BY <1>a, <1>e, <1>d, <1>0
  DEF TestTypes, StoresAreSeen, Paired, BufferedStores, ReadyResults, Locking, Rendezvous,
      InRound, HasArrived, Arrivals
<1>9. OneSeesTheOther'
  BY <1>a, <1>e, <1>0 DEF OneSeesTheOther, HasLoaded
<1>10. TestTypeOK'
  BY <1>1, <1>11, StoresTyped DEF TestTypes, TestTypeOK, BuffersTyped
<1> QED  BY <1>2, <1>3, <1>4, <1>5, <1>6, <1>7, <1>8, <1>9, <1>10, <1>11

\* Every step of the test keeps the invariant.
LEMMA TestStepInv == MembarrierIInv /\ [TestNext]_mbVars => MembarrierIInv'
<1> SUFFICES ASSUME MembarrierIInv, [TestNext]_mbVars PROVE MembarrierIInv'
  OBVIOUS
<1>1. ASSUME mode' = mode, NEW p \in Process, Loop(p) \/ Drain(p) PROVE MembarrierIInv'
  BY <1>1, RegisterInv, ArriveInv, SpinInv, SpinKilledInv, StoreInv, FenceInv, LoadInv,
     EnterInv,
     LeaveResultInv, AlarmInv, ResetInv, LeaveInv, DrainInv DEF Loop, Check
<1>2. CASE UNCHANGED mbVars
  BY <1>2
  DEF mbVars, shared, MembarrierIInv, TestTypeOK, BuffersTyped, BufferedStores, Rendezvous,
      Locking, ReadyResults, FirstLeavesResult, Paired, StoresAreSeen, OneSeesTheOther, HasLoaded,
      InRound, HasArrived, Arrivals
<1> QED  BY <1>1, <1>2 DEF TestNext, TestTerminated

\* What the invariant says of alarms, results and resets.
LEMMA MembarrierFromIInv == MembarrierIInv => MembarrierInv
<1> SUFFICES ASSUME MembarrierIInv PROVE MembarrierInv
  OBVIOUS
<1> USE DEF MembarrierIInv
<1>1. TestTypeOK /\ NoAlarm
  BY DEF Paired, NoAlarm
<1>2. ResultsOfOneRound
  BY TwoProcesses DEF ResultsOfOneRound, ReadyResults, Locking, TestTypeOK
<1>3. NoStoreIsWiped
  <2> SUFFICES ASSUME NEW p \in Process, mbPc[p] \in {"fence", "load"},
                      NEW q \in Process, NEW n \in DOMAIN buffer[q], buffer[q][n] = <<Mine(p), 0>>
               PROVE  FALSE
    BY DEF NoStoreIsWiped
  <2>1. buffer[q] # <<>>
    OBVIOUS
  <2>2. ~ (buffer[q] = Storing(q))
    BY DEF Storing
  <2>3. mbPc[q] = "leave" /\ i[Other(q)] = i[q] + 1
    BY <2>1, <2>2 DEF BufferedStores
  <2>4. p = Other(q) /\ Other(p) = q
    BY <2>3, TwoProcesses
  <2>5. InRound(p) /\ Arrivals(q) = i[q] + 1 /\ i[q] \in Nat /\ i[p] \in Nat
    BY <2>3 DEF InRound, HasArrived, Arrivals, TestTypeOK
  <2>6. Arrivals(q) >= i[p] + 1
    BY <2>4, <2>5 DEF Rendezvous
  <2> QED  BY <2>3, <2>4, <2>5, <2>6
<1> QED  BY <1>1, <1>2, <1>3 DEF MembarrierInv

\* The safety of the memory barrier test, for any number of rounds and in all modes:
\* with barriers it raises no alarm, a result is compared with that of the same round,
\* and no reset comes after a store of the next round.
THEOREM TestIsSafe == TestSpec => []MembarrierInv
<1>1. TestInit => MembarrierIInv
  BY TestInitInv
<1>2. MembarrierIInv /\ [TestNext]_mbVars => MembarrierIInv'
  BY TestStepInv
<1>3. MembarrierIInv => MembarrierInv
  BY MembarrierFromIInv
<1> QED  BY <1>1, <1>2, <1>3, PTL DEF TestSpec
=============================================================================
