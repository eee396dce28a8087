---------------------------- MODULE RacesProofs -----------------------------
(***************************************************************************)
(* Proofs about programs that share data without a lock, or under one that *)
(* does not cover all they do: CountThreshold's four for every number of   *)
(* rounds that reaches the limit, and those of MCRaces, one section each,  *)
(* for all sizes: the receivers of udp_server.c, the item buffer of        *)
(* os21.c, the queue of queue_cyclic.c, the barriers of membarrier.h       *)
(* without their lock, and the frames of camera_thread.c. The last         *)
(* section puts MCRaces's together: RacesInv and FramesAreSteady.          *)
(***************************************************************************)
EXTENDS CountThreshold, MCRaces, SequenceTheorems, FiniteSetTheorems, WellFoundedInduction,
        TLAPS

-----------------------------------------------------------------------------
(***************************************************************************)
(* Four programs that count to a limit: the counter is what the adders     *)
(* have stored, and the bonus, and who waits for the limit is still to be  *)
(* told.                                                                   *)
(***************************************************************************)

\* The increments that have been stored.
RoundsDone(a) == IF a \in Adders THEN ctI[a] ELSE 0
Increments == RoundsDone("t2") + RoundsDone("t3") + RoundsDone("t4")

\* Who is between a lock and an unlock has the mutex, and nobody else.
Holds(t) == pc[t] \in {"store", "test", "add", "added"}
LockInv  == \A t \in Thread : Holds(t) <=> mutex = t

\* The adders and the watcher are where they can be, and ended with their rounds done.
PlaceInv ==
  /\ \A a \in Adders : /\ pc[a] \in {"loop", "store", "ended"}
                       /\ pc[a] = "store" => ctI[a] < TCOUNT
                       /\ pc[a] = "ended" => ctI[a] = TCOUNT
  /\ pc["watcher"] \in {"lock", "test", "wait", "add", "added", "ended"}
  /\ version = "use_condition" => pc["watcher"] \notin {"add", "added"}

\* Nobody changes count between a load and its store.
LoadInv == \A t \in Thread : pc[t] \in {"store", "added"} => reg[t] = count

\* The bonus is in count when the watcher has left, and in cond_var if it has slept.
BonusInv ==
  CASE version = "use_condition" -> count = Increments
    [] version = "cond_var" ->
         IF pc["watcher"] \in {"test", "ended"} THEN count \in {Increments, Increments + Bonus}
         ELSE count = Increments
    [] OTHER -> count = Increments + (IF pc["watcher"] = "ended" THEN Bonus ELSE 0)

\* The watcher sleeps below the limit, and adds its bonus at the limit.
LimitInv ==
  /\ cond # {} => pc["watcher"] = "wait" /\ count < COUNT_LIMIT
  /\ version # "cond_var" /\ pc["watcher"] \in {"add", "added"} => count >= COUNT_LIMIT

IInv == TypeOK /\ LockInv /\ PlaceInv /\ LoadInv /\ BonusInv /\ LimitInv
-----------------------------------------------------------------------------
\* The settings of the version that is run.
LEMMA SettingIs ==
  ASSUME version \in Programs
  PROVE  /\ Adders = IF version = "with_conditions" THEN {"t2", "t3", "t4"} ELSE {"t2", "t3"}
         /\ TCOUNT = CASE version = "with_conditions" -> RoundsWithConditions
                       [] version = "use_condition" -> 5
                       [] OTHER -> 10
         /\ COUNT_LIMIT = IF version = "use_condition" THEN 7 ELSE 12
  BY DEF Programs, Adders, TCOUNT, COUNT_LIMIT, Settings, Setting

\* Three threads add in thread_with_conditions.c and two in the others.
LEMMA CardinalityIs ==
  ASSUME version \in Programs
  PROVE  Cardinality(Adders) = IF version = "with_conditions" THEN 3 ELSE 2
<1>1. /\ IsFiniteSet({"t2"}) /\ Cardinality({"t2"}) = 1
  BY FS_Singleton
<1>2. IsFiniteSet({"t2", "t3"}) /\ Cardinality({"t2", "t3"}) = 2
  <2>1. {"t2", "t3"} = {"t2"} \cup {"t3"} /\ "t3" \notin {"t2"}
    OBVIOUS
  <2> QED
    BY <1>1, <2>1, FS_AddElement
<1>3. Cardinality({"t2", "t3", "t4"}) = 3
  <2>1. {"t2", "t3", "t4"} = {"t2", "t3"} \cup {"t4"} /\ "t4" \notin {"t2", "t3"}
    OBVIOUS
  <2> QED
    BY <1>2, <2>1, FS_AddElement
<1> QED
  BY <1>2, <1>3, SettingIs

\* The increments there will be, and those there can have been.
LEMMA TotalIs ==
  ASSUME version \in Programs, ctI \in [Adders -> 0 .. TCOUNT]
  PROVE  /\ Cardinality(Adders) * TCOUNT \in Nat /\ TCOUNT \in Nat
         /\ Increments \in Nat /\ Increments <= Cardinality(Adders) * TCOUNT
         /\ (\A a \in Adders : ctI[a] = TCOUNT) => Increments = Cardinality(Adders) * TCOUNT
<1> USE SettingIs, CardinalityIs, ThresholdAssumption
<1>1. CASE version = "with_conditions"
  <2>1. /\ Adders = {"t2", "t3", "t4"} /\ Cardinality(Adders) = 3
        /\ TCOUNT = RoundsWithConditions /\ TCOUNT \in Nat
    BY <1>1
  <2>2. \A a \in {"t2", "t3", "t4"} : ctI[a] \in Nat /\ ctI[a] <= TCOUNT
    BY <2>1
  <2>3. Increments = ctI["t2"] + ctI["t3"] + ctI["t4"]
    BY <2>1 DEF Increments, RoundsDone
  <2> HIDE SettingIs, CardinalityIs, ThresholdAssumption
  <2> QED
    BY <2>1, <2>2, <2>3
<1>2. CASE version # "with_conditions"
  <2>1. /\ Adders = {"t2", "t3"} /\ Cardinality(Adders) = 2 /\ TCOUNT \in Nat
    BY <1>2
  <2>2. \A a \in {"t2", "t3"} : ctI[a] \in Nat /\ ctI[a] <= TCOUNT
    BY <2>1
  <2>3. Increments = ctI["t2"] + ctI["t3"]
    BY <2>1, <2>2 DEF Increments, RoundsDone
  <2> HIDE SettingIs, CardinalityIs, ThresholdAssumption
  <2> QED
    BY <2>1, <2>2, <2>3
<1> QED
  BY <1>1, <1>2

\* The watcher is none of the adders, and nobody is called NoThread.
LEMMA Threads ==
  ASSUME version \in Programs
  PROVE  /\ "watcher" \notin Adders /\ Thread = Adders \cup {"watcher"} /\ NoThread \notin Thread
         /\ COUNT_LIMIT \in Nat /\ COUNT_LIMIT <= Bonus
  BY SettingIs DEF Thread, NoThread, Bonus
-----------------------------------------------------------------------------
\* All programs begin with a count of 0 and no sleeper.
LEMMA InitInv == Init => IInv
<1> SUFFICES ASSUME Init PROVE IInv
  OBVIOUS
<1>1. version \in Programs /\ ctI = [a \in Adders |-> 0] /\ count = 0 /\ cond = {}
  BY DEF Init
<1>2. TCOUNT \in Nat /\ ctI \in [Adders -> 0 .. TCOUNT]
  BY <1>1, SettingIs, ThresholdAssumption
<1>3. Increments = 0
  BY <1>1 DEF Increments, RoundsDone
<1>4. /\ \A a \in Adders : a \in Thread /\ pc[a] = "loop"
      /\ pc["watcher"] = "lock" /\ mutex = NoThread
      /\ \A t \in Thread : pc[t] \in {"loop", "lock"}
  BY <1>1, Threads DEF Init
<1>5. TypeOK
  <2>1. 0 \in 0 .. Cardinality(Adders) * TCOUNT + Bonus
    BY <1>1, <1>2, TotalIs DEF Bonus
  <2>2. reg \in [Thread -> 0 .. Cardinality(Adders) * TCOUNT + Bonus]
    BY <2>1 DEF Init
  <2>3. pc \in [Thread -> {"loop", "store", "lock", "test", "wait", "add", "added", "ended"}]
    BY DEF Init
  <2> QED
    BY <1>1, <1>2, <1>4, <2>1, <2>2, <2>3 DEF TypeOK
<1>6. LockInv /\ PlaceInv /\ LoadInv
  BY <1>1, <1>4, Threads DEF LockInv, Holds, PlaceInv, LoadInv
<1>7. BonusInv /\ LimitInv
  BY <1>1, <1>3, <1>4 DEF BonusInv, LimitInv
<1> QED
  BY <1>5, <1>6, <1>7 DEF IInv

\* All four ways of announcing wake the watcher with the increment that hits the limit.
StoreStep(a) ==
  /\ pc[a] = "store" /\ Goto(a, "loop")
  /\ count' = reg[a] + 1 /\ ctI' = [ctI EXCEPT ![a] = @ + 1]
  /\ mutex' = NoThread
  /\ cond' \subseteq cond /\ (count' = COUNT_LIMIT => cond' = {})
  /\ UNCHANGED <<version, reg>>

\* What the four ways to store the count have in common.
LEMMA StoreIs ==
  ASSUME TypeOK, NEW a \in Adders,
         StoreCondVar(a) \/ StoreWithConditions(a) \/ StoreUseCondition(a) \/ StoreSix(a)
  PROVE  StoreStep(a)
<1>1. COUNT_LIMIT' = COUNT_LIMIT
  BY DEF StoreCondVar, StoreWithConditions, StoreUseCondition, StoreSix, StoreCount, COUNT_LIMIT
<1>2. COUNT_LIMIT \in Nat
  BY Threads DEF TypeOK
<1>3. ASSUME cond' \subseteq cond, count' = COUNT_LIMIT => cond' = {} PROVE StoreStep(a)
  BY <1>3
     DEF StoreCondVar, StoreWithConditions, StoreUseCondition, StoreSix, StoreCount, StoreStep,
         Unlock
<1>4. ASSUME CondSignal(cond) PROVE cond' = {}
  BY <1>4 DEF CondSignal, TypeOK
<1>5. cond' \subseteq cond
  BY <1>4 DEF StoreCondVar, StoreWithConditions, StoreUseCondition, StoreSix, StoreCount,
              CondBroadcast
<1>6. count' = COUNT_LIMIT => cond' = {}
  BY <1>1, <1>2, <1>4
     DEF StoreCondVar, StoreWithConditions, StoreUseCondition, StoreSix, StoreCount, CondBroadcast
<1> QED
  BY <1>3, <1>5, <1>6

\* The steps of the four programs, with what all stores have in common.
LEMMA Steps ==
  ASSUME TypeOK, [Next]_vars
  PROVE  \/ \E a \in Adders : EnterLoop(a) \/ Exit(a) \/ StoreStep(a)
         \/ WatchLock \/ WatchWait
         \/ version # "cond_var" /\ WatchWake("test")
         \/ version = "cond_var" /\ (WatchWake("add") \/ WatchAdd)
         \/ version \in {"cond_var", "use_condition"} /\ WatchLeave
         \/ version \in {"with_conditions", "six"} /\ (WatchPass \/ WatchAddAndLeave)
         \/ version # "use_condition" /\ WatchLoad
         \/ SpuriousWakeup \/ UNCHANGED vars
  BY StoreIs
     DEF Next, Add, Watch, WatchCondVar, WatchWithConditions, WatchUseCondition, WatchSix,
         Terminated

\* A version, its threads and its limits stay what they are.
LEMMA SameProgram ==
  ASSUME TypeOK, [Next]_vars
  PROVE  /\ version' = version /\ Adders' = Adders /\ Thread' = Thread /\ TCOUNT' = TCOUNT
         /\ COUNT_LIMIT' = COUNT_LIMIT
<1>1. version' = version
  BY Steps
     DEF EnterLoop, Exit, StoreStep, WatchLock, WatchWait, WatchWake, WatchAdd, WatchLeave,
         WatchPass,
         WatchAddAndLeave, WatchLoad, SpuriousWakeup, vars
<1> QED
  BY <1>1 DEF Adders, Thread, TCOUNT, COUNT_LIMIT

\* An increment more.
LEMMA OneMore ==
  ASSUME TypeOK, NEW a \in Adders, version' = version, ctI' = [ctI EXCEPT ![a] = @ + 1]
  PROVE  Increments' = Increments + 1
<1>1. /\ a \in {"t2", "t3", "t4"} /\ Adders' = Adders
      /\ \A b \in Adders : ctI[b] \in Nat
  BY SettingIs, ThresholdAssumption, TotalIs DEF TypeOK, Adders
<1>2. \A b \in {"t2", "t3", "t4"} : /\ RoundsDone(b) \in Nat
                                    /\ RoundsDone(b)' = RoundsDone(b) + (IF b = a THEN 1 ELSE 0)
  BY <1>1 DEF RoundsDone, TypeOK
<1> HIDE DEF RoundsDone
<1>3. a = "t2" \/ a = "t3" \/ a = "t4"
  BY <1>1
<1>4. /\ RoundsDone("t2") \in Nat /\ RoundsDone("t3") \in Nat /\ RoundsDone("t4") \in Nat
      /\ RoundsDone("t2")' = RoundsDone("t2") + (IF "t2" = a THEN 1 ELSE 0)
      /\ RoundsDone("t3")' = RoundsDone("t3") + (IF "t3" = a THEN 1 ELSE 0)
      /\ RoundsDone("t4")' = RoundsDone("t4") + (IF "t4" = a THEN 1 ELSE 0)
  BY <1>2
<1> QED
  BY <1>3, <1>4 DEF Increments

\* What only the holder of the mutex does.
LEMMA LockStep == IInv /\ [Next]_vars => LockInv'
<1> SUFFICES ASSUME IInv, [Next]_vars PROVE LockInv'
  OBVIOUS
<1>1. /\ Thread = Adders \cup {"watcher"} /\ "watcher" \notin Adders /\ NoThread \notin Thread
      /\ Thread' = Thread /\ TypeOK /\ LockInv /\ PlaceInv
  BY Threads, SameProgram DEF IInv, TypeOK
<1> USE <1>1 DEF TypeOK, LockInv, Holds, Goto, Lock, Unlock
<1> HIDE DEF Thread, NoThread
<1>2. ASSUME NEW a \in Adders, EnterLoop(a) \/ Exit(a) \/ StoreStep(a) PROVE LockInv'
  BY <1>2 DEF EnterLoop, Exit, StoreStep
<1>3. CASE WatchLock \/ WatchWait \/ WatchWake("test") \/ WatchWake("add")
  BY <1>3 DEF WatchLock, WatchWait, WatchWake, CondWait, CondResume
<1>4. CASE WatchAdd \/ WatchLeave \/ WatchPass \/ WatchAddAndLeave \/ WatchLoad
  BY <1>4 DEF WatchAdd, WatchLeave, WatchPass, WatchAddAndLeave, WatchLoad
<1>5. CASE SpuriousWakeup \/ UNCHANGED vars
  BY <1>5 DEF SpuriousWakeup, vars
<1> QED
  BY <1>2, <1>3, <1>4, <1>5, Steps

\* A thread is at a place of its own version, with rounds left where it needs them.
LEMMA PlaceStep == IInv /\ [Next]_vars => PlaceInv'
<1> SUFFICES ASSUME IInv, [Next]_vars PROVE PlaceInv'
  OBVIOUS
<1>1. /\ Thread = Adders \cup {"watcher"} /\ "watcher" \notin Adders
      /\ Adders' = Adders /\ TCOUNT' = TCOUNT /\ version' = version /\ TypeOK /\ PlaceInv
      /\ TCOUNT \in Nat
  BY Threads, SameProgram, TotalIs DEF IInv, TypeOK
<1> USE <1>1 DEF TypeOK, PlaceInv, Goto
<1> HIDE DEF Thread
<1>2. ASSUME NEW a \in Adders, EnterLoop(a) \/ Exit(a) \/ StoreStep(a) PROVE PlaceInv'
  BY <1>2 DEF EnterLoop, Exit, StoreStep
<1>3. CASE \/ WatchLock \/ WatchWait \/ WatchWake("test") \/ WatchLeave
           \/ version = "cond_var" /\ WatchWake("add")
  BY <1>3 DEF WatchLock, WatchWait, WatchWake, WatchLeave
<1>4. CASE \/ version = "cond_var" /\ WatchAdd
           \/ version \in {"with_conditions", "six"} /\ (WatchPass \/ WatchAddAndLeave)
           \/ version # "use_condition" /\ WatchLoad
  BY <1>4 DEF WatchAdd, WatchPass, WatchAddAndLeave, WatchLoad
<1>5. CASE SpuriousWakeup \/ UNCHANGED vars
  BY <1>5 DEF SpuriousWakeup, vars
<1> QED
  BY <1>2, <1>3, <1>4, <1>5, Steps

\* The mutex is held from a load to the store.
LEMMA LoadStep == IInv /\ [Next]_vars => LoadInv'
<1> SUFFICES ASSUME IInv, [Next]_vars PROVE LoadInv'
  OBVIOUS
<1>1. /\ Thread = Adders \cup {"watcher"} /\ "watcher" \notin Adders /\ NoThread \notin Thread
      /\ Thread' = Thread /\ TypeOK /\ LoadInv
  BY Threads, SameProgram DEF IInv, TypeOK
<1>2. \A t, u \in Thread : Holds(t) /\ Holds(u) => t = u
  BY DEF IInv, LockInv
<1>3. \A t \in Thread : mutex = NoThread => ~ Holds(t)
  BY <1>1 DEF IInv, LockInv
<1> USE <1>1 DEF TypeOK, LoadInv, Goto, LoadCount
<1> HIDE DEF Thread, NoThread
<1>4. ASSUME NEW a \in Adders, EnterLoop(a) PROVE LoadInv'
  BY <1>3, <1>4 DEF EnterLoop, Lock
<1>5. ASSUME NEW a \in Adders, Exit(a) PROVE LoadInv'
  BY <1>5 DEF Exit
<1>6. ASSUME NEW a \in Adders, StoreStep(a) PROVE LoadInv'
  BY <1>2, <1>6 DEF StoreStep, Holds
<1>7. CASE WatchLock \/ WatchWait \/ WatchWake("test") \/ WatchWake("add") \/ WatchPass
  BY <1>7 DEF WatchLock, WatchWait, WatchWake, WatchPass
<1>8. CASE WatchLoad \/ WatchLeave
  BY <1>8 DEF WatchLoad, WatchLeave
<1>9. CASE WatchAdd \/ WatchAddAndLeave
  BY <1>2, <1>9 DEF WatchAdd, WatchAddAndLeave, Holds
<1>10. CASE SpuriousWakeup \/ UNCHANGED vars
  BY <1>10 DEF SpuriousWakeup, vars
<1> QED
  BY <1>4, <1>5, <1>6, <1>7, <1>8, <1>9, <1>10, Steps

\* Every increment counts, and the bonus once.
LEMMA BonusStep == IInv /\ [Next]_vars => BonusInv'
<1> SUFFICES ASSUME IInv, [Next]_vars PROVE BonusInv'
  OBVIOUS
<1>1. /\ Thread = Adders \cup {"watcher"} /\ "watcher" \notin Adders
      /\ Adders' = Adders /\ version' = version /\ TypeOK /\ PlaceInv /\ BonusInv
      /\ COUNT_LIMIT \in Nat /\ COUNT_LIMIT <= Bonus
  BY Threads, SameProgram DEF IInv, TypeOK
<1>2. Increments \in Nat /\ count \in Nat /\ Bonus = 125
  BY <1>1, TotalIs DEF TypeOK, Bonus
<1>3. ASSUME UNCHANGED ctI PROVE Increments' = Increments
  BY <1>1, <1>3 DEF Increments, RoundsDone
<1>4. pc \in [Thread -> {"loop", "store", "lock", "test", "wait", "add", "added", "ended"}]
      /\ version \in Programs
  BY <1>1 DEF TypeOK
<1> USE <1>1 DEF BonusInv, Goto
<1> HIDE DEF Thread, Adders, Increments, Bonus
<1>5. ASSUME NEW a \in Adders, EnterLoop(a) \/ Exit(a) PROVE BonusInv'
  BY <1>3, <1>4, <1>5 DEF EnterLoop, Exit
<1>6. ASSUME NEW a \in Adders, StoreStep(a) PROVE BonusInv'
  <2>1. count' = count + 1 /\ Increments' = Increments + 1
    BY <1>6, OneMore DEF StoreStep, IInv, LoadInv
  <2>2. pc'["watcher"] = pc["watcher"]
    BY <1>4, <1>6 DEF StoreStep
  <2> QED
    BY <1>2, <2>1, <2>2
<1>7. CASE WatchLock \/ WatchWait
  <2>1. /\ count' = count /\ Increments' = Increments
        /\ pc["watcher"] \in {"lock", "test"} /\ pc'["watcher"] \in {"test", "wait"}
        /\ pc'["watcher"] = "wait" => pc["watcher"] = "test" /\ count < COUNT_LIMIT
    BY <1>3, <1>4, <1>7 DEF WatchLock, WatchWait
  <2> QED
    BY <1>2, <2>1
<1>8. CASE \/ version # "cond_var" /\ WatchWake("test")
           \/ version = "cond_var" /\ WatchWake("add")
  <2>1. /\ count' = count /\ Increments' = Increments /\ pc["watcher"] = "wait"
        /\ pc'["watcher"] = IF version = "cond_var" THEN "add" ELSE "test"
    BY <1>3, <1>4, <1>8 DEF WatchWake
  <2> QED
    BY <1>2, <2>1
<1>9. CASE \/ version \in {"cond_var", "use_condition"} /\ WatchLeave
           \/ version \in {"with_conditions", "six"} /\ WatchPass
           \/ version # "use_condition" /\ WatchLoad
  <2>1. count' = count /\ Increments' = Increments
    BY <1>3, <1>9 DEF WatchLeave, WatchPass, WatchLoad
  <2>2. CASE version \in {"cond_var", "use_condition"} /\ WatchLeave
    BY <1>4, <2>1, <2>2 DEF WatchLeave
  <2>3. CASE \/ version \in {"with_conditions", "six"} /\ WatchPass
             \/ version # "use_condition" /\ WatchLoad
    <3>1. /\ \/ pc["watcher"] = "test" /\ version \in {"with_conditions", "six"}
             \/ pc["watcher"] = "add"
          /\ pc'["watcher"] \in {"add", "added"}
      BY <1>4, <2>3 DEF WatchPass, WatchLoad
    <3> QED
      BY <2>1, <3>1
  <2> QED
    BY <1>9, <2>2, <2>3
<1>10. CASE \/ version = "cond_var" /\ WatchAdd
            \/ version \in {"with_conditions", "six"} /\ WatchAddAndLeave
  <2>1. count' = count + Bonus /\ Increments' = Increments /\ pc["watcher"] = "added"
        /\ pc'["watcher"] = IF version = "cond_var" THEN "test" ELSE "ended"
    BY <1>3, <1>4, <1>10 DEF WatchAdd, WatchAddAndLeave, IInv, LoadInv
  <2> QED
    BY <1>2, <1>10, <2>1
<1>11. CASE SpuriousWakeup \/ UNCHANGED vars
  BY <1>3, <1>11 DEF SpuriousWakeup, vars
<1> QED
  BY <1>5, <1>6, <1>7, <1>8, <1>9, <1>10, <1>11, Steps DEF IInv

\* The limit is hit by an increment, which is announced: count is below it while the
\* watcher sleeps, and only increments are stored meanwhile.
LEMMA LimitStep == IInv /\ [Next]_vars => LimitInv'
<1> SUFFICES ASSUME IInv, [Next]_vars PROVE LimitInv'
  OBVIOUS
<1>1. /\ Thread = Adders \cup {"watcher"} /\ "watcher" \notin Adders
      /\ version' = version /\ COUNT_LIMIT' = COUNT_LIMIT /\ COUNT_LIMIT \in Nat
      /\ TypeOK /\ LimitInv
  BY Threads, SameProgram DEF IInv, TypeOK
<1>2. count \in Nat /\ Bonus \in Nat
  BY <1>1, TotalIs DEF TypeOK, Bonus
<1>3. /\ pc \in [Thread -> {"loop", "store", "lock", "test", "wait", "add", "added", "ended"}]
      /\ cond \subseteq {"watcher"} /\ version \in Programs
  BY <1>1 DEF TypeOK
<1> USE <1>1 DEF LimitInv, Goto
<1> HIDE DEF Thread, Adders, COUNT_LIMIT, Bonus
<1>4. ASSUME NEW a \in Adders, EnterLoop(a) \/ Exit(a) PROVE LimitInv'
  BY <1>3, <1>4 DEF EnterLoop, Exit
<1>5. ASSUME NEW a \in Adders, StoreStep(a) PROVE LimitInv'
  <2>1. count' = count + 1
    BY <1>5 DEF StoreStep, IInv, LoadInv
  <2>2. pc'["watcher"] = pc["watcher"] /\ cond' \subseteq cond
        /\ (count' = COUNT_LIMIT => cond' = {})
    BY <1>3, <1>5 DEF StoreStep
  <2> QED
    BY <1>2, <2>1, <2>2
<1>6. CASE WatchLock \/ WatchWait \/ (version # "cond_var" /\ WatchWake("test"))
           \/ (version = "cond_var" /\ WatchWake("add"))
  <2>1. CASE WatchLock
    BY <1>3, <2>1 DEF WatchLock
  <2>2. CASE WatchWait
    BY <1>2, <1>3, <2>2 DEF WatchWait, CondWait
  <2>3. CASE version # "cond_var" /\ WatchWake("test")
    BY <1>3, <2>3 DEF WatchWake, CondResume
  <2>4. CASE version = "cond_var" /\ WatchWake("add")
    BY <1>3, <2>4 DEF WatchWake, CondResume
  <2> QED
    BY <1>6, <2>1, <2>2, <2>3, <2>4
<1>7. CASE WatchLeave \/ WatchPass \/ WatchLoad
  BY <1>2, <1>3, <1>7 DEF WatchLeave, WatchPass, WatchLoad
<1>8. CASE WatchAdd \/ WatchAddAndLeave
  BY <1>2, <1>3, <1>8 DEF WatchAdd, WatchAddAndLeave
<1>9. CASE SpuriousWakeup \/ UNCHANGED vars
  BY <1>3, <1>9 DEF SpuriousWakeup, Spurious, vars
<1> QED
  BY <1>4, <1>5, <1>6, <1>7, <1>8, <1>9, Steps DEF IInv

CountIsBounded ==
  /\ Cardinality(Adders) * TCOUNT + Bonus \in Nat
  /\ count \in 0 .. Cardinality(Adders) * TCOUNT + Bonus

\* The count is the number of increments, with the watcher's bonus or without it.
LEMMA BonusBounds ==
  version \in Programs /\ ctI \in [Adders -> 0 .. TCOUNT] /\ BonusInv => CountIsBounded
<1> SUFFICES ASSUME version \in Programs, ctI \in [Adders -> 0 .. TCOUNT], BonusInv
             PROVE  CountIsBounded
  OBVIOUS
<1>1. /\ Cardinality(Adders) * TCOUNT \in Nat /\ Increments \in Nat
      /\ Increments <= Cardinality(Adders) * TCOUNT
  BY TotalIs
<1>2. count \in {Increments, Increments + Bonus}
  BY <1>1 DEF BonusInv, Bonus
<1> QED
  BY <1>1, <1>2 DEF CountIsBounded, Bonus

\* Every step keeps the variables in their sets.
LEMMA TypeStep == IInv /\ [Next]_vars => TypeOK'
<1> SUFFICES ASSUME IInv, [Next]_vars PROVE TypeOK'
  OBVIOUS
<1>1. /\ Thread = Adders \cup {"watcher"} /\ "watcher" \notin Adders
      /\ version' = version /\ Adders' = Adders /\ Thread' = Thread /\ TCOUNT' = TCOUNT
      /\ TypeOK /\ TCOUNT \in Nat
  BY Threads, SameProgram, TotalIs DEF IInv, TypeOK
<1> DEFINE Most == Cardinality(Adders) * TCOUNT + Bonus
<1>2. Most \in Nat /\ Most' = Most /\ count \in 0 .. Most
  BY <1>1, BonusBounds DEF IInv, TypeOK, CountIsBounded
<1>3. version' \in Programs
  BY <1>1 DEF TypeOK
<1> HIDE DEF Most, Thread, Adders
<1>4. /\ mutex' \in Thread \cup {NoThread} /\ cond' \subseteq {"watcher"}
  <2>1. ASSUME NEW a \in Adders, EnterLoop(a) \/ Exit(a) \/ StoreStep(a) PROVE <1>4!:
    BY <1>1, <2>1 DEF TypeOK, EnterLoop, Exit, StoreStep, Lock
  <2>2. CASE WatchLock \/ WatchWait \/ WatchWake("test") \/ WatchWake("add")
    BY <1>1, <2>2 DEF TypeOK, WatchLock, WatchWait, WatchWake, Lock, CondWait, CondResume
  <2>3. CASE WatchAdd \/ WatchLeave \/ WatchPass \/ WatchAddAndLeave \/ WatchLoad
    BY <1>1, <2>3 DEF TypeOK, WatchAdd, WatchLeave, WatchPass, WatchAddAndLeave, WatchLoad, Unlock
  <2>4. CASE SpuriousWakeup \/ UNCHANGED vars
    BY <1>1, <2>4 DEF TypeOK, SpuriousWakeup, Spurious, vars
  <2> QED
    BY <2>1, <2>2, <2>3, <2>4, Steps DEF IInv
<1>5. pc' \in [Thread -> {"loop", "store", "lock", "test", "wait", "add", "added", "ended"}]
  <2>1. ASSUME NEW a \in Adders, EnterLoop(a) \/ Exit(a) \/ StoreStep(a) PROVE <1>5!:
    BY <1>1, <2>1 DEF TypeOK, EnterLoop, Exit, StoreStep, Goto
  <2>2. CASE WatchLock \/ WatchWait \/ WatchWake("test") \/ WatchWake("add")
    BY <1>1, <2>2 DEF TypeOK, WatchLock, WatchWait, WatchWake, Goto
  <2>3. CASE WatchAdd \/ WatchLeave \/ WatchPass \/ WatchAddAndLeave \/ WatchLoad
    BY <1>1, <2>3 DEF TypeOK, WatchAdd, WatchLeave, WatchPass, WatchAddAndLeave, WatchLoad, Goto
  <2>4. CASE SpuriousWakeup \/ UNCHANGED vars
    BY <1>1, <2>4 DEF TypeOK, SpuriousWakeup, vars
  <2> QED
    BY <2>1, <2>2, <2>3, <2>4, Steps DEF IInv
<1>6. ctI' \in [Adders -> 0 .. TCOUNT]
  <2>1. CASE UNCHANGED ctI
    BY <1>1, <2>1 DEF TypeOK
  <2>2. ASSUME NEW a \in Adders, StoreStep(a) PROVE <1>6!:
    <3>1. ctI[a] + 1 \in 0 .. TCOUNT /\ ctI' = [ctI EXCEPT ![a] = ctI[a] + 1]
      BY <1>1, <2>2 DEF StoreStep, IInv, TypeOK, PlaceInv
    <3> QED
      BY <1>1, <3>1 DEF TypeOK
  <2> QED
    BY <2>1, <2>2, Steps
       DEF IInv, EnterLoop, Exit, WatchLock, WatchWait, WatchWake, WatchAdd, WatchLeave, WatchPass,
           WatchAddAndLeave, WatchLoad, SpuriousWakeup, vars
<1>7. reg' \in [Thread -> 0 .. Most]
  <2>1. CASE UNCHANGED reg
    BY <1>1, <2>1 DEF TypeOK, Most
  <2>2. ASSUME NEW t \in Thread, LoadCount(t) PROVE <1>7!:
    BY <1>1, <1>2, <2>2 DEF TypeOK, LoadCount, Most
  <2> QED
    BY <1>1, <2>1, <2>2, Steps
       DEF IInv, EnterLoop, Exit, StoreStep, WatchLock, WatchWait, WatchWake, WatchAdd, WatchLeave,
           WatchPass, WatchAddAndLeave, WatchLoad, SpuriousWakeup, vars
<1>8. count' \in 0 .. Most
  <2>1. BonusInv' /\ version' \in Programs /\ ctI' \in [Adders' -> 0 .. TCOUNT']
    BY <1>1, <1>3, <1>6, BonusStep
  <2>2. (version \in Programs /\ ctI \in [Adders -> 0 .. TCOUNT] /\ BonusInv)' => CountIsBounded'
    BY BonusBounds, PTL
  <2>3. CountIsBounded'
    BY <2>1, <2>2
  <2> QED
    BY <1>2, <2>3 DEF CountIsBounded, Most
<1> QED
  BY <1>1, <1>2, <1>3, <1>4, <1>5, <1>6, <1>7, <1>8 DEF TypeOK, Most
-----------------------------------------------------------------------------
\* The inductive invariant: count is what the adders have stored, and the bonus, and a
\* watcher that waits is still to be told of the limit (inc_count and watch_count of
\* thread_with_conditions.c:18-68 and the three programs like it).
THEOREM Invariance == Spec => []IInv
<1>1. Init => IInv
  BY InitInv
<1>2. IInv /\ [Next]_vars => IInv'
  BY TypeStep, LockStep, PlaceStep, LoadStep, BonusStep, LimitStep DEF IInv
<1> QED
  BY <1>1, <1>2, PTL DEF Spec

\* The total that main() prints when all have ended.
LEMMA FinalIs == IInv => FinalCount
<1> SUFFICES ASSUME IInv, AllEnded
             PROVE  LET added == Cardinality(Adders) * TCOUNT
                    IN  count \in CASE version = "cond_var" -> {added, added + Bonus}
                                    [] version = "use_condition" -> {added}
                                    [] OTHER -> {added + Bonus}
  BY DEF FinalCount
<1>1. \A a \in Adders : ctI[a] = TCOUNT
  BY DEF IInv, PlaceInv, AllEnded, Thread
<1>2. pc["watcher"] = "ended"
  BY DEF AllEnded, Thread
<1>3. Increments = Cardinality(Adders) * TCOUNT
  BY <1>1, TotalIs DEF IInv, TypeOK
<1> HIDE DEF Increments
<1> QED
  BY <1>2, <1>3 DEF IInv, BonusInv

\* No increment is lost, the bonus counts once, and no watcher sleeps when the limit has
\* been reached: in all four programs, though two of them announce only the increment that
\* hits it exactly.
THEOREM CountIsSafe == Spec => []CountInv
<1>1. IInv => NoSleepAtTheLimit
  <2> SUFFICES ASSUME IInv, count >= COUNT_LIMIT PROVE cond = {}
    BY DEF NoSleepAtTheLimit
  <2>1. count \in Nat /\ COUNT_LIMIT \in Nat
    BY Threads, TotalIs DEF IInv, TypeOK, Bonus
  <2> QED
    BY <2>1 DEF IInv, LimitInv
<1>2. IInv => CountInv
  BY <1>1, FinalIs DEF IInv, CountInv
<1> QED
  BY <1>2, Invariance, PTL

\* The watcher adds its bonus when the limit has been reached, where it adds it after the
\* loop.
THEOREM TheBonusWaits == Spec => BonusAtTheLimit
<1>1. IInv /\ [Next]_vars =>
        [version # "cond_var" /\ count' > count + 1 => count >= COUNT_LIMIT]_count
  <2> SUFFICES ASSUME IInv, [Next]_vars, version # "cond_var", count' > count + 1
               PROVE  count >= COUNT_LIMIT
    OBVIOUS
  <2>1. count \in Nat /\ "watcher" \in Thread
    BY TotalIs DEF IInv, TypeOK, Bonus, Thread
  <2>2. ASSUME NEW a \in Adders, StoreStep(a) PROVE count' = count + 1
    BY <2>2 DEF StoreStep, IInv, LoadInv, Thread
  <2>3. CASE WatchAddAndLeave
    BY <2>3 DEF WatchAddAndLeave, IInv, LimitInv
  <2> QED
    BY <2>1, <2>2, <2>3, Steps
       DEF IInv, EnterLoop, Exit, WatchLock, WatchWait, WatchWake, WatchLeave, WatchPass, WatchLoad,
           SpuriousWakeup, vars
<1> QED
  BY <1>1, Invariance, PTL DEF Spec, BonusAtTheLimit

-----------------------------------------------------------------------------
(***************************************************************************)
(* camera_thread.c: who writes a frame has the mutex, and the length it    *)
(* announces is that of the frame, unless a freed frame was sent before.   *)
(***************************************************************************)

CaptureLabels == {"get", "copy", "broadcast"}
ClientLabels  == {"accept", "wait", "body", "end", "done"}

CameraTypes ==
  /\ length \in 0 .. MaxLength /\ taken \in 0 .. MaxLength
  /\ lengthOf \in Seq(0 .. MaxLength) /\ devconfp = Len(lengthOf)
  /\ camCond \subseteq Client /\ camMutex \in Client \cup {NoThread}
  /\ capturePc \in CaptureLabels /\ camPc \in [Client -> ClientLabels]
  /\ kind \in [Client -> {"snapshot", "stream"}] /\ header \in [Client -> 0 .. MaxLength]
  /\ freedFrames \in Seq(Nat) /\ wild \in BOOLEAN /\ sentFreed \in BOOLEAN

\* Who writes a frame has the mutex.
WriterInv == \A c \in Client : camPc[c] \in {"body", "end"} => camMutex = c

\* length is that of the frame, or of the one to be copied next.
LastFrame == IF devconfp = 0 THEN 0 ELSE lengthOf[devconfp]
FrameInv ==
  /\ length = IF capturePc = "copy" THEN taken ELSE LastFrame
  /\ capturePc = "broadcast" => devconfp # 0

\* Who was woken by a broadcast has a frame, and announces its length or that of the next.
Woken(c) == (camPc[c] = "wait" /\ c \notin camCond) \/ camPc[c] \in {"body", "end"}
WokenInv ==
  ~wild => \A c \in Client :
    /\ Woken(c) => devconfp # 0
    /\ camPc[c] = "body" =>
         header[c] = LastFrame \/ (capturePc = "copy" /\ header[c] = taken)

\* Clients of a snapshot give frames back, when they are done.
OnlyStreams == \A c \in Client : kind[c] = "stream"
Done        == {c \in Client : kind[c] = "snapshot" /\ camPc[c] = "done"}
FreedInv ==
  /\ OnlyStreams => freedFrames = <<>> /\ (sentFreed => wild)
  /\ Len(freedFrames) <= Cardinality(Done)

CameraIInv == CameraTypes /\ WriterInv /\ FrameInv /\ WokenInv /\ FreedInv
-----------------------------------------------------------------------------
\* The clients that are done are finitely many, and stay done.
LEMMA DoneIsFinite == IsFiniteSet(Done) /\ Cardinality(Done) \in Nat
  BY CameraAssumption, FS_Subset, FS_CardinalityType DEF Done

\* The program starts with no frame.
LEMMA CameraInitInv == CameraInit => CameraIInv
<1> SUFFICES ASSUME CameraInit PROVE CameraIInv
  OBVIOUS
<1> USE CameraAssumption DEF CameraInit
<1>0. MaxLength \in Nat
  OBVIOUS
<1>1. CameraTypes
  <2>1. camPc \in [Client -> ClientLabels] /\ header \in [Client -> 0 .. MaxLength]
    BY <1>0 DEF ClientLabels
  <2>2. lengthOf \in Seq(0 .. MaxLength) /\ devconfp = Len(lengthOf) /\ freedFrames \in Seq(Nat)
    OBVIOUS
  <2>3. length \in 0 .. MaxLength /\ taken \in 0 .. MaxLength
    BY <1>0
  <2> QED  BY <2>1, <2>2, <2>3 DEF CameraTypes, CaptureLabels
<1>2. FreedInv
  BY DoneIsFinite DEF FreedInv
<1>3. WriterInv /\ FrameInv /\ WokenInv
  BY DEF WriterInv, FrameInv, WokenInv, Woken, LastFrame
<1> QED  BY <1>1, <1>2, <1>3 DEF CameraIInv

\* A frame is taken while clients write the one before.
LEMMA GetFrameInv ==
  ASSUME CameraIInv, get_frame
  PROVE  CameraIInv'
<1> USE CameraAssumption DEF CameraIInv, get_frame, ClientsUnchanged
<1>1. CameraTypes'
  BY DEF CameraTypes, CaptureLabels
<1>2. WriterInv' /\ FrameInv'
  BY DEF WriterInv, FrameInv
<1>3. LastFrame' = LastFrame
  BY DEF LastFrame
<1>4. WokenInv'
  BY <1>3 DEF WokenInv, Woken
<1>5. FreedInv'
  BY DEF FreedInv, OnlyStreams, Done
<1> QED  BY <1>1, <1>2, <1>4, <1>5

\* Nobody writes a frame when the next one is copied.
LEMMA CopyFrameInv ==
  ASSUME CameraIInv, CopyFrame
  PROVE  CameraIInv'
<1> USE CameraAssumption DEF CameraIInv, CopyFrame, ClientsUnchanged, Free
<1>1. CameraTypes'
  BY DEF CameraTypes, CaptureLabels
<1>2. devconfp' # 0 /\ LastFrame' = taken /\ length = taken
  BY DEF CameraTypes, FrameInv, LastFrame
<1>3. \A c \in Client : camPc[c] \notin {"body", "end"}
  BY DEF WriterInv
<1>4. WriterInv' /\ FrameInv'
  BY <1>2 DEF WriterInv, FrameInv
<1>5. WokenInv'
  BY <1>2, <1>3 DEF WokenInv
<1>6. FreedInv'
  BY DEF FreedInv, OnlyStreams, Done
<1> QED  BY <1>1, <1>4, <1>5, <1>6

\* A broadcast comes after a frame.
LEMMA BroadcastInv ==
  ASSUME CameraIInv, Broadcast
  PROVE  CameraIInv'
<1> USE CameraAssumption DEF CameraIInv, Broadcast, ClientsUnchanged, CondBroadcast
<1>1. CameraTypes'
  BY DEF CameraTypes, CaptureLabels
<1>2. LastFrame' = LastFrame /\ devconfp' # 0
  BY DEF FrameInv, LastFrame
<1>3. WriterInv' /\ FrameInv'
  BY <1>2 DEF WriterInv, FrameInv
<1>4. WokenInv'
  BY <1>2 DEF WokenInv, Woken
<1>5. FreedInv'
  BY DEF FreedInv, OnlyStreams, Done
<1> QED  BY <1>1, <1>3, <1>4, <1>5

\* A client falls asleep.
LEMMA WaitInv ==
  ASSUME CameraIInv, NEW c \in Client, Wait(c)
  PROVE  CameraIInv'
<1> USE CameraAssumption DEF CameraIInv, Wait, CaptureUnchanged, CameraGo
<1>1. CameraTypes'
  BY DEF CameraTypes, ClientLabels
<1>2. WriterInv' /\ FrameInv'
  BY DEF CameraTypes, WriterInv, FrameInv, LastFrame
<1>3. LastFrame' = LastFrame
  BY DEF LastFrame
<1>4. WokenInv'
  BY <1>3 DEF CameraTypes, WokenInv, Woken
<1>5. Done' = Done /\ OnlyStreams' = OnlyStreams
  BY DEF CameraTypes, Done, OnlyStreams
<1>6. FreedInv'
  BY <1>5 DEF FreedInv
<1> QED  BY <1>1, <1>2, <1>4, <1>6

\* It is woken, and announces the length of the frame that was taken last.
LEMMA HeaderInv ==
  ASSUME CameraIInv, NEW c \in Client, Header(c)
  PROVE  CameraIInv'
<1> USE CameraAssumption DEF CameraIInv, Header, CaptureUnchanged, CameraGo, CondResume
<1>1. CameraTypes'
  BY DEF CameraTypes, ClientLabels
<1>2. WriterInv' /\ FrameInv'
  BY DEF CameraTypes, WriterInv, FrameInv, LastFrame
<1>3. LastFrame' = LastFrame
  BY DEF LastFrame
<1>4. header'[c] = IF capturePc = "copy" THEN taken ELSE LastFrame
  BY DEF CameraTypes, FrameInv
<1>5. WokenInv'
  BY <1>3, <1>4 DEF CameraTypes, WokenInv, Woken
<1>6. Done' = Done /\ OnlyStreams' = OnlyStreams
  BY DEF CameraTypes, Done, OnlyStreams
<1>7. FreedInv'
  BY <1>6 DEF FreedInv
<1> QED  BY <1>1, <1>2, <1>5, <1>7

\* It writes the frame: where nothing is freed, there is none only if nothing woke it.
LEMMA BodyInv ==
  ASSUME CameraIInv, NEW c \in Client, Body(c)
  PROVE  CameraIInv'
<1> USE CameraAssumption DEF CameraIInv, Body, CaptureUnchanged, CameraGo
<1>1. CameraTypes'
  BY DEF CameraTypes, ClientLabels
<1>2. WriterInv' /\ FrameInv'
  BY DEF CameraTypes, WriterInv, FrameInv, LastFrame
<1>3. LastFrame' = LastFrame
  BY DEF LastFrame
<1>4. WokenInv'
  BY <1>3 DEF CameraTypes, WokenInv, Woken
<1>5. Done' = Done /\ OnlyStreams' = OnlyStreams
  BY DEF CameraTypes, Done, OnlyStreams
<1>6. OnlyStreams /\ sentFreed' => wild
  <2>1. ~wild => devconfp # 0
    BY DEF WokenInv, Woken
  <2>2. OnlyStreams => freedFrames = <<>> /\ (sentFreed => wild)
    BY DEF FreedInv
  <2>3. freedFrames = <<>> /\ IsFreed(devconfp) => devconfp = 0
    BY DEF IsFreed
  <2> QED  BY <2>1, <2>2, <2>3
<1>7. FreedInv'
  BY <1>5, <1>6 DEF FreedInv
<1> QED  BY <1>1, <1>2, <1>4, <1>7

\* It gives the mutex back, and the frame if it was to be a snapshot.
LEMMA EndInv ==
  ASSUME CameraIInv, NEW c \in Client, End(c)
  PROVE  CameraIInv'
<1> USE CameraAssumption
    DEF CameraIInv, End, CaptureUnchanged, CameraGo, Unlock, GivesBack
<1>1. CameraTypes'
  <2>1. freedFrames' \in Seq(Nat)
    BY DEF CameraTypes
  <2> QED  BY <2>1 DEF CameraTypes, ClientLabels
<1>2. WriterInv' /\ FrameInv'
  BY DEF CameraTypes, WriterInv, FrameInv, LastFrame
<1>3. LastFrame' = LastFrame
  BY DEF LastFrame
<1>4. WokenInv'
  BY <1>3 DEF CameraTypes, WokenInv, Woken
<1>5. Done' = IF kind[c] = "snapshot" THEN Done \cup {c} ELSE Done
  BY DEF CameraTypes, Done
<1>6. c \notin Done
  BY DEF Done
<1>7. kind[c] = "snapshot" => Cardinality(Done') = Cardinality(Done) + 1
  BY <1>5, <1>6, DoneIsFinite, FS_AddElement
<1>8. FreedInv'
  BY <1>5, <1>7, DoneIsFinite DEF CameraTypes, FreedInv, OnlyStreams
<1> QED  BY <1>1, <1>2, <1>4, <1>8

\* Nothing wakes a client.
LEMMA CameraSpuriousInv ==
  ASSUME CameraIInv, CameraSpuriousWakeup
  PROVE  CameraIInv'
<1> USE DEF CameraIInv, CameraSpuriousWakeup
<1>1. CameraTypes'
  BY DEF CameraTypes, Spurious
<1>2. WriterInv' /\ FrameInv' /\ WokenInv'
  BY DEF WriterInv, FrameInv, WokenInv, LastFrame
<1>3. FreedInv'
  BY DEF FreedInv, OnlyStreams, Done
<1> QED  BY <1>1, <1>2, <1>3

\* Nothing changes.
LEMMA CameraStutterInv ==
  ASSUME CameraIInv, UNCHANGED cameraVars
  PROVE  CameraIInv'
  BY DEF cameraVars, CameraIInv, CameraTypes, WriterInv, FrameInv, LastFrame, WokenInv, Woken,
         FreedInv, OnlyStreams, Done

\* Every step of camera_thread.c preserves its inductive invariant.
LEMMA CameraStep == CameraIInv /\ CameraNext => CameraIInv'
  BY GetFrameInv, CopyFrameInv, BroadcastInv, WaitInv, HeaderInv, BodyInv, EndInv,
     CameraSpuriousInv, CameraStutterInv
  DEF CameraNext, frame_capture_thread, service_thread, CameraStopped

\* The inductive invariant is strong enough.
LEMMA CameraFollows == CameraIInv => CameraInv
<1> SUFFICES ASSUME CameraIInv PROVE CameraInv
  OBVIOUS
<1> USE DEF CameraIInv
<1>1. CameraTypeOK
  BY DEF CameraTypes, CameraTypeOK, ClientLabels
<1>2. LengthFits
  BY DEF LengthFits, FrameInv, WokenInv, Woken, LastFrame
<1>3. OneWrites
  <2>1. \A c \in Sending : camMutex = c
    BY DEF Sending, WriterInv
  <2>2. Cardinality(Sending) <= 1
    <3>1. CASE Sending = {}
      BY <3>1, FS_EmptySet
    <3>2. CASE Sending # {}
      <4>1. Sending = {camMutex}
        BY <2>1, <3>2
      <4>2. Cardinality({camMutex}) = 1
        BY FS_Singleton
      <4> QED  BY <4>1, <4>2
    <3> QED  BY <3>1, <3>2
  <2> QED  BY <2>1, <2>2 DEF OneWrites, Sending, WokenInv, Woken
<1>4. StreamsAreSafe
  BY DEF StreamsAreSafe, FreedInv, OnlyStreams, Done
<1> QED  BY <1>1, <1>2, <1>3, <1>4 DEF CameraInv

\* No frame is copied while a client writes.
LEMMA FrameStep == CameraIInv /\ [CameraNext]_cameraVars => (Sending # {} => devconfp' = devconfp)
  BY CameraAssumption
  DEF CameraNext, frame_capture_thread, service_thread, CameraStopped, cameraVars, get_frame,
      CopyFrame, Broadcast, Wait, Header, Body, End, CameraSpuriousWakeup, CaptureUnchanged,
      Free, Sending, CameraIInv, WriterInv

\* For any clients and any number of frames: a header announces the length of the frame that
\* follows it, or of one that was taken in between; one client writes at a time, and has a
\* frame unless somebody was woken by nothing; where there are only streams no frame is
\* written that was freed (service_thread() of camera_thread.c).
THEOREM FramesFit == CameraSpec => []CameraInv
<1> QED
  BY CameraInitInv, CameraStep, CameraStutterInv, CameraFollows, PTL DEF CameraSpec

\* The capturing thread copies no frame over the one that is being sent.
THEOREM FramesStay == CameraSpec => FrameIsSteady
<1>1. CameraIInv /\ [CameraNext]_cameraVars =>
        [Sending # {} => devconfp' = devconfp]_cameraVars
  BY FrameStep
<1> QED
  BY <1>1, CameraInitInv, CameraStep, CameraStutterInv, PTL DEF CameraSpec, FrameIsSteady

-----------------------------------------------------------------------------
(***************************************************************************)
(* os21.c: where one consumer is created, it is the one that waits, and    *)
(* the index moves by what it and the producer have done.                  *)
(***************************************************************************)

ConsumerLabels == {"uncreated", "first", "test", "sleep", "wait", "eat", "store", "signal"}
ProducerLabels == {"lock", "test", "sleep", "wait", "store", "signal"}

ItemsTypes ==
  /\ curitem \in Int /\ itemLock \in Eaters \cup {NoThread}
  /\ empty \subseteq Consumer /\ full \subseteq {Producer}
  /\ itemPc \in [Eaters -> ConsumerLabels \cup ProducerLabels]
  /\ loaded \in [Eaters -> Int] /\ made \in 0 .. MaxItems /\ astray \in BOOLEAN

\* Who sleeps is at a wait, and the producer begins no item too many.
ItemPlaces ==
  /\ itemPc[Producer] \in ProducerLabels /\ \A c \in Consumer : itemPc[c] \in ConsumerLabels
  /\ \A t \in empty \cup full : itemPc[t] = "wait"
  /\ itemPc[Producer] \in {"test", "sleep", "wait", "store"} => made < MaxItems

\* Whatever updates are lost, what is stored next is not above the stack ...
TopInv ==
  /\ curitem <= Top + 1
  /\ itemPc[Producer] = "store" => loaded[Producer] <= Top
  /\ \A c \in Consumer : itemPc[c] = "store" => loaded[c] <= Top + 1

\* ... and with one consumer not below it.
Created == {c \in Consumer : itemPc[c] # "uncreated"}
BottomInv(c) ==
  /\ curitem >= -1
  /\ itemPc[Producer] = "store" => loaded[Producer] >= -1
  /\ itemPc[c] = "eat" => curitem >= 0
  /\ itemPc[c] = "store" => loaded[c] >= 0

\* The one that waited first has the mutex ever after, and misses nothing.
WaitedInv(c) ==
  /\ itemPc[c] \in {"test", "eat", "store", "signal"} => itemLock = c
  /\ itemPc[c] = "store" => loaded[c] = curitem
  /\ itemPc[Producer] \in {"test", "sleep", "store", "signal"} => itemLock = Producer
  /\ itemPc[Producer] = "store" => loaded[Producer] = curitem
  /\ itemPc[Producer] = "sleep" => curitem > Top
  /\ c \in empty => curitem = -1 \/ (itemPc[Producer] = "signal" /\ curitem = 0)
  /\ Producer \in full => curitem > Top \/ (itemPc[c] = "signal" /\ curitem = Top)

ItemsAloneInv == \A c \in Consumer : Created = {c} => BottomInv(c) /\ (~astray => WaitedInv(c))

ItemsIInv == ItemsTypes /\ ItemPlaces /\ TopInv /\ ItemsAloneInv
-----------------------------------------------------------------------------
\* Alone is the only one that was created.
LEMMA AloneIsOne == Alone => \E c \in Consumer : Created = {c}
<1> SUFFICES ASSUME Alone PROVE \E c \in Consumer : Created = {c}
  OBVIOUS
<1>1. Cardinality(Created) = 1
  BY DEF Alone, Created
<1>2. IsFiniteSet(Created) /\ Created # {}
  <2>1. IsFiniteSet(Created)
    BY ItemBufferAssumption, FS_Subset DEF Created
  <2>2. Cardinality({}) = 0
    BY FS_EmptySet
  <2> QED  BY <1>1, <2>1, <2>2
<1>3. PICK c \in Created : TRUE
  BY <1>2
<1>4. Cardinality(Created \ {c}) = 0 /\ IsFiniteSet(Created \ {c})
  BY <1>1, <1>2, <1>3, FS_RemoveElement
<1>5. Created \ {c} = {}
  BY <1>4, FS_EmptySet
<1> QED  BY <1>3, <1>5 DEF Created

\* The producer is no consumer, and neither is NoThread.
LEMMA WhoIsWho ==
  /\ Producer \notin Consumer /\ NoThread \notin Consumer /\ NoThread # Producer
  /\ Producer \in Eaters /\ \A c \in Consumer : c \in Eaters
  /\ Top \in Nat /\ MaxItems \in Nat
  BY ItemBufferAssumption DEF Producer, NoThread, Eaters

\* At the start nothing is made and nobody sleeps.
LEMMA ItemsInitInv == ItemsInit => ItemsIInv
<1> SUFFICES ASSUME ItemsInit PROVE ItemsIInv
  OBVIOUS
<1>1. /\ itemPc \in [Eaters -> ConsumerLabels \cup ProducerLabels]
      /\ itemPc[Producer] = "lock"
      /\ \A c \in Consumer : itemPc[c] \in {"first", "uncreated"}
  <2>1. PICK threadcap \in (SUBSET Consumer) \ {{}} :
          itemPc = [t \in Eaters |-> IF t = Producer THEN "lock"
                                     ELSE IF t \in threadcap THEN "first" ELSE "uncreated"]
    BY DEF ItemsInit
  <2> QED  BY <2>1, WhoIsWho DEF ConsumerLabels, ProducerLabels
<1>3. /\ curitem = -1 /\ itemLock = NoThread /\ empty = {} /\ full = {} /\ made = 0
      /\ astray = FALSE /\ loaded = [t \in Eaters |-> 0]
  BY DEF ItemsInit
<1>4. ItemsTypes
  <2>1. loaded \in [Eaters -> Int]
    BY <1>3
  <2>2. astray \in BOOLEAN
    BY <1>3
  <2>3. curitem \in Int /\ made \in 0 .. MaxItems
    BY <1>3, WhoIsWho
  <2> QED  BY <1>1, <1>3, <2>1, <2>2, <2>3 DEF ItemsTypes
<1>5. ItemPlaces
  BY <1>1, <1>3 DEF ItemPlaces, ConsumerLabels, ProducerLabels
<1>6. TopInv
  BY <1>1, <1>3, WhoIsWho DEF TopInv
<1>7. ItemsAloneInv
  <2>1. \A c \in Consumer : BottomInv(c)
    BY <1>1, <1>3 DEF BottomInv
  <2>2. \A c \in Consumer : WaitedInv(c)
    BY <1>1, <1>3 DEF WaitedInv
  <2> QED  BY <2>1, <2>2 DEF ItemsAloneInv
<1> QED  BY <1>4, <1>5, <1>6, <1>7 DEF ItemsIInv

\* The steps of the producer.
LEMMA ProducerInv ==
  ASSUME ItemsIInv, producer
  PROVE  ItemsIInv'
<1> USE WhoIsWho DEF ItemsIInv, ItemsGo
<1>1. ItemsTypes'
  BY DEF producer, ProducerLock, FindsFull, ProducerWait, MakeLoad, MakeStore, MakeSignal, LoadItem,
         ItemsTypes, ItemPlaces, ProducerLabels, Lock, Unlock, CondResume, CondWait, CondSignal
<1>2. ItemPlaces'
  BY DEF producer, ProducerLock, FindsFull, ProducerWait, MakeLoad, MakeStore, MakeSignal, LoadItem,
         ItemsTypes, ItemPlaces, ProducerLabels, Lock, Unlock, CondResume, CondWait, CondSignal
<1>3. TopInv'
  BY DEF producer, ProducerLock, FindsFull, ProducerWait, MakeLoad, MakeStore, MakeSignal, LoadItem,
         ItemsTypes, TopInv
<1>c. Created' = Created
  BY DEF producer, ProducerLock, FindsFull, ProducerWait, MakeLoad, MakeStore, MakeSignal,
         ItemsTypes, Created
<1>4. ASSUME NEW c \in Consumer, Created = {c} PROVE BottomInv(c)' /\ (~astray' => WaitedInv(c)')
  <2>1. BottomInv(c) /\ (~astray => WaitedInv(c))
    BY <1>4 DEF ItemsAloneInv
  <2>2. itemPc'[c] = itemPc[c] /\ loaded'[c] = loaded[c] /\ astray' = astray
    BY DEF producer, ProducerLock, FindsFull, ProducerWait, MakeLoad, MakeStore, MakeSignal,
           LoadItem, ItemsTypes
  <2>3. empty \subseteq {c}
    BY <1>4 DEF ItemsTypes, ItemPlaces, Created
  <2>4. CASE ProducerLock
    BY <2>1, <2>2, <2>4
    DEF ItemsTypes, BottomInv, WaitedInv, ProducerLock, Lock, CondResume
  <2>5. CASE FindsFull
    BY <2>1, <2>2, <2>5 DEF ItemsTypes, BottomInv, WaitedInv, FindsFull
  <2>6. CASE ProducerWait
    BY <2>1, <2>2, <2>6 DEF ItemsTypes, BottomInv, WaitedInv, ProducerWait, CondWait
  <2>7. CASE MakeLoad
    BY <2>1, <2>2, <2>7 DEF ItemsTypes, BottomInv, WaitedInv, MakeLoad, LoadItem
  <2>8. CASE MakeStore
    BY <2>1, <2>2, <2>8 DEF ItemsTypes, ItemPlaces, BottomInv, WaitedInv, MakeStore
  <2>9. CASE MakeSignal
    BY <2>1, <2>2, <2>3, <2>9
    DEF ItemsTypes, ItemPlaces, BottomInv, WaitedInv, MakeSignal, Unlock, CondSignal
  <2> QED  BY <2>4, <2>5, <2>6, <2>7, <2>8, <2>9 DEF producer
<1> QED  BY <1>1, <1>2, <1>3, <1>c, <1>4 DEF ItemsAloneInv

\* The steps of a consumer.
LEMMA ConsumerInv ==
  ASSUME ItemsIInv, NEW e \in Consumer, consumer(e)
  PROVE  ItemsIInv'
<1> USE WhoIsWho DEF ItemsIInv, ItemsGo, Testing
<1>1. ItemsTypes'
  <2>1. itemPc' \in [Eaters -> ConsumerLabels \cup ProducerLabels] /\ made' = made
    BY DEF consumer, FindsNothing, ItemsWait, Resume, FindsItem, EatLoad, EatStore, EatSignal,
           ItemsTypes, ConsumerLabels
  <2>2. curitem' \in Int /\ loaded' \in [Eaters -> Int]
    BY DEF consumer, FindsNothing, ItemsWait, Resume, FindsItem, EatLoad, EatStore, EatSignal,
           LoadItem, ItemsTypes
  <2>3. itemLock' \in Eaters \cup {NoThread} /\ empty' \subseteq Consumer
    BY DEF consumer, FindsNothing, ItemsWait, Resume, FindsItem, EatLoad, EatStore, EatSignal,
           CondResume, CondWait, ItemsTypes
  <2>4. full' \subseteq {Producer}
    BY DEF consumer, FindsNothing, ItemsWait, Resume, FindsItem, EatLoad, EatStore, EatSignal,
           CondSignal, ItemsTypes
  <2>5. astray' \in BOOLEAN
    BY DEF consumer, FindsNothing, ItemsWait, Resume, FindsItem, EatLoad, EatStore, EatSignal,
           ItemsTypes
  <2> QED  BY <2>1, <2>2, <2>3, <2>4, <2>5 DEF ItemsTypes
<1>2. ItemPlaces'
  BY DEF consumer, FindsNothing, ItemsWait, Resume, FindsItem, EatLoad, EatStore, EatSignal,
         ItemsTypes, ItemPlaces, ConsumerLabels, CondResume, CondWait, CondSignal
<1>3. TopInv'
  BY DEF consumer, FindsNothing, ItemsWait, Resume, FindsItem, EatLoad, EatStore, EatSignal,
         LoadItem, ItemsTypes, TopInv
<1>p. itemPc[e] # "uncreated" /\ itemPc'[e] # "uncreated"
  BY DEF consumer, FindsNothing, ItemsWait, Resume, FindsItem, EatLoad, EatStore, EatSignal,
         ItemsTypes
<1>c. Created' = Created /\ e \in Created
  BY <1>p
  DEF consumer, FindsNothing, ItemsWait, Resume, FindsItem, EatLoad, EatStore, EatSignal,
      ItemsTypes, Created
<1>4. ASSUME Created = {e} PROVE BottomInv(e)' /\ (~astray' => WaitedInv(e)')
  <2>1. BottomInv(e) /\ (~astray => WaitedInv(e))
    BY <1>4 DEF ItemsAloneInv
  <2>2. itemPc'[Producer] = itemPc[Producer] /\ loaded'[Producer] = loaded[Producer]
    BY DEF consumer, FindsNothing, ItemsWait, Resume, FindsItem, EatLoad, EatStore, EatSignal,
           LoadItem, ItemsTypes
  <2>4. CASE FindsNothing(e)
    BY <2>1, <2>2, <2>4 DEF ItemsTypes, ItemPlaces, BottomInv, WaitedInv, FindsNothing
  <2>5. CASE ItemsWait(e)
    <3>1. BottomInv(e)'
      BY <2>1, <2>2, <2>5 DEF ItemsTypes, BottomInv, ItemsWait
    <3>2. itemPc'[e] = "wait" /\ curitem' = curitem /\ full' = full /\ itemPc[e] = "sleep"
      BY <2>5 DEF ItemsTypes, ItemsWait
    <3>3. ASSUME ~astray' PROVE ~astray /\ itemLock # Producer /\ curitem < 0
      <4>1. astray' = (astray \/ itemLock = Producer \/ curitem >= 0)
        BY <2>5 DEF ItemsWait
      <4>2. ~astray /\ itemLock # Producer /\ ~ (curitem >= 0)
        BY <3>3, <4>1, Zenon
      <4> QED  BY <4>2 DEF ItemsTypes
    <3>4. ASSUME ~astray' PROVE WaitedInv(e)'
      <4>1. itemPc[Producer] \notin {"test", "sleep", "store", "signal"} /\ Producer \notin full
        BY <2>1, <3>2, <3>3, <3>4 DEF WaitedInv, ItemsTypes
      <4>2. curitem = -1
        BY <2>1, <3>3, <3>4 DEF BottomInv, ItemsTypes
      <4> QED  BY <2>2, <3>2, <4>1, <4>2 DEF WaitedInv
    <3> QED  BY <3>1, <3>4
  <2>6. CASE Resume(e)
    BY <2>1, <2>2, <2>6 DEF ItemsTypes, ItemPlaces, BottomInv, WaitedInv, Resume, CondResume
  <2>7. CASE FindsItem(e)
    BY <2>1, <2>2, <2>7 DEF ItemsTypes, ItemPlaces, BottomInv, WaitedInv, FindsItem
  <2>8. CASE EatLoad(e)
    BY <2>1, <2>2, <2>8 DEF ItemsTypes, ItemPlaces, BottomInv, WaitedInv, EatLoad, LoadItem
  <2>9. CASE EatStore(e)
    BY <2>1, <2>2, <2>9 DEF ItemsTypes, ItemPlaces, BottomInv, WaitedInv, EatStore, TopInv
  <2>10. CASE EatSignal(e)
    BY <2>1, <2>2, <2>10
    DEF ItemsTypes, ItemPlaces, BottomInv, WaitedInv, EatSignal, CondSignal
  <2> QED  BY <2>4, <2>5, <2>6, <2>7, <2>8, <2>9, <2>10 DEF consumer
<1> QED  BY <1>1, <1>2, <1>3, <1>c, <1>4 DEF ItemsAloneInv

\* Nothing wakes a thread.
LEMMA ItemsSpuriousInv ==
  ASSUME ItemsIInv, ItemsSpuriousWakeup
  PROVE  ItemsIInv'
<1> USE DEF ItemsIInv, ItemsSpuriousWakeup, Spurious
<1>1. empty' \subseteq empty /\ full' \subseteq full
  OBVIOUS
<1> QED  BY <1>1 DEF ItemsTypes, ItemPlaces, TopInv, ItemsAloneInv, BottomInv, WaitedInv, Created

\* Every step of os21.c preserves its inductive invariant.
LEMMA ItemsStep == ItemsIInv /\ [ItemsNext]_itemVars => ItemsIInv'
<1>1. ASSUME ItemsIInv, UNCHANGED itemVars PROVE ItemsIInv'
  BY <1>1 DEF itemVars, ItemsIInv, ItemsTypes, ItemPlaces, TopInv, ItemsAloneInv, BottomInv,
              WaitedInv,
              Created
<1> QED  BY <1>1, ProducerInv, ConsumerInv, ItemsSpuriousInv DEF ItemsNext, ItemsStopped

\* The inductive invariant is strong enough.
LEMMA ItemsFollow == ItemsIInv => ItemBufferInv
<1> SUFFICES ASSUME ItemsIInv PROVE ItemBufferInv
  OBVIOUS
<1> USE WhoIsWho DEF ItemsIInv
<1>1. ItemsTypeOK
  BY DEF ItemsTypes, ItemsTypeOK
<1>2. ASSUME Alone PROVE curitem >= -1 /\ (~astray => OneWhoWaitedFirst)
  <2>1. PICK c \in Consumer : Created = {c}
    BY <1>2, AloneIsOne
  <2>2. BottomInv(c) /\ (~astray => WaitedInv(c))
    BY <2>1 DEF ItemsAloneInv
  <2>3. \A d \in Consumer : itemPc[d] # "uncreated" => d = c
    BY <2>1 DEF Created
  <2>4. \A d \in empty : d = c
    BY <2>3 DEF ItemsTypes, ItemPlaces
  <2>5. curitem \in Int /\ curitem >= -1
    BY <2>2 DEF BottomInv, ItemsTypes
  <2>6. ASSUME ~astray PROVE OneWhoWaitedFirst
    <3>1. WaitedInv(c)
      BY <2>2, <2>6
    <3>2. \A d \in Consumer : itemPc[d] \in {"eat", "store", "signal"} => itemLock = d
      BY <2>3, <3>1 DEF WaitedInv
    <3>3. \A d \in Consumer : d \in empty => curitem < 1 \/ itemLock = Producer
      BY <2>4, <2>5, <3>1 DEF WaitedInv
    <3>4. Producer \in full => curitem > Top \/ itemLock \in Consumer
      BY <3>1 DEF WaitedInv
    <3> QED  BY <3>1, <3>2, <3>3, <3>4 DEF WaitedInv, OneWhoWaitedFirst
  <2> QED  BY <2>5, <2>6
<1> QED  BY <1>1, <1>2 DEF ItemBufferInv, IndexIsBounded, OneWhoWaitedFirst, TopInv

\* The index stays at most one above Top, and with one consumer never goes below -1; one
\* consumer that came first and waited works under the mutex ever after, and no signal that
\* it or the producer sleeps for is missed (producer() and consumer() of os21.c).
THEOREM ItemsAreBounded == ItemsSpec => []ItemBufferInv
<1> QED
  BY ItemsInitInv, ItemsStep, ItemsFollow, PTL DEF ItemsSpec

-----------------------------------------------------------------------------
(***************************************************************************)
(* membarrier.h without its lock: how many have arrived is counted by two  *)
(* threads that may lose each other's steps, so each round is told apart   *)
(* by what each of the two has done in it.                                 *)
(***************************************************************************)

TestLabels == {"register", "round", "spin", "store", "fence", "load", "check", "compare",
               "ended", "aborted"}

BareTypes ==
  /\ mode \in Modes /\ mem \in [Cells -> {0, 1}] /\ buffer \in [Process -> Seq(Cells \X {0, 1})]
  /\ ref \in Nat /\ killed \in BOOLEAN /\ mbPc \in [Process -> TestLabels]
  /\ i \in [Process -> 0 .. Rounds] /\ seen \in [Process -> {0, 1}]

\* Where a process is past the spin of its round, and where it has arrived at it.
PastSpin(p)   == mbPc[p] \in {"store", "fence", "load", "check", "compare"}
HasArrived(p) == PastSpin(p) \/ mbPc[p] \in {"spin", "aborted"}

\* What p may have added to ref.
Arrivals(p) == IF HasArrived(p) THEN i[p] + 1 ELSE i[p]

\* Who is past the spin of a round has met the other one there.
HasMet(p) ==
  /\ ref <= Arrivals(p) + Arrivals(Other(p))
  /\ PastSpin(p) => Arrivals(Other(p)) >= i[p] + 1
  /\ i[p] <= i[Other(p)] + 1
  /\ HasArrived(p) => i[p] < Rounds
  /\ mbPc[p] = "register" => i[p] = 0

\* What a process writes in a round, and at the end of it.
Storing(p) == <<<<Mine(p), 1>>>>
Results(p) == <<<<ResultOf(p), seen[p]>>, <<ReadyOf(p), 1>>>>
Flag(p)    == <<<<ReadyOf(p), 1>>>>
Resets(q)  == <<<<ReadyOf(q), 0>>, <<"x", 0>>, <<"y", 0>>>>

\* p in its first round, with barriers: it has not written a result ...
InFirst(p) ==
  /\ mbPc[p] # "aborted" /\ ~killed /\ mem[ReadyOf(p)] = 0
  /\ buffer[p] = <<>> \/ (mbPc[p] = "fence" /\ buffer[p] = Storing(p))
  /\ mbPc[p] \in {"load", "check", "compare"} => mem[Mine(p)] = 1
  /\ mbPc[p] = "fence" /\ buffer[p] = <<>> => mem[Mine(p)] = 1

\* ... and the other one, q, is in it too, or has left its result and waits for p.
HasLeft(q) ==
  /\ i[q] = 1 /\ mbPc[q] \in {"round", "spin", "ended"} /\ mem[Mine(q)] = 1
  /\ \/ buffer[q] = Results(q) /\ mem[ReadyOf(q)] = 0
     \/ buffer[q] = Flag(q) /\ mem[ReadyOf(q)] = 0 /\ mem[ResultOf(q)] = seen[q]
     \/ buffer[q] = <<>> /\ mem[ResultOf(q)] = seen[q]

\* One of the two loads gives 1.
HasRead(q) == i[q] = 1 \/ mbPc[q] \in {"check", "compare"}
OneIsSeen(p) ==
  mbPc[p] \in {"check", "compare"} /\ HasRead(Other(p)) => seen[p] = 1 \/ seen[Other(p)] = 1

FirstInv(p) ==
  i[p] = 0 =>
    /\ InFirst(p) /\ OneIsSeen(p)
    /\ i[Other(p)] = 0 \/ HasLeft(Other(p))
    /\ mbPc[p] = "compare" => i[Other(p)] = 1 /\ buffer[Other(p)] = <<>>

BareIInv ==
  /\ BareTypes /\ \A p \in Process : HasMet(p)
  /\ mode = "mb" => \A p \in Process : FirstInv(p)
-----------------------------------------------------------------------------
\* The two processes, and their cells.
LEMMA BareProcesses ==
  ASSUME NEW p \in Process
  PROVE  /\ Other(p) \in Process /\ Other(p) # p /\ Other(Other(p)) = p
         /\ \A r \in Process : r = p \/ r = Other(p)
  BY DEF Process, Other

\* The cells of the two are not the same.
LEMMA CellsDiffer ==
  ASSUME NEW p \in Process, NEW q \in Process, q = Other(p)
  PROVE  /\ {Mine(p), Mine(q), ResultOf(p), ResultOf(q), ReadyOf(p), ReadyOf(q)} \subseteq Cells
         /\ Mine(p) # Mine(q) /\ Mine(p) \notin {ResultOf(p), ResultOf(q), ReadyOf(p), ReadyOf(q)}
         /\ Mine(q) \notin {ResultOf(p), ResultOf(q), ReadyOf(p), ReadyOf(q)}
         /\ ResultOf(p) # ResultOf(q) /\ ReadyOf(p) # ReadyOf(q)
         /\ ResultOf(p) \notin {ReadyOf(p), ReadyOf(q)}
         /\ ResultOf(q) \notin {ReadyOf(p), ReadyOf(q)}
         /\ {Mine(p), Mine(q)} = {"x", "y"} /\ {"x", "y"} \subseteq Cells
  BY DEF Process, Other, Mine, ResultOf, ReadyOf, Cells

\* A set of numbers that is not empty has a least, and a set of indices a greatest.
LEMMA LeastOf ==
  ASSUME NEW T, T \subseteq Nat, T # {}
  PROVE  \E x \in T : \A y \in T : x <= y
<1> DEFINE R == OpToRel(<, Nat)
<1> HIDE DEF R
<1>1. PICK x \in T : \A y \in T : ~ (<<y, x>> \in R)
  BY NatLessThanWellFounded, WFMin DEF R
<1>2. \A y \in T : ~ (y < x)
  BY <1>1 DEF R, OpToRel
<1> QED  BY <1>2

\* A set of numbers with a bound has a greatest one.
LEMMA Youngest ==
  ASSUME NEW n \in Nat, NEW I \in SUBSET (1 .. n), I # {}
  PROVE  \E m \in I : \A k \in I : k <= m
<1> DEFINE D == {n - k : k \in I}
<1>1. D # {} /\ D \subseteq Nat
  <2>1. \A k \in I : n - k \in Nat
    OBVIOUS
  <2> QED  BY <2>1
<1>2. PICK d \in D : \A e \in D : d <= e
  BY <1>1, LeastOf
<1>3. PICK m \in I : d = n - m
  BY <1>2
<1>4. ASSUME NEW k \in I PROVE k <= m
  <2>1. n - m <= n - k
    BY <1>2, <1>3
  <2>2. k \in Nat /\ m \in Nat
    BY <1>3
  <2> QED  BY <2>1, <2>2
<1> QED  BY <1>4

\* A load gives 0 or 1, and what is in memory when nothing is buffered.
LEMMA BareLoaded ==
  ASSUME BareTypes, NEW p \in Process, NEW u \in Cells
  PROVE  /\ Loaded(p, u) \in {0, 1}
         /\ buffer[p] = <<>> => Loaded(p, u) = mem[u]
<1> DEFINE own == {n \in DOMAIN buffer[p] : buffer[p][n][1] = u}
<1>1. buffer[p] \in Seq(Cells \X {0, 1}) /\ mem[u] \in {0, 1}
  BY DEF BareTypes
<1>2. own = {} => Loaded(p, u) = mem[u]
  BY DEF Loaded
<1>3. buffer[p] = <<>> => own = {}
  OBVIOUS
<1>4. CASE own # {}
  <2>1. Len(buffer[p]) \in Nat /\ own \in SUBSET (1 .. Len(buffer[p]))
    BY <1>1
  <2>2. \E m \in own : \A k \in own : k <= m
    BY <1>4, <2>1, Youngest
  <2> DEFINE m == CHOOSE n \in own : \A k \in own : k <= n
  <2>3. m \in own
    BY <2>2
  <2>4. buffer[p][m] \in Cells \X {0, 1}
    <3>1. m \in 1 .. Len(buffer[p])
      BY <2>1, <2>3
    <3> HIDE DEF m, own
    <3> QED  BY <1>1, <3>1
  <2>5. Loaded(p, u) = buffer[p][m][2]
    BY <1>4 DEF Loaded
  <2>6. buffer[p] # <<>>
    BY <1>3, <1>4
  <2> HIDE DEF m, own
  <2>7. buffer[p][m][2] \in {0, 1}
    BY <2>4
  <2> QED  BY <2>5, <2>6, <2>7
<1> QED  BY <1>1, <1>2, <1>3, <1>4

\* What the lemmas about the steps have in common.
Two(p, q) ==
  /\ p \in Process /\ q \in Process /\ q # p /\ q = Other(p) /\ p = Other(q)
  /\ \A r \in Process : r = p \/ r = q

\* A process and the other are two.
LEMMA ItIsTwo == ASSUME NEW p \in Process PROVE Two(p, Other(p))
  BY BareProcesses DEF Two

\* Where p goes, q stays.
LEMMA GoesTo ==
  ASSUME BareTypes, NEW p, NEW q, Two(p, q), NEW l \in TestLabels, TestGoto(p, l)
  PROVE  mbPc'[p] = l /\ mbPc'[q] = mbPc[q] /\ mbPc' \in [Process -> TestLabels]
  BY DEF BareTypes, Two, TestGoto

\* The oldest of one store, and of two.
LEMMA OneStore ==
  ASSUME NEW c, NEW r, NEW b, b = <<<<c, r>>>>
  PROVE  Head(b)[1] = c /\ Head(b)[2] = r /\ Tail(b) = <<>>
  OBVIOUS

\* A buffer of two stores, of which the first is written.
LEMMA TwoStores ==
  ASSUME NEW c, NEW r, NEW d, NEW s, NEW b, b = <<<<c, r>>, <<d, s>>>>
  PROVE  Head(b)[1] = c /\ Head(b)[2] = r /\ Tail(b) = <<<<d, s>>>>
  OBVIOUS

\* The test starts with both processes in front of their first round.
LEMMA BareInitInv == UnlockedInit => BareIInv
<1> SUFFICES ASSUME UnlockedInit PROVE BareIInv
  OBVIOUS
<1>1. BareTypes
  <2>1. buffer \in [Process -> Seq(Cells \X {0, 1})]
    BY DEF UnlockedInit
  <2>2. mbPc \in [Process -> TestLabels]
    BY DEF UnlockedInit, TestLabels
  <2>3. i \in [Process -> 0 .. Rounds] /\ seen \in [Process -> {0, 1}] /\ mem \in [Cells -> {0, 1}]
    BY RoundsAssumption DEF UnlockedInit
  <2> QED  BY <2>1, <2>2, <2>3 DEF UnlockedInit, BareTypes
<1>2. \A p \in Process : i[p] = 0 /\ mbPc[p] \in {"register", "round"} /\ buffer[p] = <<>>
  BY DEF UnlockedInit
<1>3. \A p \in Process : mem[ReadyOf(p)] = 0
  BY BareProcesses, CellsDiffer DEF UnlockedInit
<1>4. \A p \in Process : HasMet(p)
  BY <1>2, RoundsAssumption, BareProcesses
  DEF HasMet, Arrivals, HasArrived, PastSpin, UnlockedInit
<1>5. \A p \in Process : FirstInv(p)
  BY <1>2, <1>3, BareProcesses DEF FirstInv, InFirst, OneIsSeen, UnlockedInit
<1> QED  BY <1>1, <1>4, <1>5 DEF BareIInv

\* Steps of p, while q is where it is.  The child registers, or stops.
LEMMA RegisterMeets ==
  ASSUME BareIInv, mode' = mode, Register
  PROVE  BareIInv'
<1> DEFINE p == "child"
<1> DEFINE q == Other(p)
<1>p. p \in Process
  BY DEF Process
<1>t. Two(p, q)
  BY <1>p, ItIsTwo
<1>a. BareTypes /\ HasMet(p) /\ HasMet(q)
  BY <1>t DEF BareIInv, Two
<1>b. mode = "mb" => FirstInv(p) /\ FirstInv(q)
  BY <1>t DEF BareIInv, Two
<1>e. /\ mbPc[p] = "register" /\ mbPc'[p] \in {"round", "aborted"} /\ mbPc'[q] = mbPc[q]
      /\ mode = "mb" => mbPc'[p] = "round" /\ killed' = killed
      /\ mbPc' \in [Process -> TestLabels] /\ killed' \in BOOLEAN
      /\ UNCHANGED <<mem, buffer, ref, i, seen>>
  BY <1>t, <1>a DEF Two, TestGoto, BareTypes, TestLabels, Register, Abort
<1> HIDE DEF p, q
<1>1. BareTypes'
  BY <1>a, <1>e DEF BareTypes
<1>2. HasMet(p)' /\ HasMet(q)'
  BY <1>a, <1>e, <1>t, RoundsAssumption
  DEF HasMet, Arrivals, HasArrived, PastSpin, BareTypes, Two
<1>3. mode = "mb" => FirstInv(p)' /\ FirstInv(q)'
  BY <1>b, <1>e, <1>t
  DEF FirstInv, InFirst, OneIsSeen, HasLeft, HasRead, Two, Storing, Results, Flag
<1> QED  BY <1>1, <1>2, <1>3, <1>t, <1>e DEF BareIInv, Two

\* It arrives at the spin, or has done its rounds.
LEMMA ArriveMeets ==
  ASSUME BareIInv, mode' = mode, NEW p \in Process, Arrive(p)
  PROVE  BareIInv'
<1> DEFINE q == Other(p)
<1>t. Two(p, q)
  BY ItIsTwo
<1>a. BareTypes /\ HasMet(p) /\ HasMet(q)
  BY <1>t DEF BareIInv, Two
<1>b. mode = "mb" => FirstInv(p) /\ FirstInv(q)
  BY <1>t DEF BareIInv, Two
<1>e. /\ mbPc[p] = "round" /\ mbPc'[q] = mbPc[q] /\ mbPc' \in [Process -> TestLabels]
      /\ \/ mbPc'[p] = "spin" /\ ref' = ref + 1 /\ i[p] < Rounds
         \/ mbPc'[p] = "ended" /\ ref' = ref
      /\ UNCHANGED <<mem, buffer, killed, i, seen>>
  BY <1>t, <1>a DEF Two, TestGoto, BareTypes, TestLabels, Arrive
<1> HIDE DEF q
<1>1. BareTypes'
  BY <1>a, <1>e DEF BareTypes
<1>2. HasMet(p)' /\ HasMet(q)'
  <2>1. /\ i[p] \in Int /\ i[q] \in Int /\ ref \in Int /\ Other(p) = q /\ Other(q) = p
        /\ i' = i
    BY <1>a, <1>e, <1>t DEF BareTypes, Two
  <2>2. /\ Arrivals(q)' = Arrivals(q) /\ HasArrived(q)' = HasArrived(q)
        /\ PastSpin(q)' = PastSpin(q) /\ Arrivals(q) \in {i[q], i[q] + 1}
    BY <1>e DEF Arrivals, HasArrived, PastSpin
  <2>3. /\ Arrivals(p) = i[p] /\ ~PastSpin(p)' /\ mbPc'[p] # "register"
        /\ \/ Arrivals(p)' = i[p] + 1 /\ ref' = ref + 1
           \/ Arrivals(p)' = i[p] /\ ref' = ref
        /\ HasArrived(p)' => i'[p] < Rounds
    BY <1>e DEF Arrivals, HasArrived, PastSpin
  <2>4. /\ ref' <= Arrivals(p)' + Arrivals(q)' /\ ref' <= Arrivals(q)' + Arrivals(p)'
        /\ PastSpin(q)' => Arrivals(p)' >= i'[q] + 1
    <3>1. ref <= Arrivals(p) + Arrivals(q) /\ (PastSpin(q) => Arrivals(p) >= i[q] + 1)
      BY <1>a, <2>1 DEF HasMet
    <3> QED  BY <2>1, <2>2, <2>3, <3>1
  <2>5. HasMet(p)'
    BY <1>a, <2>1, <2>3, <2>4 DEF HasMet, Other
  <2>6. HasMet(q)'
    BY <1>a, <1>e, <2>1, <2>2, <2>4 DEF HasMet, Other
  <2> QED  BY <2>5, <2>6
<1>3. mode = "mb" => FirstInv(p)' /\ FirstInv(q)'
  BY <1>b, <1>e, <1>t
  DEF FirstInv, InFirst, OneIsSeen, HasLeft, HasRead, Two, Storing, Results, Flag
<1> QED  BY <1>1, <1>2, <1>3, <1>t, <1>e DEF BareIInv, Two

\* It goes on when both have arrived, and nobody waits for it a round ahead.
LEMMA SpinMeets ==
  ASSUME BareIInv, mode' = mode, NEW p \in Process, Spin(p)
  PROVE  BareIInv'
<1> DEFINE q == Other(p)
<1>t. Two(p, q)
  BY ItIsTwo
<1>a. BareTypes /\ HasMet(p) /\ HasMet(q)
  BY <1>t DEF BareIInv, Two
<1>b. mode = "mb" => FirstInv(p) /\ FirstInv(q)
  BY <1>t DEF BareIInv, Two
<1>e. /\ mbPc[p] = "spin" /\ mbPc'[q] = mbPc[q] /\ mbPc' \in [Process -> TestLabels]
      /\ mbPc'[p] = "store" /\ ref >= 2 * (i[p] + 1)
      /\ UNCHANGED <<mem, buffer, ref, killed, i, seen>>
  BY <1>t, <1>a DEF Two, TestGoto, BareTypes, TestLabels, Spin, shared
<1> HIDE DEF q
<1>1. BareTypes'
  BY <1>a, <1>e DEF BareTypes
<1>2. HasMet(p)' /\ HasMet(q)'
  BY <1>a, <1>e, <1>t, RoundsAssumption
  DEF HasMet, Arrivals, HasArrived, PastSpin, BareTypes, Two
<1>3. mode = "mb" => FirstInv(p)' /\ FirstInv(q)'
  <2>1. ~ (i[p] = 1 /\ i[q] = 0)
    <3>1. i[p] \in Nat /\ i[q] \in Nat /\ ref \in Nat
      BY <1>a, <1>t DEF BareTypes, Two
    <3>2. Arrivals(p) = i[p] + 1 /\ Arrivals(q) \in {i[q], i[q] + 1}
      BY <1>e DEF Arrivals, HasArrived
    <3>3. ref <= Arrivals(p) + Arrivals(q)
      BY <1>a, <1>t DEF HasMet, Two
    <3> QED  BY <1>e, <3>1, <3>2, <3>3
  <2> QED  BY <1>b, <1>e, <1>t, <2>1
           DEF FirstInv, InFirst, OneIsSeen, HasLeft, HasRead, Two, Storing, Results, Flag
<1> QED  BY <1>1, <1>2, <1>3, <1>t, <1>e DEF BareIInv, Two

\* It stops when the test was killed, which is not so in a first round.
LEMMA SpinKilledMeets ==
  ASSUME BareIInv, mode' = mode, NEW p \in Process, SpinKilled(p)
  PROVE  BareIInv'
<1> DEFINE q == Other(p)
<1>t. Two(p, q)
  BY ItIsTwo
<1>a. BareTypes /\ HasMet(p) /\ HasMet(q)
  BY <1>t DEF BareIInv, Two
<1>b. mode = "mb" => FirstInv(p) /\ FirstInv(q)
  BY <1>t DEF BareIInv, Two
<1>e. /\ mbPc[p] = "spin" /\ mbPc'[q] = mbPc[q] /\ mbPc' \in [Process -> TestLabels]
      /\ mbPc'[p] = "aborted" /\ killed
      /\ UNCHANGED <<mem, buffer, ref, killed, i, seen>>
  BY <1>t, <1>a DEF Two, TestGoto, BareTypes, TestLabels, SpinKilled, shared
<1> HIDE DEF q
<1>1. BareTypes'
  BY <1>a, <1>e DEF BareTypes
<1>2. HasMet(p)' /\ HasMet(q)'
  BY <1>a, <1>e, <1>t, RoundsAssumption
  DEF HasMet, Arrivals, HasArrived, PastSpin, BareTypes, Two
<1>3. mode = "mb" => FirstInv(p)' /\ FirstInv(q)'
  BY <1>b, <1>e, <1>t
  DEF FirstInv, InFirst, OneIsSeen, HasLeft, HasRead, Two, Storing, Results, Flag
<1> QED  BY <1>1, <1>2, <1>3, <1>t, <1>e DEF BareIInv, Two

\* Who has arrived stays in its round, or has met the other and goes on to the next.
LEMMA StaysMet ==
  ASSUME BareTypes, BareTypes', NEW p, NEW q, Two(p, q), HasMet(p), HasMet(q), HasArrived(p),
         mbPc'[q] = mbPc[q], i'[q] = i[q], ref' = ref,
         \/ HasArrived(p)' /\ (PastSpin(p)' => PastSpin(p)) /\ i'[p] = i[p]
         \/ PastSpin(p) /\ mbPc'[p] = "round" /\ i'[p] = i[p] + 1
  PROVE  HasMet(p)' /\ HasMet(q)'
<1>1. /\ i[p] \in Int /\ i[q] \in Int /\ ref \in Int /\ Rounds \in Int
      /\ Other(p) = q /\ Other(q) = p
  BY RoundsAssumption DEF BareTypes, Two
<1>2. PastSpin(p) => HasArrived(p)
  BY DEF HasArrived
<1>3. mbPc'[p] = "round" => ~HasArrived(p)' /\ ~PastSpin(p)'
  BY DEF HasArrived, PastSpin
<1>4. Arrivals(p) = i[p] + 1 /\ Arrivals(p)' = i[p] + 1
  BY <1>1, <1>3 DEF Arrivals
<1>5. /\ Arrivals(q)' = Arrivals(q) /\ HasArrived(q)' = HasArrived(q) /\ PastSpin(q)' = PastSpin(q)
      /\ Arrivals(q) \in {i[q], i[q] + 1}
  BY DEF Arrivals, HasArrived, PastSpin
<1>6. mbPc'[p] # "register"
  BY DEF HasArrived, PastSpin
<1>7. PastSpin(p) => i[p] <= i[q]
  BY <1>1, <1>5 DEF HasMet
<1>8. HasMet(p)'
  <2>1. PastSpin(p)' => Arrivals(q)' >= i'[p] + 1
    BY <1>1, <1>3, <1>5 DEF HasMet
  <2>2. i'[p] <= i'[q] + 1
    BY <1>1, <1>7 DEF HasMet
  <2>3. HasArrived(p)' => i'[p] < Rounds
    BY <1>1, <1>3 DEF HasMet
  <2>4. ref' <= Arrivals(p)' + Arrivals(q)'
    BY <1>1, <1>4, <1>5 DEF HasMet
  <2> QED  BY <1>1, <1>6, <2>1, <2>2, <2>3, <2>4 DEF HasMet, Other
<1>9. HasMet(q)'
  <2>1. PastSpin(q)' => Arrivals(p)' >= i'[q] + 1
    BY <1>1, <1>4, <1>5 DEF HasMet
  <2>2. i'[q] <= i'[p] + 1
    BY <1>1 DEF HasMet
  <2>3. ref' <= Arrivals(q)' + Arrivals(p)'
    BY <1>1, <1>4, <1>5 DEF HasMet
  <2> QED  BY <1>1, <1>5, <2>1, <2>2, <2>3 DEF HasMet, Other
<1> QED  BY <1>8, <1>9

\* It stores: nothing else was in its buffer in the first round.
LEMMA StoreMeets ==
  ASSUME BareIInv, mode' = mode, NEW p \in Process, Store(p)
  PROVE  BareIInv'
<1> DEFINE q == Other(p)
<1>t. Two(p, q)
  BY ItIsTwo
<1>a. BareTypes /\ HasMet(p) /\ HasMet(q)
  BY <1>t DEF BareIInv, Two
<1>b. mode = "mb" => FirstInv(p) /\ FirstInv(q)
  BY <1>t DEF BareIInv, Two
<1>e. /\ mbPc[p] = "store" /\ mbPc'[q] = mbPc[q] /\ mbPc' \in [Process -> TestLabels]
      /\ mbPc'[p] = "fence" /\ buffer'[q] = buffer[q]
      /\ buffer'[p] = Append(buffer[p], <<Mine(p), 1>>)
      /\ buffer' = [buffer EXCEPT ![p] = Append(@, <<Mine(p), 1>>)]
      /\ UNCHANGED <<mem, ref, killed, i, seen>>
  BY <1>t, <1>a DEF Two, TestGoto, BareTypes, TestLabels, Store
<1> HIDE DEF q
<1>1. BareTypes'
  <2>1. <<Mine(p), 1>> \in Cells \X {0, 1}
    BY <1>t, CellsDiffer DEF Two
  <2>2. Append(buffer[p], <<Mine(p), 1>>) \in Seq(Cells \X {0, 1})
    <3>1. buffer[p] \in Seq(Cells \X {0, 1})
      BY <1>a, <1>t DEF BareTypes, Two
    <3> QED  BY <2>1, <3>1
  <2> QED  BY <1>a, <1>e, <2>2 DEF BareTypes
<1>2. HasMet(p)' /\ HasMet(q)'
  <2>1. HasArrived(p) /\ PastSpin(p)
    BY <1>e DEF HasArrived, PastSpin
  <2>2. mbPc'[p] # "round" => HasArrived(p)' /\ i'[p] = i[p] /\ i'[q] = i[q]
    BY <1>e DEF HasArrived, PastSpin
  <2>3. mbPc'[p] = "round" => i'[p] = i[p] + 1 /\ i'[q] = i[q]
    BY <1>e
  <2> QED  BY <1>1, <1>a, <1>e, <1>t, <2>1, <2>2, <2>3, StaysMet
<1>3. mode = "mb" => FirstInv(p)' /\ FirstInv(q)'
  <2>1. buffer[p] = <<>> => buffer'[p] = Storing(p)
    BY <1>e DEF Storing
  <2> QED  BY <1>b, <1>e, <1>t, <2>1
           DEF FirstInv, InFirst, OneIsSeen, HasLeft, HasRead, Two, Storing, Results, Flag
<1> QED  BY <1>1, <1>2, <1>3, <1>t, <1>e DEF BareIInv, Two

\* The barrier waits for the buffer.
LEMMA FenceMeets ==
  ASSUME BareIInv, mode' = mode, NEW p \in Process, Fence(p)
  PROVE  BareIInv'
<1> DEFINE q == Other(p)
<1>t. Two(p, q)
  BY ItIsTwo
<1>a. BareTypes /\ HasMet(p) /\ HasMet(q)
  BY <1>t DEF BareIInv, Two
<1>b. mode = "mb" => FirstInv(p) /\ FirstInv(q)
  BY <1>t DEF BareIInv, Two
<1>e. /\ mbPc[p] = "fence" /\ mbPc'[q] = mbPc[q] /\ mbPc' \in [Process -> TestLabels]
      /\ mbPc'[p] \in {"load", "aborted"} /\ killed' \in BOOLEAN
      /\ mode = "mb" => mbPc'[p] = "load" /\ killed' = killed /\ buffer[p] = <<>>
      /\ UNCHANGED <<mem, buffer, ref, i, seen>>
  BY <1>t, <1>a DEF Two, TestGoto, BareTypes, TestLabels, Fence, Abort, Drained
<1> HIDE DEF q
<1>1. BareTypes'
  BY <1>a, <1>e DEF BareTypes
<1>2. HasMet(p)' /\ HasMet(q)'
  <2>1. HasArrived(p) /\ PastSpin(p)
    BY <1>e DEF HasArrived, PastSpin
  <2>2. mbPc'[p] # "round" => HasArrived(p)' /\ i'[p] = i[p] /\ i'[q] = i[q]
    BY <1>e DEF HasArrived, PastSpin
  <2>3. mbPc'[p] = "round" => i'[p] = i[p] + 1 /\ i'[q] = i[q]
    BY <1>e
  <2> QED  BY <1>1, <1>a, <1>e, <1>t, <2>1, <2>2, <2>3, StaysMet
<1>3. mode = "mb" => FirstInv(p)' /\ FirstInv(q)'
  BY <1>b, <1>e, <1>t
  DEF FirstInv, InFirst, OneIsSeen, HasLeft, HasRead, Two, Storing, Results, Flag
<1> QED  BY <1>1, <1>2, <1>3, <1>t, <1>e DEF BareIInv, Two

\* It loads after its own store, and then sees that of q, if q has loaded before.
LEMMA LoadMeets ==
  ASSUME BareIInv, mode' = mode, NEW p \in Process, Load(p)
  PROVE  BareIInv'
<1> DEFINE q == Other(p)
<1>t. Two(p, q)
  BY ItIsTwo
<1>a. BareTypes /\ HasMet(p) /\ HasMet(q)
  BY <1>t DEF BareIInv, Two
<1>b. mode = "mb" => FirstInv(p) /\ FirstInv(q)
  BY <1>t DEF BareIInv, Two
<1>e. /\ mbPc[p] = "load" /\ mbPc'[q] = mbPc[q] /\ mbPc' \in [Process -> TestLabels]
      /\ mbPc'[p] = "check" /\ seen'[q] = seen[q] /\ seen'[p] = Loaded(p, Mine(q))
      /\ seen' = [seen EXCEPT ![p] = Loaded(p, Mine(q))]
      /\ UNCHANGED <<mem, buffer, ref, killed, i>>
  BY <1>t, <1>a DEF Two, TestGoto, BareTypes, TestLabels, Load, shared
<1> HIDE DEF q
<1>l. /\ Loaded(p, Mine(q)) \in {0, 1}
      /\ buffer[p] = <<>> => Loaded(p, Mine(q)) = mem[Mine(q)]
  BY <1>a, <1>t, BareLoaded, CellsDiffer DEF Two
<1>1. BareTypes'
  BY <1>a, <1>e, <1>l DEF BareTypes
<1>2. HasMet(p)' /\ HasMet(q)'
  <2>1. HasArrived(p) /\ PastSpin(p)
    BY <1>e DEF HasArrived, PastSpin
  <2>2. mbPc'[p] # "round" => HasArrived(p)' /\ i'[p] = i[p] /\ i'[q] = i[q]
    BY <1>e DEF HasArrived, PastSpin
  <2>3. mbPc'[p] = "round" => i'[p] = i[p] + 1 /\ i'[q] = i[q]
    BY <1>e
  <2> QED  BY <1>1, <1>a, <1>e, <1>t, <2>1, <2>2, <2>3, StaysMet
<1>3. mode = "mb" => FirstInv(p)' /\ FirstInv(q)'
  <2>1. buffer[p] = <<>> => seen'[p] = mem[Mine(q)]
    BY <1>e, <1>l
  <2>2. mode = "mb" /\ i[p] = 0 /\ HasRead(q) => mem[Mine(q)] = 1 /\ buffer[p] = <<>>
    BY <1>b, <1>e, <1>t DEF FirstInv, InFirst, HasLeft, HasRead, Two
  <2>3. mode = "mb" => FirstInv(p)'
    BY <1>b, <1>e, <1>t, <2>1, <2>2
    DEF FirstInv, InFirst, OneIsSeen, HasLeft, HasRead, Two, Storing, Results, Flag
  <2>4. mode = "mb" /\ i[q] = 0 => i[p] = 0
    BY <1>b, <1>e, <1>t DEF FirstInv, HasLeft, Two
  <2>5. mode = "mb" => FirstInv(q)'
    BY <1>b, <1>e, <1>t, <2>1, <2>2, <2>4
    DEF FirstInv, InFirst, OneIsSeen, HasLeft, HasRead, Two, Storing, Results, Flag
  <2> QED  BY <2>3, <2>5
<1> QED  BY <1>1, <1>2, <1>3, <1>t, <1>e DEF BareIInv, Two

\* It leaves its result, or finds that of q.
LEMMA TestReadyMeets ==
  ASSUME BareIInv, mode' = mode, NEW p \in Process, TestReady(p)
  PROVE  BareIInv'
<1> DEFINE q == Other(p)
<1>t. Two(p, q)
  BY ItIsTwo
<1>a. BareTypes /\ HasMet(p) /\ HasMet(q)
  BY <1>t DEF BareIInv, Two
<1>b. mode = "mb" => FirstInv(p) /\ FirstInv(q)
  BY <1>t DEF BareIInv, Two
<1>e. /\ mbPc[p] = "check" /\ mbPc'[q] = mbPc[q] /\ mbPc' \in [Process -> TestLabels]
      /\ UNCHANGED <<mem, ref, killed, seen>>
      /\ \/ /\ Loaded(p, ReadyOf(q)) = 1 /\ mbPc'[p] = "compare" /\ UNCHANGED <<buffer, i>>
         \/ /\ mbPc'[p] = "round" /\ i' = [i EXCEPT ![p] = i[p] + 1] /\ i'[p] = i[p] + 1
            /\ i'[q] = i[q] /\ buffer'[p] = buffer[p] \o Results(p) /\ buffer'[q] = buffer[q]
            /\ buffer' = [buffer EXCEPT ![p] = buffer[p] \o Results(p)]
  <2>d. /\ DOMAIN i = Process /\ DOMAIN buffer = Process /\ Other(p) = q
        /\ p \in Process /\ q \in Process /\ q # p
    BY <1>a, <1>t DEF BareTypes, Two
  <2>0. mbPc[p] = "check" /\ UNCHANGED <<mem, ref, killed, seen>>
    BY DEF TestReady
  <2>1. CASE Loaded(p, ReadyOf(q)) = 1
    <3>1. TestGoto(p, "compare") /\ UNCHANGED <<buffer, i>>
      BY <2>1, <2>d DEF TestReady
    <3>2. /\ mbPc'[p] = "compare" /\ mbPc'[q] = mbPc[q]
          /\ mbPc' \in [Process -> TestLabels]
      BY <1>a, <1>t, <3>1, GoesTo DEF TestLabels
    <3> QED  BY <2>0, <2>1, <3>1, <3>2
  <2>2. CASE Loaded(p, ReadyOf(q)) # 1
    <3>1. /\ TestGoto(p, "round") /\ i' = [i EXCEPT ![p] = i[p] + 1]
          /\ buffer' = [buffer EXCEPT ![p] = buffer[p] \o Results(p)]
      BY <2>2, <2>d DEF TestReady, Stores, Results
    <3>2. /\ mbPc'[p] = "round" /\ mbPc'[q] = mbPc[q]
          /\ mbPc' \in [Process -> TestLabels]
      BY <1>a, <1>t, <3>1, GoesTo DEF TestLabels
    <3>3. /\ i'[p] = i[p] + 1 /\ i'[q] = i[q]
          /\ buffer'[p] = buffer[p] \o Results(p) /\ buffer'[q] = buffer[q]
      BY <2>d, <3>1
    <3> QED  BY <2>0, <3>1, <3>2, <3>3
  <2> QED  BY <2>1, <2>2
<1> HIDE DEF q
<1>l. buffer[p] = <<>> => Loaded(p, ReadyOf(q)) = mem[ReadyOf(q)]
  BY <1>a, <1>t, BareLoaded, CellsDiffer DEF Two
<1>m. i[p] + 1 <= Rounds
  <2>1. i[p] < Rounds
    BY <1>a, <1>e DEF HasMet, HasArrived, PastSpin
  <2>2. i[p] \in Int /\ Rounds \in Int
    BY <1>a, <1>t, RoundsAssumption DEF BareTypes, Two
  <2> QED  BY <2>1, <2>2
<1>1. BareTypes'
  <2>1. Results(p) \in Seq(Cells \X {0, 1})
    BY <1>a, <1>t, CellsDiffer DEF Results, Two, BareTypes
  <2>2. buffer[p] \o Results(p) \in Seq(Cells \X {0, 1})
    <3>1. buffer[p] \in Seq(Cells \X {0, 1})
      BY <1>a, <1>t DEF BareTypes, Two
    <3> QED  BY <2>1, <3>1
  <2>3. buffer' \in [Process -> Seq(Cells \X {0, 1})]
    BY <1>a, <1>e, <2>2 DEF BareTypes
  <2>4. i' \in [Process -> 0 .. Rounds]
    <3>1. i \in [Process -> 0 .. Rounds] /\ Rounds \in Nat /\ p \in Process
      BY <1>a, <1>t, RoundsAssumption DEF BareTypes, Two
    <3> QED  BY <1>e, <1>m, <3>1
  <2> QED  BY <1>a, <1>e, <2>3, <2>4 DEF BareTypes
<1>2. HasMet(p)' /\ HasMet(q)'
  <2>1. HasArrived(p) /\ PastSpin(p)
    BY <1>e DEF HasArrived, PastSpin
  <2>2. mbPc'[p] # "round" => HasArrived(p)' /\ i'[p] = i[p] /\ i'[q] = i[q]
    BY <1>e DEF HasArrived, PastSpin
  <2>3. mbPc'[p] = "round" => i'[p] = i[p] + 1 /\ i'[q] = i[q]
    BY <1>e
  <2> QED  BY <1>1, <1>a, <1>e, <1>t, <2>1, <2>2, <2>3, StaysMet
<1>3. mode = "mb" => FirstInv(p)' /\ FirstInv(q)'
  <2>1. CASE mbPc'[p] = "compare"
    <3>1. buffer[p] = <<>> => mem[ReadyOf(q)] = 1
      BY <1>e, <1>l, <2>1
    <3>2. mode = "mb" /\ i[p] = 0 => buffer[p] = <<>>
      BY <1>b, <1>e DEF FirstInv, InFirst
    <3>3. mode = "mb" /\ i[p] = 0 => i[q] = 1 /\ buffer[q] = <<>>
      BY <1>b, <1>e, <1>t, <3>1, <3>2 DEF FirstInv, InFirst, HasLeft, Two
    <3>4. UNCHANGED <<buffer, i>>
      BY <1>e, <2>1
    <3>5. mode = "mb" => FirstInv(p)'
      BY <1>b, <1>e, <1>t, <3>3, <3>4
      DEF FirstInv, InFirst, OneIsSeen, HasLeft, HasRead, Two, Storing, Results, Flag
    <3>6. mode = "mb" /\ i[q] = 0 => i[p] # 0
      BY <3>3
    <3>7. mode = "mb" => FirstInv(q)'
      BY <1>b, <1>e, <1>t, <3>4, <3>6
      DEF FirstInv, InFirst, OneIsSeen, HasLeft, HasRead, Two, Storing, Results, Flag
    <3> QED  BY <3>5, <3>7
  <2>2. CASE mbPc'[p] = "round"
    <3>1. /\ i'[p] = i[p] + 1 /\ i'[q] = i[q] /\ i[p] \in Nat
          /\ buffer'[p] = buffer[p] \o Results(p) /\ buffer'[q] = buffer[q]
      BY <1>a, <1>e, <1>t, <2>2 DEF BareTypes, Two
    <3>2. buffer[p] = <<>> => buffer'[p] = Results(p)
      BY <3>1 DEF Results
    <3>3. FirstInv(p)'
      BY <3>1 DEF FirstInv
    <3>4. mode = "mb" /\ i[q] = 0 => i[p] = 0
      BY <1>b, <1>e, <1>t DEF FirstInv, HasLeft, Two
    <3>5. mode = "mb" => FirstInv(q)'
      <4>1. SUFFICES ASSUME mode = "mb", i'[q] = 0 PROVE FirstInv(q)'
        BY DEF FirstInv
      <4>2. i[p] = 0 /\ i[q] = 0 /\ i'[p] = 1 /\ Other(q) = p /\ Other(p) = q
        BY <1>t, <3>1, <3>4, <4>1 DEF Two
      <4>3. /\ InFirst(p) /\ InFirst(q) /\ OneIsSeen(q) /\ mbPc[q] # "compare"
        BY <1>b, <4>1, <4>2 DEF FirstInv
      <4>4. buffer[p] = <<>> /\ mem[Mine(p)] = 1 /\ mem[ReadyOf(p)] = 0
        BY <1>e, <4>3 DEF InFirst
      <4>5. HasLeft(p)'
        BY <1>e, <2>2, <3>2, <4>2, <4>4 DEF HasLeft, Results
      <4>6. InFirst(q)'
        BY <1>e, <3>1, <4>3 DEF InFirst, Storing
      <4>7. OneIsSeen(q)'
        BY <1>e, <4>2, <4>3 DEF OneIsSeen, HasRead
      <4> QED  BY <1>e, <4>2, <4>3, <4>5, <4>6, <4>7 DEF FirstInv, Other
    <3> QED  BY <3>3, <3>5
  <2> QED  BY <1>e, <2>1, <2>2
<1> QED  BY <1>1, <1>2, <1>3, <1>t, <1>e DEF BareIInv, Two

\* It compares: in the first round one of the two has seen the other, and there is no alarm.
LEMMA CompareMeets ==
  ASSUME BareIInv, mode' = mode, NEW p \in Process, CompareRegs(p)
  PROVE  BareIInv'
<1> DEFINE q == Other(p)
<1>t. Two(p, q)
  BY ItIsTwo
<1>a. BareTypes /\ HasMet(p) /\ HasMet(q)
  BY <1>t DEF BareIInv, Two
<1>b. mode = "mb" => FirstInv(p) /\ FirstInv(q)
  BY <1>t DEF BareIInv, Two
<1>e. /\ mbPc[p] = "compare" /\ mbPc'[q] = mbPc[q] /\ mbPc' \in [Process -> TestLabels]
      /\ UNCHANGED <<mem, ref, seen>> /\ killed' \in BOOLEAN
      /\ \/ /\ seen[p] = 0 /\ Loaded(p, ResultOf(q)) = 0 /\ mbPc'[p] = "aborted"
            /\ UNCHANGED <<buffer, i>>
         \/ /\ mbPc'[p] = "round" /\ i' = [i EXCEPT ![p] = i[p] + 1] /\ i'[p] = i[p] + 1
            /\ i'[q] = i[q] /\ buffer' = [buffer EXCEPT ![p] = buffer[p] \o Resets(q)]
            /\ killed' = killed
  <2>d. /\ DOMAIN i = Process /\ DOMAIN buffer = Process /\ Other(p) = q
        /\ p \in Process /\ q \in Process /\ q # p
    BY <1>a, <1>t DEF BareTypes, Two
  <2>0. mbPc[p] = "compare" /\ UNCHANGED <<mem, ref, seen>>
    BY DEF CompareRegs
  <2>1. CASE seen[p] = 0 /\ Loaded(p, ResultOf(q)) = 0
    <3>1. TestGoto(p, "aborted") /\ killed' = TRUE /\ UNCHANGED <<buffer, i>>
      BY <2>1, <2>d DEF CompareRegs, Abort
    <3>2. /\ mbPc'[p] = "aborted" /\ mbPc'[q] = mbPc[q]
          /\ mbPc' \in [Process -> TestLabels]
      BY <1>a, <1>t, <3>1, GoesTo DEF TestLabels
    <3> QED  BY <2>0, <2>1, <3>1, <3>2
  <2>2. CASE ~(seen[p] = 0 /\ Loaded(p, ResultOf(q)) = 0)
    <3>1. /\ TestGoto(p, "round") /\ i' = [i EXCEPT ![p] = i[p] + 1] /\ killed' = killed
          /\ buffer' = [buffer EXCEPT ![p] = buffer[p] \o Resets(q)]
      BY <2>2, <2>d DEF CompareRegs, Stores, Resets
    <3>2. /\ mbPc'[p] = "round" /\ mbPc'[q] = mbPc[q]
          /\ mbPc' \in [Process -> TestLabels]
      BY <1>a, <1>t, <3>1, GoesTo DEF TestLabels
    <3>3. i'[p] = i[p] + 1 /\ i'[q] = i[q]
      BY <2>d, <3>1
    <3>4. killed' \in BOOLEAN
      BY <1>a, <3>1 DEF BareTypes
    <3> QED  BY <2>0, <3>1, <3>2, <3>3, <3>4
  <2> QED  BY <2>1, <2>2
<1> HIDE DEF q
<1>l. buffer[p] = <<>> => Loaded(p, ResultOf(q)) = mem[ResultOf(q)]
  BY <1>a, <1>t, BareLoaded, CellsDiffer DEF Two
<1>m. i[p] + 1 <= Rounds
  <2>1. i[p] < Rounds
    BY <1>a, <1>e DEF HasMet, HasArrived, PastSpin
  <2>2. i[p] \in Int /\ Rounds \in Int
    BY <1>a, <1>t, RoundsAssumption DEF BareTypes, Two
  <2> QED  BY <2>1, <2>2
<1>1. BareTypes'
  <2>1. Resets(q) \in Seq(Cells \X {0, 1})
    BY <1>t, CellsDiffer DEF Resets, Two
  <2>2. buffer[p] \o Resets(q) \in Seq(Cells \X {0, 1})
    <3>1. buffer[p] \in Seq(Cells \X {0, 1})
      BY <1>a, <1>t DEF BareTypes, Two
    <3> QED  BY <2>1, <3>1
  <2>3. buffer' \in [Process -> Seq(Cells \X {0, 1})]
    BY <1>a, <1>e, <2>2 DEF BareTypes
  <2>4. i' \in [Process -> 0 .. Rounds]
    <3>1. i \in [Process -> 0 .. Rounds] /\ Rounds \in Nat /\ p \in Process
      BY <1>a, <1>t, RoundsAssumption DEF BareTypes, Two
    <3> QED  BY <1>e, <1>m, <3>1
  <2> QED  BY <1>a, <1>e, <2>3, <2>4 DEF BareTypes
<1>2. HasMet(p)' /\ HasMet(q)'
  <2>1. HasArrived(p) /\ PastSpin(p)
    BY <1>e DEF HasArrived, PastSpin
  <2>2. mbPc'[p] # "round" => HasArrived(p)' /\ i'[p] = i[p] /\ i'[q] = i[q]
    BY <1>e DEF HasArrived, PastSpin
  <2>3. mbPc'[p] = "round" => i'[p] = i[p] + 1 /\ i'[q] = i[q]
    BY <1>e
  <2> QED  BY <1>1, <1>a, <1>e, <1>t, <2>1, <2>2, <2>3, StaysMet
<1>3. mode = "mb" => FirstInv(p)' /\ FirstInv(q)'
  <2>1. mode = "mb" /\ i[p] = 0 =>
          /\ buffer[p] = <<>> /\ i[q] = 1 /\ (seen[p] = 1 \/ seen[q] = 1)
          /\ mem[ResultOf(q)] = seen[q]
    BY <1>b, <1>e, <1>t
    DEF FirstInv, InFirst, OneIsSeen, HasLeft, HasRead, Two, Results, Flag
  <2>2. mode = "mb" => i[q] # 0
    <3>1. mode = "mb" /\ i[q] = 0 => i[p] = 0
      BY <1>b, <1>e, <1>t DEF FirstInv, HasLeft, Two
    <3> QED  BY <2>1, <3>1
  <2>3. mode = "mb" => i'[p] # 0
    <3>1. CASE mbPc'[p] = "round"
      BY <1>a, <1>e, <1>t, <3>1 DEF BareTypes, Two
    <3>2. CASE mbPc'[p] = "aborted"
      BY <1>e, <1>l, <2>1, <3>2
    <3> QED  BY <1>e, <3>1, <3>2
  <2> QED  BY <1>e, <2>2, <2>3 DEF FirstInv
<1> QED  BY <1>1, <1>2, <1>3, <1>t, <1>e DEF BareIInv, Two

\* A store of p reaches the memory: that of its round, or its result and then the flag.
LEMMA DrainMeets ==
  ASSUME BareIInv, mode' = mode, NEW p \in Process, Drain(p)
  PROVE  BareIInv'
<1> DEFINE q == Other(p)
<1>t. Two(p, q)
  BY ItIsTwo
<1>a. BareTypes /\ HasMet(p) /\ HasMet(q)
  BY <1>t DEF BareIInv, Two
<1>b. mode = "mb" => FirstInv(p) /\ FirstInv(q)
  BY <1>t DEF BareIInv, Two
<1>e. /\ buffer[p] # <<>> /\ buffer[p] \in Seq(Cells \X {0, 1})
      /\ mem' = [mem EXCEPT ![Head(buffer[p])[1]] = Head(buffer[p])[2]]
      /\ buffer' = [buffer EXCEPT ![p] = Tail(buffer[p])]
      /\ buffer'[p] = Tail(buffer[p]) /\ buffer'[q] = buffer[q]
      /\ UNCHANGED <<ref, killed, mbPc, i, seen>>
  BY <1>t, <1>a DEF Two, TestGoto, BareTypes, TestLabels, Drain, Drained
<1> HIDE DEF q
<1>1. BareTypes'
  <2>1. Head(buffer[p]) \in Cells \X {0, 1} /\ Tail(buffer[p]) \in Seq(Cells \X {0, 1})
    BY <1>e
  <2>2. Head(buffer[p])[1] \in Cells /\ Head(buffer[p])[2] \in {0, 1}
    BY <2>1
  <2>3. mem' \in [Cells -> {0, 1}]
    BY <1>a, <1>e, <2>2 DEF BareTypes
  <2>4. buffer' \in [Process -> Seq(Cells \X {0, 1})]
    BY <1>a, <1>e, <2>1 DEF BareTypes
  <2> QED  BY <1>a, <1>e, <2>3, <2>4 DEF BareTypes
<1>2. HasMet(p)' /\ HasMet(q)'
  BY <1>a, <1>e, <1>t, RoundsAssumption
  DEF HasMet, Arrivals, HasArrived, PastSpin, BareTypes, Two
<1>d. {Mine(p), Mine(q), ResultOf(p), ResultOf(q), ReadyOf(p), ReadyOf(q)} \subseteq Cells
  BY <1>t, CellsDiffer DEF Two
<1>m. mem \in [Cells -> {0, 1}]
  BY <1>a DEF BareTypes
<1>3. mode = "mb" => FirstInv(p)' /\ FirstInv(q)'
  <2>1. CASE buffer[p] = Storing(p) /\ i[p] = 0
    <3>1. mem' = [mem EXCEPT ![Mine(p)] = 1] /\ buffer'[p] = <<>>
      <4>1. buffer[p] = <<<<Mine(p), 1>>>>
        BY <2>1 DEF Storing
      <4>2. Head(buffer[p])[1] = Mine(p) /\ Head(buffer[p])[2] = 1 /\ Tail(buffer[p]) = <<>>
        BY ONLY <4>1, OneStore
      <4> QED  BY <1>e, <4>2
    <3>2. mem'[Mine(p)] = 1 /\ \A u \in Cells : u # Mine(p) => mem'[u] = mem[u]
      BY <1>d, <1>m, <3>1
    <3>3. /\ mem'[Mine(q)] = mem[Mine(q)] /\ mem'[ReadyOf(p)] = mem[ReadyOf(p)]
          /\ mem'[ReadyOf(q)] = mem[ReadyOf(q)] /\ mem'[ResultOf(q)] = mem[ResultOf(q)]
      BY <1>d, <1>t, <3>2, CellsDiffer DEF Two
    <3> QED  BY <1>b, <1>e, <1>t, <2>1, <3>1, <3>2, <3>3
             DEF FirstInv, InFirst, OneIsSeen, HasLeft, HasRead, Two, Storing, Results, Flag
  <2>2. CASE i[p] # 0 /\ i[q] = 0
    <3>1. mode = "mb" => HasLeft(p) /\ InFirst(q)
      BY <1>b, <1>t, <2>2 DEF FirstInv, Two
    <3>2. CASE buffer[p] = Results(p)
      <4>1. mem' = [mem EXCEPT ![ResultOf(p)] = seen[p]] /\ buffer'[p] = Flag(p)
        <5>1. buffer[p] = <<<<ResultOf(p), seen[p]>>, <<ReadyOf(p), 1>>>>
          BY <3>2 DEF Results
        <5>2. /\ Head(buffer[p])[1] = ResultOf(p) /\ Head(buffer[p])[2] = seen[p]
              /\ Tail(buffer[p]) = Flag(p)
          BY ONLY <5>1, TwoStores DEF Flag
        <5> QED  BY <1>e, <5>2
      <4>2. mem'[ResultOf(p)] = seen[p] /\ \A u \in Cells : u # ResultOf(p) => mem'[u] = mem[u]
        BY <1>d, <1>m, <4>1
      <4>3. /\ mem'[Mine(q)] = mem[Mine(q)] /\ mem'[ReadyOf(p)] = mem[ReadyOf(p)]
            /\ mem'[ReadyOf(q)] = mem[ReadyOf(q)] /\ mem'[Mine(p)] = mem[Mine(p)]
        BY <1>d, <1>t, <4>2, CellsDiffer DEF Two
      <4>4. Results(p) # Flag(p) /\ Results(p) # <<>>
        BY DEF Results, Flag
      <4>5. mode = "mb" => mem[ReadyOf(p)] = 0
        BY <3>1, <3>2, <4>4 DEF HasLeft
      <4> QED  BY <1>b, <1>e, <1>t, <2>2, <3>1, <3>2, <4>1, <4>2, <4>3, <4>5
               DEF FirstInv, InFirst, OneIsSeen, HasLeft, HasRead, Two, Storing, Results, Flag
    <3>3. CASE buffer[p] = Flag(p)
      <4>1. mem' = [mem EXCEPT ![ReadyOf(p)] = 1] /\ buffer'[p] = <<>>
        <5>1. buffer[p] = <<<<ReadyOf(p), 1>>>>
          BY <3>3 DEF Flag
        <5>2. /\ Head(buffer[p])[1] = ReadyOf(p) /\ Head(buffer[p])[2] = 1
              /\ Tail(buffer[p]) = <<>>
          BY ONLY <5>1, OneStore
        <5> QED  BY <1>e, <5>2
      <4>2. mem'[ReadyOf(p)] = 1 /\ \A u \in Cells : u # ReadyOf(p) => mem'[u] = mem[u]
        BY <1>d, <1>m, <4>1
      <4>3. /\ mem'[Mine(q)] = mem[Mine(q)] /\ mem'[ResultOf(p)] = mem[ResultOf(p)]
            /\ mem'[ReadyOf(q)] = mem[ReadyOf(q)] /\ mem'[Mine(p)] = mem[Mine(p)]
        BY <1>d, <1>t, <4>2, CellsDiffer DEF Two
      <4>4. Results(p) # Flag(p) /\ Flag(p) # <<>>
        BY DEF Results, Flag
      <4>5. mode = "mb" => mem[ResultOf(p)] = seen[p]
        BY <3>1, <3>3, <4>4 DEF HasLeft
      <4> QED  BY <1>b, <1>e, <1>t, <2>2, <3>1, <3>3, <4>1, <4>2, <4>3, <4>5
               DEF FirstInv, InFirst, OneIsSeen, HasLeft, HasRead, Two, Storing, Results, Flag
    <3> QED  BY <1>e, <3>1, <3>2, <3>3 DEF HasLeft, FirstInv
  <2>3. CASE i[p] # 0 /\ i[q] # 0
    BY <1>e, <2>3 DEF FirstInv
  <2>4. mode = "mb" /\ i[p] = 0 => buffer[p] = Storing(p)
    BY <1>b, <1>e DEF FirstInv, InFirst
  <2> QED  BY <2>1, <2>2, <2>3, <2>4
<1> QED  BY <1>1, <1>2, <1>3, <1>t, <1>e DEF BareIInv, Two

\* Every step of the test without its mutex preserves its inductive invariant.
LEMMA BareStep == BareIInv /\ [UnlockedNext]_mbVars => BareIInv'
<1>1. ASSUME BareIInv, UNCHANGED mbVars PROVE BareIInv'
  BY <1>1 DEF mbVars, shared, BareIInv, BareTypes, HasMet, Arrivals, HasArrived, PastSpin, FirstInv,
              InFirst, OneIsSeen, HasLeft, HasRead, Two, Storing, Results, Flag
<1>2. ASSUME BareIInv, mode' = mode, NEW p \in Process, UnlockedLoop(p) \/ Drain(p)
      PROVE  BareIInv'
  BY <1>2, RegisterMeets, ArriveMeets, SpinMeets, SpinKilledMeets, StoreMeets, FenceMeets,
     LoadMeets, TestReadyMeets, CompareMeets, DrainMeets
  DEF UnlockedLoop, check_regs
<1> QED  BY <1>1, <1>2 DEF UnlockedNext, TestTerminated

\* The inductive invariant is strong enough.
LEMMA BareFollows == BareIInv => UnlockedMembarrierInv
<1> SUFFICES ASSUME BareIInv PROVE UnlockedMembarrierInv
  OBVIOUS
<1>1. "parent" \in Process /\ BareTypes /\ HasMet("parent")
  BY DEF Process, BareIInv
<1>2. i["parent"] \in 0 .. Rounds /\ i["child"] \in 0 .. Rounds
  BY <1>1 DEF Process, BareTypes
<1>3. Arrivals("parent") <= Rounds /\ Arrivals("child") <= Rounds
  <2>1. HasMet("child")
    BY DEF Process, BareIInv
  <2> QED  BY <1>1, <1>2, <2>1, RoundsAssumption DEF HasMet, Arrivals
<1>4. ref <= 2 * Rounds /\ ref \in Nat
  <2>1. Other("parent") = "child" /\ Arrivals("parent") \in Nat /\ Arrivals("child") \in Nat
    BY <1>2 DEF Other, Arrivals
  <2> QED  BY <1>1, <1>3, <2>1, RoundsAssumption DEF HasMet, BareTypes
<1>5. UnlockedTypeOK
  BY <1>1, <1>4, RoundsAssumption DEF UnlockedTypeOK, BareTypes
<1>6. \A p \in Process : i[p] <= i[Other(p)] + 1
  BY DEF BareIInv, HasMet
<1>7. mode = "mb" => \A p \in Process : mbPc[p] = "aborted" => i[p] > 0
  BY <1>1 DEF BareIInv, BareTypes, FirstInv, InFirst
<1> QED  BY <1>5, <1>6, <1>7 DEF UnlockedMembarrierInv, FirstRoundIsSafe

\* For any number of rounds: paired barriers exclude in the first of them what both threads
\* test for, and without the lock too no thread is more than a round ahead of the other
\* (test-membarrier-shared.c with membarrier.h).
THEOREM FirstRoundIsKept == UnlockedSpec => []UnlockedMembarrierInv
<1> QED
  BY BareInitInv, BareStep, BareFollows, PTL DEF UnlockedSpec

-----------------------------------------------------------------------------
(***************************************************************************)
(* udp_server.c: the parts of the file that are claimed under the lock are *)
(* disjoint, and each receiver counts what it received as long as nobody   *)
(* else has used the variables they share.                                 *)
(***************************************************************************)

\* The sum of f over S, as FoldFunctionOnSet adds it up: an element of S, and then the others.
SumOver(f, S) == FoldFunctionOnSet(+, 0, f, S)

OneOf(s) == CHOOSE x \in s : TRUE
IsSum(g, f, S) ==
  g = [s \in SUBSET S |-> IF s = {} THEN 0 ELSE f[OneOf(s)] + g[s \ {OneOf(s)}]]

\* What is in Q whenever all its proper subsets are, is in Q.
LEMMA SubsetInduction ==
  ASSUME NEW S, IsFiniteSet(S), NEW Q,
         \A t \in SUBSET S : (\A u \in SUBSET t : u # t => u \in Q) => t \in Q
  PROVE  SUBSET S \subseteq Q
<1> SUFFICES ASSUME ~ (SUBSET S \subseteq Q) PROVE FALSE
  OBVIOUS
<1> DEFINE D == {Cardinality(t) : t \in (SUBSET S) \ Q}
<1>1. \A t \in SUBSET S : IsFiniteSet(t) /\ Cardinality(t) \in Nat
  BY FS_Subset, FS_CardinalityType
<1>2. D # {} /\ D \subseteq Nat
  BY <1>1
<1>3. PICK n \in D : \A m \in D : n <= m
  BY <1>2, LeastOf
<1>4. PICK t \in (SUBSET S) \ Q : n = Cardinality(t)
  BY <1>3
<1>5. ASSUME NEW u \in SUBSET t, u # t PROVE u \in Q
  <2>1. Cardinality(u) < Cardinality(t)
    BY <1>1, <1>4, <1>5, FS_Subset
  <2>2. Cardinality(u) \in Nat /\ Cardinality(t) \in Nat /\ u \in SUBSET S
    BY <1>1, <1>4
  <2> QED  BY <1>3, <1>4, <2>1, <2>2
<1> QED  BY <1>4, <1>5

\* The sum is what one such function says.
LEMMA SumIs ==
  ASSUME NEW f, NEW S
  PROVE  SumOver(f, S) = (CHOOSE g : IsSum(g, f, S))[S]
  BY DEF SumOver, FoldFunctionOnSet, MapThenFoldSet, IsSum, OneOf

\* Two such functions agree where both are defined.
LEMMA SumIsUnique ==
  ASSUME NEW f, NEW S, IsFiniteSet(S), NEW T, S \subseteq T,
         NEW g, IsSum(g, f, S), NEW h, IsSum(h, f, T)
  PROVE  g[S] = h[S]
<1> DEFINE Q == {t \in SUBSET S : g[t] = h[t]}
<1>1. ASSUME NEW t \in SUBSET S, \A u \in SUBSET t : u # t => u \in Q PROVE t \in Q
  <2>1. CASE t = {}
    BY <2>1 DEF IsSum
  <2>2. CASE t # {}
    <3>1. OneOf(t) \in t
      BY <2>2 DEF OneOf
    <3>2. g[t] = f[OneOf(t)] + g[t \ {OneOf(t)}]
      BY <2>2 DEF IsSum
    <3>3. h[t] = f[OneOf(t)] + h[t \ {OneOf(t)}]
      BY <2>2 DEF IsSum
    <3>4. t \ {OneOf(t)} \in Q
      BY <1>1, <3>1
    <3> QED  BY <3>2, <3>3, <3>4
  <2> QED  BY <2>1, <2>2
<1> HIDE DEF Q
<1>2. SUBSET S \subseteq Q
  BY <1>1, SubsetInduction
<1> QED  BY <1>2 DEF Q

\* With such a function the sum is as it should be.
LEMMA SumIsAdded ==
  ASSUME NEW f, NEW S, IsFiniteSet(S), NEW T, S \subseteq T, NEW h, IsSum(h, f, T)
  PROVE  SumOver(f, S) = h[S]
<1> DEFINE g == [s \in SUBSET S |-> h[s]]
<1>1. IsSum(g, f, S)
  <2>1. ASSUME NEW s \in SUBSET S, s # {} PROVE h[s] = f[OneOf(s)] + g[s \ {OneOf(s)}]
    <3>1. h[s] = f[OneOf(s)] + h[s \ {OneOf(s)}]
      BY <2>1 DEF IsSum
    <3> QED  BY <3>1
  <2>2. h[{}] = 0
    BY DEF IsSum
  <2>3. g = [s \in SUBSET S |-> IF s = {} THEN 0 ELSE f[OneOf(s)] + g[s \ {OneOf(s)}]]
    BY <2>1, <2>2
  <2> QED  BY <2>3 DEF IsSum
<1> HIDE DEF g
<1>2. IsSum(CHOOSE k : IsSum(k, f, S), f, S)
  BY <1>1
<1>3. (CHOOSE k : IsSum(k, f, S))[S] = h[S]
  BY <1>2, SumIsUnique
<1> QED  BY <1>3, SumIs

\* There is such a function.
LEMMA SumExists ==
  ASSUME NEW f, NEW S, IsFiniteSet(S)
  PROVE  \E g : IsSum(g, f, S)
<1> DEFINE Q == {t \in SUBSET S : \E g : IsSum(g, f, t)}
<1>1. ASSUME NEW t \in SUBSET S, \A u \in SUBSET t : u # t => u \in Q PROVE t \in Q
  <2> DEFINE g == [s \in SUBSET t |-> IF s = {} THEN 0
                                      ELSE f[OneOf(s)] + SumOver(f, s \ {OneOf(s)})]
  <2>1. ASSUME NEW s \in SUBSET t, s # t PROVE SumOver(f, s) = g[s]
    <3>1. PICK h : IsSum(h, f, s)
      BY <1>1, <2>1
    <3>2. IsFiniteSet(s)
      BY FS_Subset
    <3>3. SumOver(f, s) = h[s]
      BY <3>1, <3>2, SumIsAdded
    <3>4. CASE s # {}
      <4>1. h[s] = f[OneOf(s)] + h[s \ {OneOf(s)}]
        BY <3>1, <3>4 DEF IsSum
      <4>2. IsFiniteSet(s \ {OneOf(s)}) /\ s \ {OneOf(s)} \subseteq s
        BY <3>2, FS_Subset
      <4>3. SumOver(f, s \ {OneOf(s)}) = h[s \ {OneOf(s)}]
        BY <3>1, <4>2, SumIsAdded
      <4> QED  BY <3>3, <3>4, <4>1, <4>3
    <3>5. CASE s = {}
      BY <3>1, <3>3, <3>5 DEF IsSum
    <3> QED  BY <3>4, <3>5
  <2>2. ASSUME NEW s \in SUBSET t, s # {}
        PROVE  SumOver(f, s \ {OneOf(s)}) = g[s \ {OneOf(s)}]
    <3>1. OneOf(s) \in s
      BY <2>2 DEF OneOf
    <3>2. s \ {OneOf(s)} \in SUBSET t /\ s \ {OneOf(s)} # t
      BY <3>1
    <3> HIDE DEF g
    <3> QED  BY <2>1, <3>2
  <2>3. g = [s \in SUBSET t |-> IF s = {} THEN 0 ELSE f[OneOf(s)] + g[s \ {OneOf(s)}]]
    BY <2>2
  <2> HIDE DEF g
  <2>4. IsSum(g, f, t)
    BY <2>3 DEF IsSum
  <2> QED  BY <2>4
<1> HIDE DEF Q
<1>2. SUBSET S \subseteq Q
  BY <1>1, SubsetInduction
<1> QED  BY <1>2 DEF Q

\* So the sum is 0 over no element, and otherwise that of one and of the others.
LEMMA SumStep ==
  ASSUME NEW f, NEW S, IsFiniteSet(S)
  PROVE  SumOver(f, S) = IF S = {} THEN 0 ELSE f[OneOf(S)] + SumOver(f, S \ {OneOf(S)})
<1>1. PICK h : IsSum(h, f, S)
  BY SumExists
<1>2. SumOver(f, S) = h[S]
  BY <1>1, SumIsAdded
<1>3. IsFiniteSet(S \ {OneOf(S)}) /\ S \ {OneOf(S)} \subseteq S
  BY FS_Subset
<1>4. SumOver(f, S \ {OneOf(S)}) = h[S \ {OneOf(S)}]
  BY <1>1, <1>3, SumIsAdded
<1>5. h[S] = IF S = {} THEN 0 ELSE f[OneOf(S)] + h[S \ {OneOf(S)}]
  BY <1>1 DEF IsSum
<1> QED  BY <1>2, <1>4, <1>5

\* A sum of numbers is a number, and depends on what is added only.
LEMMA SumOfNumbers ==
  ASSUME NEW S, IsFiniteSet(S), NEW f, \A x \in S : f[x] \in Int
  PROVE  SumOver(f, S) \in Int
<1> DEFINE Q == {t \in SUBSET S : SumOver(f, t) \in Int}
<1>1. ASSUME NEW t \in SUBSET S, \A u \in SUBSET t : u # t => u \in Q PROVE t \in Q
  <2>1. IsFiniteSet(t)
    BY FS_Subset
  <2>2. CASE t # {}
    <3>1. OneOf(t) \in t
      BY <2>2 DEF OneOf
    <3>2. SumOver(f, t \ {OneOf(t)}) \in Int
      BY <1>1, <3>1
    <3> QED  BY <2>1, <2>2, <3>1, <3>2, SumStep
  <2>3. CASE t = {}
    <3>1. SumOver(f, t) = 0
      BY <2>1, <2>3, SumStep
    <3> QED  BY <3>1
  <2> QED  BY <2>2, <2>3
<1> HIDE DEF Q
<1>2. SUBSET S \subseteq Q
  BY <1>1, SubsetInduction
<1> QED  BY <1>2 DEF Q

\* What has the same summands has the same sum.
LEMMA SumAgrees ==
  ASSUME NEW S, IsFiniteSet(S), NEW f, NEW h, \A x \in S : f[x] = h[x]
  PROVE  SumOver(f, S) = SumOver(h, S)
<1> DEFINE Q == {t \in SUBSET S : SumOver(f, t) = SumOver(h, t)}
<1>1. ASSUME NEW t \in SUBSET S, \A u \in SUBSET t : u # t => u \in Q PROVE t \in Q
  <2>1. IsFiniteSet(t)
    BY FS_Subset
  <2>2. CASE t # {}
    <3>1. OneOf(t) \in t
      BY <2>2 DEF OneOf
    <3>2. SumOver(f, t \ {OneOf(t)}) = SumOver(h, t \ {OneOf(t)}) /\ f[OneOf(t)] = h[OneOf(t)]
      BY <1>1, <3>1
    <3>3. SumOver(f, t) = f[OneOf(t)] + SumOver(f, t \ {OneOf(t)})
      BY <2>1, <2>2, SumStep
    <3>4. SumOver(h, t) = h[OneOf(t)] + SumOver(h, t \ {OneOf(t)})
      BY <2>1, <2>2, SumStep
    <3> QED  BY <3>2, <3>3, <3>4
  <2>3. CASE t = {}
    BY <2>1, <2>3, SumStep
  <2> QED  BY <2>2, <2>3
<1> HIDE DEF Q
<1>2. SUBSET S \subseteq Q
  BY <1>1, SubsetInduction
<1> QED  BY <1>2 DEF Q

\* Any of the elements may be added last.
LEMMA SumWith ==
  ASSUME NEW S, IsFiniteSet(S), NEW f, \A x \in S : f[x] \in Int, NEW x \in S
  PROVE  SumOver(f, S) = f[x] + SumOver(f, S \ {x})
<1> DEFINE Q == {t \in SUBSET S : \A y \in t : SumOver(f, t) = f[y] + SumOver(f, t \ {y})}
<1>1. ASSUME NEW t \in SUBSET S, \A u \in SUBSET t : u # t => u \in Q,
             NEW y \in t
      PROVE  SumOver(f, t) = f[y] + SumOver(f, t \ {y})
  <2> DEFINE z == OneOf(t)
  <2>0. z \in t
    BY DEF OneOf
  <2>1. SumOver(f, t) = f[z] + SumOver(f, t \ {z})
    <3>1. IsFiniteSet(t)
      BY FS_Subset
    <3> QED  BY <3>1, SumStep
  <2> HIDE DEF z
  <2>2. CASE y # z
    <3>1. t \ {z} \in Q /\ t \ {y} \in Q
      BY <1>1, <2>0
    <3>2. SumOver(f, t \ {z}) = f[y] + SumOver(f, (t \ {z}) \ {y})
      BY <2>2, <3>1
    <3>3. SumOver(f, t \ {y}) = f[z] + SumOver(f, (t \ {y}) \ {z})
      BY <2>0, <2>2, <3>1
    <3>4. (t \ {z}) \ {y} = (t \ {y}) \ {z}
      OBVIOUS
    <3>5. f[y] \in Int /\ f[z] \in Int /\ SumOver(f, (t \ {z}) \ {y}) \in Int
      <4>1. (t \ {z}) \ {y} \in SUBSET S
        OBVIOUS
      <4>2. IsFiniteSet((t \ {z}) \ {y})
        BY <4>1, FS_Subset
      <4> QED  BY <2>0, <4>1, <4>2, SumOfNumbers
    <3>6. \A p, q, r \in Int : p + (q + r) = q + (p + r)
      OBVIOUS
    <3>7. SumOver(f, t) = f[z] + (f[y] + SumOver(f, (t \ {z}) \ {y}))
      BY <2>1, <3>2
    <3>8. SumOver(f, t \ {y}) = f[z] + SumOver(f, (t \ {z}) \ {y})
      BY <3>3, <3>4
    <3>9. SumOver(f, t) = f[y] + (f[z] + SumOver(f, (t \ {z}) \ {y}))
      BY <3>5, <3>6, <3>7
    <3> QED  BY <3>8, <3>9
  <2> QED  BY <2>1, <2>2
<1>2. \A t \in SUBSET S : (\A u \in SUBSET t : u # t => u \in Q) => t \in Q
  BY <1>1
<1> HIDE DEF Q
<1>3. SUBSET S \subseteq Q
  BY <1>2, SubsetInduction
<1> QED  BY <1>3 DEF Q

\* Numbers up to k add up to k each at most.
LEMMA SumBound ==
  ASSUME NEW S, IsFiniteSet(S), NEW f, NEW k \in Nat, \A x \in S : f[x] \in 0 .. k
  PROVE  SumOver(f, S) \in Nat /\ SumOver(f, S) <= Cardinality(S) * k
<1> DEFINE Q == {t \in SUBSET S : SumOver(f, t) \in Nat /\ SumOver(f, t) <= Cardinality(t) * k}
<1>1. ASSUME NEW t \in SUBSET S, \A u \in SUBSET t : u # t => u \in Q PROVE t \in Q
  <2>1. IsFiniteSet(t)
    BY FS_Subset
  <2>2. CASE t # {}
    <3> DEFINE z == OneOf(t)
    <3>1. z \in t
      BY <2>2 DEF OneOf
    <3>2. t \ {z} \in Q
      BY <1>1, <3>1
    <3>3. SumOver(f, t) = f[z] + SumOver(f, t \ {z})
      BY <2>1, <2>2, SumStep
    <3>4. IsFiniteSet(t \ {z}) /\ Cardinality(t \ {z}) = Cardinality(t) - 1
      BY <2>1, <3>1, FS_RemoveElement
    <3>5. Cardinality(t) \in Nat /\ Cardinality(t \ {z}) \in Nat
      BY <2>1, <3>4, FS_CardinalityType
    <3>6. f[z] \in 0 .. k
      BY <3>1
    <3> HIDE DEF z
    <3>7. \A n \in Nat : (n - 1) * k + k = n * k
      OBVIOUS
    <3>8. SumOver(f, t \ {z}) \in Nat /\ SumOver(f, t \ {z}) <= (Cardinality(t) - 1) * k
      BY <3>2, <3>4
    <3>9. \A m, n \in Nat, a \in 0 .. k : m <= (n - 1) * k => a + m \in Nat /\ a + m <= n * k
      BY <3>7, Z3
    <3>10. SumOver(f, t) \in Nat /\ SumOver(f, t) <= Cardinality(t) * k
      BY <3>3, <3>5, <3>6, <3>8, <3>9
    <3> QED  BY <3>10
  <2>3. CASE t = {}
    <3>1. SumOver(f, t) = 0 /\ Cardinality(t) = 0
      BY <2>1, <2>3, SumStep, FS_EmptySet
    <3> QED  BY <3>1
  <2> QED  BY <2>2, <2>3
<1> HIDE DEF Q
<1>2. SUBSET S \subseteq Q
  BY <1>1, SubsetInduction
<1> QED  BY <1>2 DEF Q

UdpLabels == {"claim", "load", "claimed", "recv", "test", "count", "move", "sum", "store", "done"}

\* The parts of the file that n threads claim.
Shares(n) == n * block_size

\* The threads that know what is theirs, and those that have added what they have received.
Claimed  == {t \in Receiver : udPc[t] \notin {"claim", "load", "claimed"}}
Finished == {t \in Receiver : udPc[t] = "done"}

UdpTypes ==
  /\ locks \in BOOLEAN /\ overlapped \in BOOLEAN
  /\ file_pos \in Nat /\ total_bytes \in 0 .. MaxUnsigned /\ bytes_read \in Result
  /\ udPc \in [Receiver -> UdpLabels]
  /\ start_pos \in [Receiver -> 0 .. MaxUnsigned] /\ end_pos \in [Receiver -> Nat]
  /\ local_bytes \in [Receiver -> 0 .. MaxUnsigned]
  /\ udReg \in [Receiver -> Int] /\ received \in [Receiver -> Nat] /\ calls \in Nat
  /\ locks => \A t \in Receiver : udPc[t] \notin {"load", "claimed", "store"}

\* Each claim moves file_pos by a part at most, and with the lock by a part exactly.
PositionsInv ==
  /\ file_pos <= Shares(Cardinality(Claimed))
  /\ \A t \in Receiver :
       /\ udPc[t] = "claimed" => udReg[t] \in 0 .. Shares(Cardinality(Claimed))
       /\ udPc[t] \in {"load", "claimed"} => start_pos[t] <= Shares(Cardinality(Claimed))
       /\ t \in Claimed => end_pos[t] \in block_size .. FILE_SIZE
  /\ locks => /\ file_pos = Shares(Cardinality(Claimed))
              /\ {end_pos[t] : t \in Claimed} = {Shares(k) : k \in 1 .. Cardinality(Claimed)}

\* As long as no call came between another and its uses, one thread at most uses what
\* recvfrom() returned, and finds what it has loaded.
AloneInv ==
  ~overlapped =>
    /\ \A t, u \in Using : t = u
    /\ \A t \in Using : bytes_read = udReg[t]

\* What t has received and counted, and where it stands, from label to label.
Begin(t) == end_pos[t] - block_size
Accounted(t) ==
  CASE udPc[t] \in {"claim", "load", "claimed"} -> local_bytes[t] = 0 /\ received[t] = 0
    [] udPc[t] \in {"recv", "sum", "store", "done"} ->
         /\ local_bytes[t] = received[t] /\ received[t] <= block_size + BUFFER_SIZE
         /\ start_pos[t] = Begin(t) + received[t]
    [] udPc[t] = "test" ->
         /\ udReg[t] \in Result /\ received[t] = local_bytes[t] + Max({0, udReg[t]})
         /\ start_pos[t] = Begin(t) + local_bytes[t] /\ local_bytes[t] < block_size
    [] udPc[t] = "count" ->
         /\ udReg[t] \in 1 .. BUFFER_SIZE /\ received[t] = local_bytes[t] + udReg[t]
         /\ start_pos[t] = Begin(t) + local_bytes[t] /\ local_bytes[t] < block_size
    [] udPc[t] = "move" ->
         /\ udReg[t] \in 1 .. BUFFER_SIZE /\ received[t] = local_bytes[t]
         /\ start_pos[t] = Begin(t) + local_bytes[t] - udReg[t]
         /\ local_bytes[t] - udReg[t] < block_size
AccountsInv == ~overlapped => \A t \in Receiver : Accounted(t)

\* What is added up so far is what some of the threads that are done have received, or
\* with the lock all of them.
SummedInv ==
  ~overlapped =>
    /\ locks => total_bytes = SumOver(received, Finished)
    /\ \E S \in SUBSET Finished :
         total_bytes = SumOver(received, S) /\ (Finished # {} => S # {})
    /\ \A t \in Receiver : udPc[t] = "store" =>
         \E S \in SUBSET Finished : udReg[t] = SumOver(received, S)

UdpIInv == UdpTypes /\ PositionsInv /\ AloneInv /\ AccountsInv /\ SummedInv
-----------------------------------------------------------------------------
\* The parts of all threads are within the file.
LEMMA SharesAre ==
  /\ block_size \in Nat /\ Shares(0) = 0
  /\ \A n \in Nat : /\ Shares(n) \in Nat /\ Shares(n + 1) = Shares(n) + block_size
                    /\ \A m \in Nat : m <= n => Shares(m) <= Shares(n)
                    /\ n <= Cardinality(Receiver) => Shares(n) <= FILE_SIZE
<1> DEFINE N == Cardinality(Receiver)
<1>1. N \in Nat /\ N # 0
  BY UdpAssumption, FS_CardinalityType, FS_EmptySet
<1>2. FILE_SIZE \in Nat
  BY UdpAssumption
<1>3. block_size = FILE_SIZE \div N
  BY DEF block_size
<1> HIDE DEF N
<1>4. block_size \in Nat /\ N * block_size <= FILE_SIZE
  BY <1>1, <1>2, <1>3, Z3
<1>5. \A n \in Nat : Shares(n) \in Nat /\ Shares(n + 1) = Shares(n) + block_size
  BY <1>4, Z3 DEF Shares
<1>6. \A m, n \in Nat : m <= n => Shares(m) <= Shares(n)
  <2>1. \A m, k, b \in Nat : m * b <= (m + k) * b
    BY Z3
  <2>2. \A m, n \in Nat : m <= n => n - m \in Nat /\ n = m + (n - m)
    OBVIOUS
  <2> QED  BY <1>4, <2>1, <2>2 DEF Shares
<1>7. Shares(0) = 0
  BY <1>4 DEF Shares
<1>8. \A n \in Nat : n <= N => Shares(n) <= FILE_SIZE
  <2>1. Shares(N) <= FILE_SIZE
    BY <1>4 DEF Shares
  <2> QED  BY <1>1, <1>2, <1>5, <1>6, <2>1
<1> QED  BY <1>4, <1>5, <1>6, <1>7, <1>8 DEF N

\* One part and the buffers of all threads are less than the greatest number.
LEMMA SizesAre ==
  /\ {BUFFER_SIZE, FILE_SIZE, MaxUnsigned, MaxCalls} \subseteq Nat /\ BUFFER_SIZE >= 1
  /\ FILE_SIZE + BUFFER_SIZE <= MaxUnsigned
  /\ \A n \in 0 .. Cardinality(Receiver) : n * (block_size + BUFFER_SIZE) <= MaxUnsigned
  /\ block_size <= FILE_SIZE
<1> DEFINE N == Cardinality(Receiver)
<1>1. N \in Nat /\ N # 0
  BY UdpAssumption, FS_CardinalityType, FS_EmptySet
<1>2. /\ FILE_SIZE \in Nat /\ BUFFER_SIZE \in Nat /\ BUFFER_SIZE >= 1 /\ MaxUnsigned \in Nat
      /\ MaxCalls \in Nat /\ MaxUnsigned > FILE_SIZE + BUFFER_SIZE * N
  BY UdpAssumption
<1>3. block_size \in Nat /\ Shares(N) <= FILE_SIZE /\ Shares(0 + 1) = block_size
  BY <1>1, SharesAre
<1>4. block_size <= FILE_SIZE
  <2>1. Shares(1) <= FILE_SIZE
    BY <1>1, SharesAre
  <2> QED  BY <1>3, <2>1
<1>5. N * block_size <= FILE_SIZE
  BY <1>3 DEF Shares
<1> HIDE DEF N
<1>6. BUFFER_SIZE <= BUFFER_SIZE * N
  BY <1>1, <1>2, Z3
<1>7. \A n \in 0 .. N : n * block_size <= N * block_size /\ n * BUFFER_SIZE <= BUFFER_SIZE * N
  <2>1. \A m, k, b \in Nat : m * b <= (m + k) * b
    BY Z3
  <2>2. \A n \in 0 .. N : N - n \in Nat /\ N = n + (N - n)
    BY <1>1
  <2>3. BUFFER_SIZE * N = N * BUFFER_SIZE
    BY <1>1, <1>2, Z3
  <2> QED  BY <1>2, <1>3, <2>1, <2>2, <2>3
<1>8. \A n \in 0 .. N : n * (block_size + BUFFER_SIZE) = n * block_size + n * BUFFER_SIZE
  BY <1>1, <1>2, <1>3, Z3
<1>9. \A n \in 0 .. N : n * block_size \in Nat /\ n * BUFFER_SIZE \in Nat
  BY <1>1, <1>2, <1>3
<1>10. BUFFER_SIZE * N \in Nat /\ N * block_size \in Nat
  BY <1>1, <1>2, <1>3
<1>11. ASSUME NEW n \in 0 .. N PROVE n * (block_size + BUFFER_SIZE) <= MaxUnsigned
  <2>1. n * block_size <= FILE_SIZE
    BY <1>2, <1>5, <1>7, <1>9, <1>10
  <2>2. n * BUFFER_SIZE <= BUFFER_SIZE * N
    BY <1>7
  <2>3. n * (block_size + BUFFER_SIZE) = n * block_size + n * BUFFER_SIZE
    BY <1>8
  <2> QED  BY <1>2, <1>9, <1>10, <2>1, <2>2, <2>3
<1> QED  BY <1>2, <1>4, <1>6, <1>10, <1>11 DEF N

\* Numbers that are small enough do not wrap round.
LEMMA UnsignedIs ==
  ASSUME NEW x \in Int
  PROVE  Unsigned(x) \in 0 .. MaxUnsigned /\ (x \in 0 .. MaxUnsigned => Unsigned(x) = x)
  BY SizesAre, Z3 DEF Unsigned

\* The greater of 0 and a number.
LEMMA MaxIs ==
  ASSUME NEW x \in Int
  PROVE  Max({0, x}) = IF x > 0 THEN x ELSE 0
<1> DEFINE m == IF x > 0 THEN x ELSE 0
<1>1. m \in {0, x} /\ \A y \in {0, x} : m >= y
  OBVIOUS
<1>2. \A n \in {0, x} : (\A y \in {0, x} : n >= y) => n = m
  OBVIOUS
<1> HIDE DEF m
<1>3. (CHOOSE n \in {0, x} : \A y \in {0, x} : n >= y) = m
  BY <1>1, <1>2
<1> QED  BY <1>3 DEF Max, m

\* How many have claimed a part.
LEMMA ClaimedIsFinite ==
  /\ IsFiniteSet(Claimed) /\ Cardinality(Claimed) \in 0 .. Cardinality(Receiver)
  /\ Claimed # Receiver => Cardinality(Claimed) + 1 <= Cardinality(Receiver)
<1>1. Claimed \subseteq Receiver /\ IsFiniteSet(Receiver)
  BY UdpAssumption DEF Claimed
<1>2. /\ IsFiniteSet(Claimed) /\ Cardinality(Claimed) <= Cardinality(Receiver)
      /\ Cardinality(Claimed) = Cardinality(Receiver) => Claimed = Receiver
  BY <1>1, FS_Subset
<1>3. Cardinality(Claimed) \in Nat /\ Cardinality(Receiver) \in Nat
  BY <1>1, <1>2, FS_CardinalityType
<1> QED  BY <1>2, <1>3

\* The sum over some threads that are done does not change with what others receive.
LEMMA SumIsKept ==
  ASSUME NEW t \in Receiver, NEW f, NEW h, \A u \in Receiver \ {t} : f[u] = h[u],
         NEW S \in SUBSET Receiver, t \notin S
  PROVE  SumOver(f, S) = SumOver(h, S)
<1>1. IsFiniteSet(S)
  BY UdpAssumption, FS_Subset
<1> QED  BY <1>1, SumAgrees

\* What a thread does before it adds its bytes disturbs no sum.
LEMMA SummedIsKept ==
  ASSUME UdpTypes, SummedInv, NEW t \in Receiver, udPc[t] # "done", NEW place,
         place \notin {"done", "store"}, UdpGo(t, place),
         \A u \in Receiver \ {t} : udReg'[u] = udReg[u] /\ received'[u] = received[u],
         total_bytes' = total_bytes, locks' = locks, ~overlapped' => ~overlapped
  PROVE  SummedInv'
<1> SUFFICES ASSUME ~overlapped' PROVE
      /\ locks' => total_bytes' = SumOver(received', Finished')
      /\ \E S \in SUBSET Finished' :
           total_bytes' = SumOver(received', S) /\ (Finished' # {} => S # {})
      /\ \A u \in Receiver : udPc'[u] = "store" =>
           \E S \in SUBSET Finished' : udReg'[u] = SumOver(received', S)
  BY DEF SummedInv
<1>1. Finished' = Finished /\ t \notin Finished /\ Finished \subseteq Receiver
  BY DEF Finished, UdpTypes, UdpGo
<1>2. \A S \in SUBSET Finished : SumOver(received', S) = SumOver(received, S)
  BY <1>1, SumIsKept
<1>3. \A u \in Receiver : udPc'[u] = "store" =>
        u # t /\ udPc[u] = "store" /\ udReg'[u] = udReg[u]
  BY DEF UdpTypes, UdpGo
<1> QED  BY <1>1, <1>2, <1>3 DEF SummedInv

\* Nor does what t does disturb the accounts of others.
LEMMA AccountsAreKept ==
  ASSUME AccountsInv, NEW t \in Receiver,
         \A u \in Receiver \ {t} :
           /\ udPc'[u] = udPc[u] /\ local_bytes'[u] = local_bytes[u] /\ received'[u] = received[u]
           /\ udReg'[u] = udReg[u] /\ start_pos'[u] = start_pos[u] /\ end_pos'[u] = end_pos[u],
         ~overlapped' => ~overlapped /\ Accounted(t)'
  PROVE  AccountsInv'
<1>1. ASSUME ~overlapped', NEW u \in Receiver \ {t} PROVE Accounted(u)'
  <2>1. Accounted(u)
    BY <1>1 DEF AccountsInv
  <2> QED  BY <2>1 DEF Accounted, Begin
<1> QED  BY <1>1 DEF AccountsInv

\* Once claimed, the parts stay as they are.
LEMMA PositionsAreKept ==
  ASSUME UdpTypes, PositionsInv, NEW t \in Claimed, NEW place \in UdpLabels,
         place \notin {"claim", "load", "claimed"}, UdpGo(t, place),
         \A u \in Receiver \ {t} : udReg'[u] = udReg[u] /\ start_pos'[u] = start_pos[u],
         file_pos' = file_pos, end_pos' = end_pos, locks' = locks
  PROVE  PositionsInv'
<1>1. Claimed' = Claimed
  BY DEF Claimed, UdpTypes, UdpGo
<1>2. \A u \in Receiver : udPc'[u] \in {"load", "claimed"} => u # t /\ udPc'[u] = udPc[u]
  BY DEF UdpTypes, UdpGo
<1> QED  BY <1>1, <1>2 DEF PositionsInv

\* Who does not begin to use bytes_read leaves those alone who do.
LEMMA AloneIsKept ==
  ASSUME AloneInv, Using' \subseteq Using, bytes_read' = bytes_read,
         \A u \in Using' : udReg'[u] = udReg[u], ~overlapped' => ~overlapped
  PROVE  AloneInv'
  BY DEF AloneInv

\* At first nothing is claimed.
LEMMA UdpInitInv == UdpInit => UdpIInv
<1> SUFFICES ASSUME UdpInit PROVE UdpIInv
  OBVIOUS
<1> USE DEF UdpInit
<1>1. UdpTypes
  <2>1. MaxUnsigned \in Nat /\ BUFFER_SIZE \in Nat
    BY SizesAre
  <2>2. start_pos \in [Receiver -> 0 .. MaxUnsigned] /\ start_pos \in [Receiver -> Nat]
    BY <2>1
  <2>3. bytes_read \in Result /\ total_bytes \in 0 .. MaxUnsigned
    BY <2>1 DEF Result
  <2>4. start_pos \in [Receiver -> Int]
    BY <2>2
  <2>5. udPc \in [Receiver -> UdpLabels] /\ \A t \in Receiver : udPc[t] = "claim"
    BY DEF UdpLabels
  <2> QED  BY <2>2, <2>3, <2>4, <2>5 DEF UdpTypes
<1>2. Claimed = {} /\ Finished = {} /\ Using = {}
  BY DEF Claimed, Finished, Using
<1>3. Cardinality(Claimed) = 0 /\ Shares(0) = 0
  BY <1>2, FS_EmptySet, SharesAre
<1>4. PositionsInv
  <2>1. {Shares(k) : k \in 1 .. 0} = {}
    OBVIOUS
  <2>2. {end_pos[t] : t \in Claimed} = {}
    BY <1>2
  <2> QED  BY <1>2, <1>3, <2>1, <2>2 DEF PositionsInv
<1>5. AloneInv
  BY <1>2 DEF AloneInv
<1>6. AccountsInv
  BY DEF AccountsInv, Accounted
<1>7. SummedInv
  <2>1. SumOver(received, {}) = 0
    BY SumStep, FS_EmptySet
  <2> QED  BY <1>2, <2>1 DEF SummedInv
<1> QED  BY <1>1, <1>4, <1>5, <1>6, <1>7 DEF UdpIInv

\* The numbers up to the next one.
LEMMA OneMoreNumber ==
  ASSUME NEW n \in Nat
  PROVE  1 .. n + 1 = (1 .. n) \cup {n + 1}
<1>1. \A k : k \in 1 .. n + 1 <=> k \in (1 .. n) \cup {n + 1}
  OBVIOUS
<1> QED  BY <1>1

\* One more has claimed.
LEMMA OneMoreClaims ==
  ASSUME UdpTypes, NEW t \in Receiver, t \notin Claimed, UdpGo(t, "recv")
  PROVE  /\ Claimed' = Claimed \cup {t}
         /\ Cardinality(Claimed') = Cardinality(Claimed) + 1
         /\ Shares(Cardinality(Claimed')) = Shares(Cardinality(Claimed)) + block_size
         /\ {Shares(Cardinality(Claimed)), Shares(Cardinality(Claimed)) + block_size}
               \subseteq 0 .. FILE_SIZE
<1>1. Claimed' = Claimed \cup {t}
  BY DEF UdpTypes, UdpGo, Claimed
<1>2. Cardinality(Claimed') = Cardinality(Claimed) + 1
  BY <1>1, ClaimedIsFinite, FS_AddElement
<1>3. Cardinality(Claimed) \in Nat /\ Cardinality(Claimed) + 1 <= Cardinality(Receiver)
  BY ClaimedIsFinite
<1>4. /\ Shares(Cardinality(Claimed) + 1) = Shares(Cardinality(Claimed)) + block_size
      /\ Shares(Cardinality(Claimed) + 1) <= FILE_SIZE /\ Shares(Cardinality(Claimed)) \in Nat
      /\ Shares(Cardinality(Claimed)) <= FILE_SIZE /\ block_size \in Nat
  <2>1. Cardinality(Receiver) \in Nat
    BY UdpAssumption, FS_CardinalityType
  <2>2. Cardinality(Claimed) + 1 \in Nat /\ Cardinality(Claimed) <= Cardinality(Receiver)
    BY <1>3, <2>1
  <2> QED  BY <1>3, <2>2, SharesAre
<1> QED  BY <1>1, <1>2, <1>4, SizesAre

\* With the lock a thread claims the next part.
LEMMA ClaimInv ==
  ASSUME UdpIInv, NEW t \in Receiver, Claim(t)
  PROVE  UdpIInv'
<1> USE DEF UdpIInv, Claim
<1> DEFINE n == Cardinality(Claimed)
<1>0. t \notin Claimed
  BY DEF Claimed
<1>1. /\ Claimed' = Claimed \cup {t} /\ Cardinality(Claimed') = n + 1
      /\ Shares(n + 1) = Shares(n) + block_size /\ n \in Nat /\ block_size \in Nat
      /\ {Shares(n), Shares(n) + block_size} \subseteq 0 .. FILE_SIZE
  BY <1>0, OneMoreClaims, ClaimedIsFinite, SharesAre
<1>2. file_pos = Shares(n)
  BY DEF PositionsInv
<1> HIDE DEF n
<1>3. UdpTypes'
  <2>1. file_pos \in 0 .. MaxUnsigned
    BY <1>1, <1>2, SizesAre
  <2> QED  BY <1>1, <2>1 DEF UdpTypes, UdpGo, UdpLabels
<1>4. PositionsInv'
  <2>1. file_pos' = Shares(Cardinality(Claimed'))
    BY <1>1, <1>2
  <2>2. {end_pos'[u] : u \in Claimed'} = {end_pos[u] : u \in Claimed} \cup {Shares(n + 1)}
    <3>1. end_pos'[t] = Shares(n + 1)
      BY <1>1, <1>2 DEF UdpTypes
    <3>2. \A u \in Claimed : end_pos'[u] = end_pos[u]
      BY <1>0 DEF UdpTypes, Claimed
    <3> QED  BY <1>1, <3>1, <3>2
  <2>3. {Shares(k) : k \in 1 .. n + 1} = {Shares(k) : k \in 1 .. n} \cup {Shares(n + 1)}
    <3>1. 1 .. n + 1 = (1 .. n) \cup {n + 1}
      BY <1>1, OneMoreNumber
    <3> QED  BY <3>1
  <2>4. {end_pos[u] : u \in Claimed} = {Shares(k) : k \in 1 .. n}
    BY DEF PositionsInv, n
  <2>5. \A u \in Receiver : udPc'[u] \notin {"load", "claimed"}
    BY <1>3 DEF UdpTypes
  <2>6. \A u \in Claimed' : end_pos'[u] \in block_size .. FILE_SIZE
    <3>1. end_pos'[t] = Shares(n) + block_size
      BY <1>2 DEF UdpTypes
    <3>2. \A u \in Claimed : end_pos'[u] = end_pos[u]
      BY <1>0 DEF UdpTypes, Claimed
    <3>3. \A u \in Claimed : u \in Receiver
      BY DEF Claimed
    <3>4. Shares(n) + block_size \in block_size .. FILE_SIZE
      BY <1>1, SizesAre
    <3> QED  BY <1>1, <3>1, <3>2, <3>3, <3>4 DEF PositionsInv
  <2>7. file_pos' <= Shares(Cardinality(Claimed'))
    BY <1>1, <2>1
  <2> QED  BY <1>1, <2>1, <2>2, <2>3, <2>4, <2>5, <2>6, <2>7 DEF PositionsInv
<1>5. AloneInv'
  <2>1. Using' \subseteq Using
    BY DEF UdpTypes, UdpGo, Using
  <2> QED  BY <2>1, AloneIsKept
<1>6. AccountsInv'
  <2>1. \A u \in Receiver \ {t} : /\ udPc'[u] = udPc[u] /\ start_pos'[u] = start_pos[u]
                                  /\ end_pos'[u] = end_pos[u]
    BY DEF UdpTypes, UdpGo
  <2>2. ASSUME ~overlapped PROVE Accounted(t)'
    <3>1. local_bytes[t] = 0 /\ received[t] = 0
      BY <2>2 DEF AccountsInv, Accounted
    <3>2. udPc'[t] = "recv" /\ end_pos'[t] = file_pos + block_size /\ start_pos'[t] = file_pos
      BY DEF UdpTypes, UdpGo
    <3>3. file_pos \in Nat
      BY DEF UdpTypes
    <3>4. start_pos'[t] = Begin(t)' + 0
      BY <1>1, <3>2, <3>3 DEF Begin
    <3>5. 0 <= block_size + BUFFER_SIZE
      BY <1>1, SizesAre
    <3> QED  BY <3>1, <3>2, <3>4, <3>5 DEF Accounted
  <2> QED  BY <2>1, <2>2, AccountsAreKept
<1>7. SummedInv'
  BY SummedIsKept
<1> QED  BY <1>3, <1>4, <1>5, <1>6, <1>7

\* Without the lock it loads file_pos twice, and may store one that others have claimed.
LEMMA ClaimUnlockedInv ==
  ASSUME UdpIInv, NEW t \in Receiver, ClaimUnlocked(t)
  PROVE  UdpIInv'
<1> USE DEF UdpIInv, ClaimUnlocked
<1> DEFINE n == Cardinality(Claimed)
<1>0. n \in Nat /\ block_size \in Nat
  BY ClaimedIsFinite, SharesAre
<1>1. Using' \subseteq Using /\ \A u \in Using' : udReg'[u] = udReg[u]
  BY DEF UdpTypes, UdpGo, Using
<1>2. AloneInv'
  BY <1>1, AloneIsKept
<1>3. udPc[t] \in {"claim", "load", "claimed"} /\ ~locks /\ ~locks'
  OBVIOUS
<1>4. SummedInv'
  <2>1. PICK place \in {"load", "claimed", "recv"} : UdpGo(t, place)
    OBVIOUS
  <2>2. \A u \in Receiver \ {t} : udReg'[u] = udReg[u] /\ received'[u] = received[u]
    BY DEF UdpTypes
  <2> QED  BY <1>3, <2>1, <2>2, SummedIsKept
<1>5. \A u \in Receiver \ {t} : /\ udPc'[u] = udPc[u] /\ start_pos'[u] = start_pos[u]
                                /\ end_pos'[u] = end_pos[u] /\ udReg'[u] = udReg[u]
  BY DEF UdpTypes, UdpGo
<1>6. ~overlapped => local_bytes[t] = 0 /\ received[t] = 0
  BY <1>3 DEF AccountsInv, Accounted
<1>7. n <= Cardinality(Receiver) /\ Shares(n) \in 0 .. FILE_SIZE
  BY ClaimedIsFinite, SharesAre, SizesAre
<1>8. t \notin Claimed
  BY <1>3 DEF Claimed
<1> HIDE DEF n
<1>9. file_pos \in Nat /\ file_pos <= Shares(n)
  BY DEF UdpTypes, PositionsInv, n
<1>10. CASE udPc[t] = "claim"
  <2>1. Claimed' = Claimed
    BY <1>8, <1>10 DEF UdpTypes, UdpGo, Claimed
  <2>2. file_pos \in 0 .. MaxUnsigned
    BY <1>7, <1>9, SizesAre
  <2>3. UdpTypes'
    BY <1>10, <2>2 DEF UdpTypes, UdpGo, UdpLabels
  <2>4. PositionsInv'
    <3>1. start_pos'[t] = file_pos /\ udPc'[t] = "load"
      BY <1>10 DEF UdpTypes, UdpGo
    <3> QED  BY <1>3, <1>5, <1>9, <1>10, <2>1, <3>1 DEF PositionsInv, n
  <2>5. AccountsInv'
    <3>1. ~overlapped => Accounted(t)'
      BY <1>6, <1>10 DEF Accounted, UdpTypes, UdpGo
    <3> QED  BY <1>5, <3>1, AccountsAreKept
  <2> QED  BY <1>2, <1>4, <2>3, <2>4, <2>5
<1>11. CASE udPc[t] = "load"
  <2>1. Claimed' = Claimed
    BY <1>8, <1>11 DEF UdpTypes, UdpGo, Claimed
  <2>2. UdpTypes'
    BY <1>9, <1>11 DEF UdpTypes, UdpGo, UdpLabels
  <2>3. PositionsInv'
    <3>1. udReg'[t] = file_pos /\ udPc'[t] = "claimed" /\ start_pos'[t] = start_pos[t]
      BY <1>11 DEF UdpTypes, UdpGo
    <3>2. file_pos \in 0 .. Shares(n)
      BY <1>7, <1>9
    <3> QED  BY <1>3, <1>5, <1>9, <1>11, <2>1, <3>1, <3>2 DEF PositionsInv, n
  <2>4. AccountsInv'
    <3>1. ~overlapped => Accounted(t)'
      BY <1>6, <1>11 DEF Accounted, UdpTypes, UdpGo
    <3> QED  BY <1>5, <3>1, AccountsAreKept
  <2> QED  BY <1>2, <1>4, <2>2, <2>3, <2>4
<1>12. CASE udPc[t] = "claimed"
  <2>0. UdpGo(t, "recv")
    BY <1>12
  <2>1. /\ Claimed' = Claimed \cup {t} /\ Cardinality(Claimed') = n + 1
        /\ Shares(Cardinality(Claimed')) = Shares(n) + block_size
        /\ Shares(n) + block_size \in 0 .. FILE_SIZE
    BY <1>8, <2>0, OneMoreClaims DEF n
  <2>2. udReg[t] \in 0 .. Shares(n) /\ start_pos[t] \in 0 .. Shares(n)
    BY <1>12 DEF PositionsInv, UdpTypes, n
  <2>3. file_pos' = udReg[t] + block_size /\ end_pos'[t] = start_pos[t] + block_size
    BY <1>12 DEF UdpTypes
  <2>4. UdpTypes'
    <3>1. file_pos' \in Nat /\ start_pos[t] + block_size \in Nat
      BY <1>0, <2>2, <2>3
    <3> QED  BY <1>12, <3>1 DEF UdpTypes, UdpGo, UdpLabels
  <2>5. PositionsInv'
    <3> DEFINE k == Cardinality(Claimed')
    <3>1. Shares(n) <= Shares(k) /\ Shares(n) \in Nat /\ Shares(k) \in Nat
      BY <1>0, <1>7, <2>1
    <3>2. file_pos' <= Shares(k)
      BY <1>0, <1>7, <2>1, <2>2, <2>3
    <3>3. end_pos'[t] \in block_size .. FILE_SIZE
      BY <1>0, <1>7, <2>1, <2>2, <2>3, SizesAre
    <3>4. \A u \in Receiver : udPc'[u] \in {"load", "claimed"} => u # t
      BY <2>0 DEF UdpTypes, UdpGo
    <3>5. ASSUME NEW u \in Receiver
          PROVE  /\ udPc'[u] = "claimed" => udReg'[u] \in 0 .. Shares(k)
                 /\ udPc'[u] \in {"load", "claimed"} => start_pos'[u] <= Shares(k)
      <4>1. udPc[u] = "claimed" => udReg[u] \in 0 .. Shares(n)
        BY DEF PositionsInv, n
      <4>2. udPc[u] \in {"load", "claimed"} => start_pos[u] <= Shares(n)
        BY DEF PositionsInv, n
      <4>3. start_pos[u] \in Nat
        BY DEF UdpTypes
      <4> HIDE DEF k
      <4> QED  BY <1>5, <3>1, <3>4, <4>1, <4>2, <4>3
    <3>6. \A u \in Claimed' : end_pos'[u] \in block_size .. FILE_SIZE
      <4>1. \A u \in Claimed : u \in Receiver \ {t} /\ end_pos[u] \in block_size .. FILE_SIZE
        BY <1>8 DEF Claimed, PositionsInv
      <4> QED  BY <1>5, <2>1, <3>3, <4>1
    <3> QED  BY <1>3, <3>2, <3>5, <3>6 DEF PositionsInv
  <2>6. AccountsInv'
    <3>1. ASSUME ~overlapped PROVE Accounted(t)'
      <4>1. start_pos'[t] = start_pos[t] /\ udPc'[t] = "recv" /\ start_pos[t] \in Nat
        BY <1>12 DEF UdpTypes, UdpGo
      <4>2. start_pos'[t] = Begin(t)' + 0
        BY <1>0, <2>3, <4>1 DEF Begin
      <4>3. 0 <= block_size + BUFFER_SIZE
        BY <1>0, SizesAre
      <4> QED  BY <1>6, <3>1, <4>1, <4>2, <4>3 DEF Accounted
    <3> QED  BY <1>5, <3>1, AccountsAreKept
  <2> QED  BY <1>2, <1>4, <2>4, <2>5, <2>6
<1> QED  BY <1>3, <1>10, <1>11, <1>12

\* It receives: whoever uses bytes_read meanwhile is overlapped.
LEMMA ReceiveInv ==
  ASSUME UdpIInv, NEW t \in Receiver, Receive(t)
  PROVE  UdpIInv'
<1> USE DEF UdpIInv, Receive
<1> DEFINE more == Max({0, bytes_read'})
<1>0. /\ bytes_read' \in Result /\ bytes_read' \in Int
      /\ more \in 0 .. BUFFER_SIZE /\ block_size \in Nat
  <2>1. BUFFER_SIZE \in Nat /\ block_size \in Nat
    BY SizesAre, SharesAre
  <2>2. bytes_read' \in Result /\ bytes_read' \in Int
    BY <2>1 DEF Result
  <2>3. more = IF bytes_read' > 0 THEN bytes_read' ELSE 0
    BY <2>2, MaxIs
  <2> QED  BY <2>1, <2>2, <2>3 DEF Result
<1> HIDE DEF more
<1>1. UdpTypes'
  <2>1. received' = [received EXCEPT ![t] = @ + more]
    BY DEF more
  <2>2. received' \in [Receiver -> Nat] /\ udReg' \in [Receiver -> Int]
    BY <1>0, <2>1 DEF UdpTypes
  <2>3. calls' \in Nat
    BY DEF UdpTypes
  <2>4. overlapped' \in BOOLEAN
    OBVIOUS
  <2> QED  BY <1>0, <2>2, <2>3, <2>4 DEF UdpTypes, UdpGo, UdpLabels
<1>2. PositionsInv'
  <2>1. t \in Claimed /\ \A u \in Receiver \ {t} : udReg'[u] = udReg[u]
    BY DEF Claimed, UdpTypes
  <2> QED  BY <2>1, PositionsAreKept DEF UdpLabels
<1>3. AloneInv'
  <2>1. ASSUME ~overlapped' PROVE Using' = {t} /\ udReg'[t] = bytes_read'
    BY <2>1 DEF Using, UdpTypes, UdpGo
  <2> QED  BY <2>1 DEF AloneInv
<1>4. AccountsInv'
  <2>1. ASSUME ~overlapped' PROVE Accounted(t)'
    <3>1. /\ local_bytes[t] = received[t] /\ start_pos[t] = Begin(t) + received[t]
          /\ start_pos[t] < end_pos[t]
      BY <2>1 DEF AccountsInv, Accounted
    <3>2. received[t] \in Nat /\ end_pos[t] \in Nat /\ start_pos[t] \in Nat
      BY DEF UdpTypes
    <3>3. received[t] < block_size
      BY <1>0, <3>1, <3>2 DEF Begin
    <3>4. /\ udReg'[t] = bytes_read' /\ received'[t] = received[t] + more /\ udPc'[t] = "test"
      BY DEF UdpTypes, UdpGo, more
    <3>5. Begin(t)' = Begin(t)
      BY DEF Begin
    <3> QED  BY <1>0, <3>1, <3>3, <3>4, <3>5 DEF Accounted, more
  <2>2. \A u \in Receiver \ {t} : /\ udPc'[u] = udPc[u] /\ udReg'[u] = udReg[u]
                                  /\ received'[u] = received[u]
    BY DEF UdpTypes, UdpGo
  <2>3. ~overlapped' => ~overlapped
    OBVIOUS
  <2> QED  BY <2>1, <2>2, <2>3, AccountsAreKept
<1>5. SummedInv'
  <2>1. \A u \in Receiver \ {t} : udReg'[u] = udReg[u] /\ received'[u] = received[u]
    BY DEF UdpTypes
  <2>2. ~overlapped' => ~overlapped
    OBVIOUS
  <2> QED  BY <2>1, <2>2, SummedIsKept
<1> QED  BY <1>1, <1>2, <1>3, <1>4, <1>5

\* What is seen of bytes_read is a number, and what the thread has loaded if it is alone.
LEMMA SeenIs ==
  ASSUME UdpTypes, AloneInv, NEW t \in Receiver
  PROVE  Seen(t) \subseteq Int /\ (~overlapped /\ t \in Using => Seen(t) = {udReg[t]})
<1>1. bytes_read \in Int /\ udReg[t] \in Int
  BY SizesAre DEF UdpTypes, Result
<1> QED  BY <1>1 DEF Seen, AloneInv

\* It tests what was returned: where that is 0 or an error, it has received no more.
LEMMA TestBytesInv ==
  ASSUME UdpIInv, NEW t \in Receiver, TestBytes(t)
  PROVE  UdpIInv'
<1> USE DEF UdpIInv, TestBytes
<1>1. PICK b \in Seen(t) : UdpGo(t, IF b > 0 THEN "count" ELSE "sum")
  OBVIOUS
<1>2. t \in Using /\ t \in Claimed
  BY DEF Using, Claimed
<1>3. b \in Int /\ (~overlapped => b = udReg[t])
  BY <1>1, <1>2, SeenIs
<1> DEFINE place == IF b > 0 THEN "count" ELSE "sum"
<1>4. place \in {"count", "sum"} /\ UdpGo(t, place)
  BY <1>1
<1> HIDE DEF place
<1>5. UdpTypes'
  BY <1>4 DEF UdpTypes, UdpGo, UdpLabels
<1>6. PositionsInv'
  BY <1>2, <1>4, PositionsAreKept DEF UdpLabels
<1>7. AloneInv'
  <2>1. Using' \subseteq Using
    BY <1>2, <1>4 DEF UdpTypes, UdpGo, Using
  <2> QED  BY <2>1, AloneIsKept DEF Using
<1>8. AccountsInv'
  <2>1. ASSUME ~overlapped PROVE Accounted(t)'
    <3>1. /\ udReg[t] \in Result /\ received[t] = local_bytes[t] + Max({0, udReg[t]})
          /\ start_pos[t] = Begin(t) + local_bytes[t] /\ local_bytes[t] < block_size
      BY <2>1 DEF AccountsInv, Accounted
    <3>2. Max({0, udReg[t]}) = (IF udReg[t] > 0 THEN udReg[t] ELSE 0)
      BY MaxIs DEF UdpTypes
    <3>3. udPc'[t] = place /\ Begin(t)' = Begin(t) /\ local_bytes[t] \in Nat /\ udReg[t] \in Int
      BY <1>4, SizesAre DEF UdpTypes, UdpGo, Begin
    <3>4. BUFFER_SIZE \in Nat /\ block_size \in Nat
      BY SizesAre, SharesAre
    <3>5. CASE udReg[t] > 0
      <4>1. udReg[t] \in 1 .. BUFFER_SIZE
        BY <3>1, <3>4, <3>5 DEF Result
      <4>2. udPc'[t] = "count"
        BY <1>3, <2>1, <3>3, <3>5 DEF place
      <4> QED  BY <3>1, <3>2, <3>3, <3>5, <4>1, <4>2 DEF Accounted
    <3>6. CASE ~ (udReg[t] > 0)
      <4>1. udPc'[t] = "sum"
        BY <1>3, <2>1, <3>3, <3>6 DEF place
      <4>2. local_bytes[t] = received[t] /\ received[t] <= block_size + BUFFER_SIZE
        BY <3>1, <3>2, <3>3, <3>4, <3>6
      <4> QED  BY <3>1, <3>3, <4>1, <4>2 DEF Accounted
    <3> QED  BY <3>5, <3>6
  <2>2. \A u \in Receiver \ {t} : udPc'[u] = udPc[u]
    BY <1>4 DEF UdpTypes, UdpGo
  <2> QED  BY <2>1, <2>2, AccountsAreKept
<1>9. SummedInv'
  BY <1>4, SummedIsKept
<1> QED  BY <1>5, <1>6, <1>7, <1>8, <1>9

\* It counts it ...
LEMMA CountBytesInv ==
  ASSUME UdpIInv, NEW t \in Receiver, CountBytes(t)
  PROVE  UdpIInv'
<1> USE DEF UdpIInv, CountBytes
<1>1. PICK b \in Seen(t) : local_bytes' = [local_bytes EXCEPT ![t] = Unsigned(@ + b)]
  OBVIOUS
<1>2. t \in Using /\ t \in Claimed
  BY DEF Using, Claimed
<1>3. b \in Int /\ (~overlapped => b = udReg[t])
  BY <1>1, <1>2, SeenIs
<1>4. /\ MaxUnsigned \in Nat /\ BUFFER_SIZE \in Nat /\ FILE_SIZE \in Nat /\ block_size \in Nat
      /\ block_size <= FILE_SIZE /\ FILE_SIZE + BUFFER_SIZE <= MaxUnsigned
  BY SizesAre, SharesAre
<1>5. local_bytes[t] \in Nat
  BY <1>4 DEF UdpTypes
<1>6. /\ Unsigned(local_bytes[t] + b) \in 0 .. MaxUnsigned
      /\ local_bytes[t] + b \in 0 .. MaxUnsigned =>
           Unsigned(local_bytes[t] + b) = local_bytes[t] + b
  BY <1>3, <1>5, UnsignedIs
<1>7. UdpTypes'
  BY <1>1, <1>6 DEF UdpTypes, UdpGo, UdpLabels
<1>8. PositionsInv'
  BY <1>2, PositionsAreKept DEF UdpLabels
<1>9. AloneInv'
  <2>1. Using' \subseteq Using
    BY <1>2 DEF UdpTypes, UdpGo, Using
  <2> QED  BY <2>1, AloneIsKept DEF Using
<1>10. AccountsInv'
  <2>1. ASSUME ~overlapped PROVE Accounted(t)'
    <3>1. /\ udReg[t] \in 1 .. BUFFER_SIZE /\ received[t] = local_bytes[t] + udReg[t]
          /\ start_pos[t] = Begin(t) + local_bytes[t] /\ local_bytes[t] < block_size
      BY <2>1 DEF AccountsInv, Accounted
    <3>2. local_bytes[t] + b \in 0 .. MaxUnsigned
      BY <1>3, <1>4, <1>5, <2>1, <3>1
    <3>3. local_bytes'[t] = local_bytes[t] + udReg[t] /\ udPc'[t] = "move" /\ Begin(t)' = Begin(t)
      BY <1>1, <1>3, <1>6, <2>1, <3>2 DEF UdpTypes, UdpGo, Begin
    <3>4. Begin(t) \in Int /\ udReg[t] \in Int
      BY <1>4 DEF UdpTypes, Begin
    <3>5. start_pos[t] = Begin(t) + local_bytes'[t] - udReg[t]
      BY <1>5, <3>1, <3>3, <3>4
    <3>6. local_bytes'[t] - udReg[t] < block_size
      BY <1>4, <1>5, <3>1, <3>3, <3>4
    <3> QED  BY <3>1, <3>3, <3>5, <3>6 DEF Accounted
  <2>2. \A u \in Receiver \ {t} : udPc'[u] = udPc[u] /\ local_bytes'[u] = local_bytes[u]
    BY <1>1 DEF UdpTypes, UdpGo
  <2> QED  BY <2>1, <2>2, AccountsAreKept
<1>11. SummedInv'
  BY SummedIsKept
<1> QED  BY <1>7, <1>8, <1>9, <1>10, <1>11

\* ... and goes on behind it.
LEMMA MoveInv ==
  ASSUME UdpIInv, NEW t \in Receiver, Move(t)
  PROVE  UdpIInv'
<1> USE DEF UdpIInv, Move
<1>1. PICK b \in Seen(t) : start_pos' = [start_pos EXCEPT ![t] = Unsigned(@ + b)]
  OBVIOUS
<1>2. t \in Using /\ t \in Claimed
  BY DEF Using, Claimed
<1>3. b \in Int /\ (~overlapped => b = udReg[t])
  BY <1>1, <1>2, SeenIs
<1>4. /\ MaxUnsigned \in Nat /\ BUFFER_SIZE \in Nat /\ FILE_SIZE \in Nat /\ block_size \in Nat
      /\ block_size <= FILE_SIZE /\ FILE_SIZE + BUFFER_SIZE <= MaxUnsigned
  BY SizesAre, SharesAre
<1>5. start_pos[t] \in Nat
  BY <1>4 DEF UdpTypes
<1>6. /\ Unsigned(start_pos[t] + b) \in 0 .. MaxUnsigned
      /\ start_pos[t] + b \in 0 .. MaxUnsigned =>
           Unsigned(start_pos[t] + b) = start_pos[t] + b
  BY <1>3, <1>5, UnsignedIs
<1>7. UdpTypes'
  BY <1>1, <1>6 DEF UdpTypes, UdpGo, UdpLabels
<1>8. PositionsInv'
  <2>1. \A u \in Receiver \ {t} : start_pos'[u] = start_pos[u]
    BY <1>1 DEF UdpTypes
  <2> QED  BY <1>2, <2>1, PositionsAreKept DEF UdpLabels
<1>9. AloneInv'
  <2>1. Using' \subseteq Using
    BY <1>2 DEF UdpTypes, UdpGo, Using
  <2> QED  BY <2>1, AloneIsKept DEF Using
<1>10. AccountsInv'
  <2>1. ASSUME ~overlapped PROVE Accounted(t)'
    <3>1. /\ udReg[t] \in 1 .. BUFFER_SIZE /\ received[t] = local_bytes[t]
          /\ start_pos[t] = Begin(t) + local_bytes[t] - udReg[t]
          /\ local_bytes[t] - udReg[t] < block_size
      BY <2>1 DEF AccountsInv, Accounted
    <3>2. Begin(t) \in 0 .. FILE_SIZE - block_size /\ local_bytes[t] \in Nat
      BY <1>2, <1>4 DEF UdpTypes, Begin, PositionsInv
    <3>3. start_pos[t] + udReg[t] = Begin(t) + received[t]
      BY <1>4, <1>5, <3>1, <3>2
    <3>4. received[t] <= block_size + BUFFER_SIZE /\ received[t] \in Nat
      BY <1>4, <3>1, <3>2
    <3>5. received[t] < block_size + udReg[t]
      BY <1>4, <3>1, <3>2
    <3>6. start_pos[t] + b \in 0 .. MaxUnsigned
      BY <1>3, <1>4, <1>5, <2>1, <3>1, <3>2, <3>3, <3>4, <3>5
    <3>7. start_pos'[t] = Begin(t) + received[t] /\ udPc'[t] = "recv" /\ Begin(t)' = Begin(t)
      BY <1>1, <1>3, <1>6, <2>1, <3>3, <3>6 DEF UdpTypes, UdpGo, Begin
    <3> QED  BY <3>1, <3>4, <3>7 DEF Accounted
  <2>2. \A u \in Receiver \ {t} : udPc'[u] = udPc[u] /\ start_pos'[u] = start_pos[u]
    BY <1>1 DEF UdpTypes, UdpGo
  <2> QED  BY <2>1, <2>2, AccountsAreKept
<1>11. SummedInv'
  BY SummedIsKept
<1> QED  BY <1>7, <1>8, <1>9, <1>10, <1>11

\* One more has added up what it received.
LEMMA OneMoreIsSummed ==
  ASSUME UdpTypes, AccountsInv, ~overlapped, NEW t \in Receiver, udPc[t] # "done",
         Accounted(t), udPc[t] \in {"recv", "sum", "store"}, NEW S \in SUBSET Finished
  PROVE  /\ SumOver(received, S \cup {t}) = SumOver(received, S) + local_bytes[t]
         /\ Unsigned(SumOver(received, S) + local_bytes[t]) = SumOver(received, S \cup {t})
<1>1. S \subseteq Receiver /\ t \notin S /\ IsFiniteSet(S) /\ IsFiniteSet(S \cup {t})
  BY UdpAssumption, FS_Subset DEF Finished
<1> DEFINE k == block_size + BUFFER_SIZE
<1>2. k \in Nat
  <2>1. BUFFER_SIZE \in Nat /\ block_size \in Nat
    BY SizesAre, SharesAre
  <2> QED  BY <2>1
<1>3. \A u \in S \cup {t} : received[u] \in 0 .. k
  <2>1. \A u \in S : Accounted(u) /\ udPc[u] = "done"
    BY <1>1 DEF AccountsInv, Finished
  <2>2. \A u \in S \cup {t} : received[u] \in Nat
    BY <1>1 DEF UdpTypes
  <2>3. \A u \in S \cup {t} : received[u] <= k
    BY <2>1 DEF Accounted
  <2> QED  BY <1>2, <2>2, <2>3
<1>4. local_bytes[t] = received[t]
  BY DEF Accounted
<1>5. \A u \in S \cup {t} : received[u] \in Int
  BY <1>1 DEF UdpTypes
<1> HIDE DEF k
<1>6. SumOver(received, S \cup {t}) = received[t] + SumOver(received, (S \cup {t}) \ {t})
  BY <1>1, <1>5, SumWith
<1>7. (S \cup {t}) \ {t} = S
  BY <1>1
<1>8. /\ SumOver(received, S \cup {t}) \in Nat
      /\ SumOver(received, S \cup {t}) <= Cardinality(S \cup {t}) * k
  BY <1>1, <1>2, <1>3, SumBound
<1>9. Cardinality(S \cup {t}) \in 0 .. Cardinality(Receiver)
  <2>1. S \cup {t} \subseteq Receiver
    BY <1>1
  <2>2. Cardinality(S \cup {t}) <= Cardinality(Receiver) /\ Cardinality(S \cup {t}) \in Nat
    BY <1>1, <2>1, UdpAssumption, FS_Subset, FS_CardinalityType
  <2>3. Cardinality(Receiver) \in Nat
    BY UdpAssumption, FS_CardinalityType
  <2> QED  BY <2>2, <2>3
<1>10. Cardinality(S \cup {t}) * k <= MaxUnsigned /\ Cardinality(S \cup {t}) * k \in Nat
  <2>1. Cardinality(S \cup {t}) * k <= MaxUnsigned
    BY <1>9, SizesAre DEF k
  <2> QED  BY <1>2, <1>9, <2>1
<1>11. SumOver(received, S \cup {t}) \in 0 .. MaxUnsigned
  BY <1>8, <1>10, SizesAre
<1>12. SumOver(received, S) \in Int
  BY <1>1, <1>5, SumOfNumbers
<1>13. SumOver(received, S \cup {t}) = SumOver(received, S) + local_bytes[t]
  <2>1. \A p, q \in Int : p + q = q + p
    OBVIOUS
  <2>2. received[t] \in Int
    BY <1>5
  <2>3. SumOver(received, S \cup {t}) = received[t] + SumOver(received, S)
    BY <1>6, <1>7
  <2>4. received[t] + SumOver(received, S) = SumOver(received, S) + received[t]
    BY <1>12, <2>1, <2>2
  <2> QED  BY <1>4, <2>3, <2>4
<1> QED  BY <1>11, <1>13, UnsignedIs

\* It adds up: with the lock in one step, and otherwise it loads the sum first.
LEMMA SumInv ==
  ASSUME UdpIInv, NEW t \in Receiver, Sum_(t)
  PROVE  UdpIInv'
<1> USE DEF UdpIInv, Sum_
<1>0. udPc[t] \in {"recv", "sum"} /\ t \in Claimed /\ t \notin Finished /\ t \notin Using
  BY DEF Claimed, Finished, Using
<1>1. PICK place \in {"done", "store"} : UdpGo(t, place) /\ (locks <=> place = "done")
  OBVIOUS
<1>2. total_bytes \in 0 .. MaxUnsigned /\ total_bytes \in Int /\ local_bytes[t] \in Int
  BY SizesAre DEF UdpTypes
<1>3. Unsigned(total_bytes + local_bytes[t]) \in 0 .. MaxUnsigned
  BY <1>2, UnsignedIs
<1>4. UdpTypes'
  <2>1. CASE locks
    BY <1>3, <2>1 DEF UdpTypes, UdpGo, UdpLabels
  <2>2. CASE ~locks
    BY <1>2, <2>2 DEF UdpTypes, UdpGo, UdpLabels
  <2> QED  BY <2>1, <2>2 DEF UdpTypes
<1>5. \A u \in Receiver \ {t} : udReg'[u] = udReg[u] /\ udPc'[u] = udPc[u]
  BY <1>1 DEF UdpTypes, UdpGo
<1>6. PositionsInv'
  BY <1>0, <1>1, <1>5, PositionsAreKept DEF UdpLabels
<1>7. AloneInv'
  <2>1. Using' \subseteq Using
    BY <1>0, <1>1 DEF UdpTypes, UdpGo, Using
  <2> QED  BY <1>0, <1>5, <2>1, AloneIsKept DEF Using
<1>8. AccountsInv'
  <2>1. ASSUME ~overlapped PROVE Accounted(t)'
    <3>1. Accounted(t)
      BY <2>1 DEF AccountsInv
    <3>2. udPc'[t] = place
      BY <1>1 DEF UdpTypes, UdpGo
    <3> QED  BY <1>0, <3>1, <3>2 DEF Accounted, Begin
  <2> QED  BY <1>5, <2>1, AccountsAreKept
<1>9. SummedInv'
  <2>1. SUFFICES ASSUME ~overlapped PROVE SummedInv'
    BY DEF SummedInv
  <2>2. /\ locks => total_bytes = SumOver(received, Finished)
        /\ \E S \in SUBSET Finished :
             total_bytes = SumOver(received, S) /\ (Finished # {} => S # {})
        /\ \A u \in Receiver : udPc[u] = "store" =>
             \E S \in SUBSET Finished : udReg[u] = SumOver(received, S)
    BY <2>1 DEF SummedInv
  <2>3. CASE locks
    <3>1. Finished' = Finished \cup {t}
      BY <1>1, <2>3 DEF UdpTypes, UdpGo, Finished
    <3>2. Accounted(t) /\ udPc[t] # "done" /\ Finished \in SUBSET Finished
      BY <1>0, <2>1 DEF AccountsInv
    <3>3. Unsigned(SumOver(received, Finished) + local_bytes[t])
            = SumOver(received, Finished \cup {t})
      BY <1>0, <2>1, <3>2, OneMoreIsSummed
    <3>4. total_bytes' = SumOver(received', Finished')
      BY <2>2, <2>3, <3>1, <3>3
    <3>5. \A u \in Receiver : udPc'[u] # "store"
      BY <1>4, <2>3 DEF UdpTypes
    <3> QED  BY <3>1, <3>4, <3>5 DEF SummedInv
  <2>4. CASE ~locks
    <3>1. Finished' = Finished /\ udPc'[t] = "store" /\ udReg'[t] = total_bytes
      BY <1>0, <1>1, <2>4 DEF UdpTypes, UdpGo, Finished
    <3>2. \A u \in Receiver \ {t} : udPc'[u] = "store" =>
            \E S \in SUBSET Finished : udReg'[u] = SumOver(received, S)
      BY <1>5, <2>2
    <3>3. \E S \in SUBSET Finished : udReg'[t] = SumOver(received, S)
      BY <2>2, <3>1
    <3> QED  BY <2>2, <2>4, <3>1, <3>2, <3>3 DEF SummedInv
  <2> QED  BY <2>3, <2>4
<1> QED  BY <1>4, <1>6, <1>7, <1>8, <1>9

\* Without the lock it stores the sum of some, itself among them.
LEMMA SumUnlockedInv ==
  ASSUME UdpIInv, NEW t \in Receiver, SumUnlocked(t)
  PROVE  UdpIInv'
<1> USE DEF UdpIInv, SumUnlocked
<1>0. t \in Claimed /\ t \notin Finished /\ t \notin Using /\ ~locks
  BY DEF Claimed, Finished, Using, UdpTypes
<1>1. Unsigned(udReg[t] + local_bytes[t]) \in 0 .. MaxUnsigned
  <2>1. udReg[t] \in Int /\ local_bytes[t] \in Int
    BY SizesAre DEF UdpTypes
  <2> QED  BY <2>1, UnsignedIs
<1>2. UdpTypes'
  BY <1>0, <1>1 DEF UdpTypes, UdpGo, UdpLabels
<1>3. PositionsInv'
  BY <1>0, PositionsAreKept DEF UdpLabels
<1>4. AloneInv'
  <2>1. Using' \subseteq Using
    BY DEF UdpTypes, UdpGo, Using
  <2> QED  BY <2>1, AloneIsKept DEF Using
<1>5. \A u \in Receiver \ {t} : udPc'[u] = udPc[u]
  BY DEF UdpTypes, UdpGo
<1>6. AccountsInv'
  <2>1. ASSUME ~overlapped PROVE Accounted(t)'
    <3>1. Accounted(t)
      BY <2>1 DEF AccountsInv
    <3>2. udPc'[t] = "done"
      BY DEF UdpTypes, UdpGo
    <3> QED  BY <3>1, <3>2 DEF Accounted, Begin
  <2> QED  BY <1>5, <2>1, AccountsAreKept
<1>7. SummedInv'
  <2>1. SUFFICES ASSUME ~overlapped PROVE SummedInv'
    BY DEF SummedInv
  <2>2. PICK S \in SUBSET Finished : udReg[t] = SumOver(received, S)
    BY <2>1 DEF SummedInv
  <2>3. Finished' = Finished \cup {t}
    BY DEF UdpTypes, UdpGo, Finished
  <2>4. Accounted(t) /\ udPc[t] # "done"
    BY <2>1 DEF AccountsInv
  <2>5. total_bytes' = SumOver(received, S \cup {t})
    BY <2>1, <2>2, <2>4, OneMoreIsSummed
  <2>6. \A u \in Receiver : udPc'[u] = "store" => udPc[u] = "store"
    BY <1>5 DEF UdpTypes, UdpGo
  <2>7. \A u \in Receiver : udPc[u] = "store" =>
          \E R \in SUBSET Finished : udReg[u] = SumOver(received, R)
    BY <2>1 DEF SummedInv
  <2>8. S \cup {t} \in SUBSET Finished' /\ S \cup {t} # {}
    BY <2>3
  <2> QED  BY <1>0, <2>3, <2>5, <2>6, <2>7, <2>8 DEF SummedInv
<1> QED  BY <1>2, <1>3, <1>4, <1>6, <1>7

\* Nothing changes.
LEMMA UdpStutterInv ==
  ASSUME UdpIInv, UNCHANGED udpVars
  PROVE  UdpIInv'
<1> USE DEF udpVars
<1>a. UdpTypes /\ PositionsInv /\ AloneInv /\ AccountsInv /\ SummedInv
  BY DEF UdpIInv
<1>1. UdpTypes'
  BY <1>a DEF UdpTypes
<1>2. PositionsInv'
  <2>1. Claimed' = Claimed
    BY DEF Claimed
  <2> QED  BY <1>a, <2>1 DEF PositionsInv
<1>3. AloneInv'
  BY <1>a DEF AloneInv, Using
<1>4. AccountsInv'
  BY <1>a DEF AccountsInv, Accounted, Begin
<1>5. SummedInv'
  BY <1>a DEF SummedInv, Finished
<1> QED  BY <1>1, <1>2, <1>3, <1>4, <1>5 DEF UdpIInv

\* Every step of udp_server.c preserves its inductive invariant.
LEMMA UdpStep == UdpIInv /\ [UdpNext]_udpVars => UdpIInv'
  BY ClaimInv, ClaimUnlockedInv, ReceiveInv, TestBytesInv, CountBytesInv, MoveInv, SumInv,
     SumUnlockedInv, UdpStutterInv
  DEF UdpNext, UdpStopped, receive_data, receive_data_unlocked

\* The inductive invariant is strong enough.
LEMMA UdpFollows == UdpIInv => UdpInv
<1> SUFFICES ASSUME UdpIInv PROVE UdpInv
  OBVIOUS
<1> USE DEF UdpIInv
<1>1. UdpTypeOK
  BY DEF UdpTypes, UdpTypeOK, UdpLabels
<1>2. ClaimsAreDisjoint
  <2>1. SUFFICES ASSUME locks PROVE ClaimsAreDisjoint
    BY DEF ClaimsAreDisjoint
  <2>2. {t \in Receiver : udPc[t] \notin {"claim", "claimed"}} = Claimed
    BY <2>1 DEF Claimed, UdpTypes
  <2> QED  BY <2>1, <2>2 DEF ClaimsAreDisjoint, PositionsInv, Shares
<1>3. CountsItsOwn
  <2>1. SUFFICES ASSUME ~overlapped, NEW t \in Receiver,
                        udPc[t] \in {"recv", "sum", "store", "done"}
                 PROVE  /\ local_bytes[t] = received[t]
                        /\ start_pos[t] = end_pos[t] - block_size + received[t]
    BY DEF CountsItsOwn
  <2>2. Accounted(t)
    BY <2>1 DEF AccountsInv
  <2> QED  BY <2>1, <2>2 DEF Accounted, Begin
<1>4. TotalIsRightAlone
  <2>1. SUFFICES ASSUME AllDone, ~overlapped PROVE TotalIsRightAlone
    BY DEF TotalIsRightAlone
  <2>2. Finished = Receiver
    BY <2>1 DEF AllDone, Finished
  <2> QED  BY <2>1, <2>2 DEF TotalIsRightAlone, SummedInv, SumOver, Total
<1> QED  BY <1>1, <1>2, <1>3, <1>4 DEF UdpInv

\* For any number of receivers: under the locks their parts of the file are disjoint, each
\* counts what it received, and main() prints the sum of that where nobody received while
\* another was still to use bytes_read, which they share (receiver() of udp_server.c).
THEOREM ReceiversKeepApart == UdpSpec => []UdpInv
<1> QED
  BY UdpInitInv, UdpStep, UdpFollows, PTL DEF UdpSpec

-----------------------------------------------------------------------------
(***************************************************************************)
(* queue_cyclic.c without its mutex: with one sender the queue holds what  *)
(* was posted and not dropped, in order; with more, nothing is made up.    *)
(***************************************************************************)

UaPlaces == 0 .. max_size - 1
Messages == Posting \X Nat
UaSendLabels  == {"enqueue", "slot", "tail", "signal"}
UaActorLabels == {"test", "sleep", "wait", "size", "take", "clear", "front", "count", "exit",
                  "ended"}

UaTypes ==
  /\ senders \subseteq Sender /\ slots \in [UaPlaces -> Messages \cup {Null}]
  /\ front \in UaPlaces /\ tail \in UaPlaces /\ size \in 0 .. QUEUE_BUF_SIZE
  /\ actorCond \subseteq {"actor"} /\ sendPc \in [Posting -> UaSendLabels]
  /\ sent \in [Posting -> Nat] /\ at \in [Posting -> UaPlaces]
  /\ actorPc \in UaActorLabels /\ data \in Messages \cup {Null}
  /\ v \in Seq(Messages) /\ counted \in Seq(Messages) /\ dropped \in Seq(Messages)

\* A message that its sender has put into a slot, or dropped, when n have been sent by
\* each and p is where each is.
Old(m, n, p) ==
  m[2] < n[m[1]] \/ (m[2] = n[m[1]] /\ p[m[1]] \in {"tail", "signal"})

\* What the actor has taken: counted, or in its vector.
Seized == counted \o v

\* Everything in a slot, on the way, seized or dropped is an old message.
OldInv ==
  /\ \A k \in UaPlaces : slots[k] # Null => Old(slots[k], sent, sendPc)
  /\ data # Null => Old(data, sent, sendPc)
  /\ \A j \in 1 .. Len(Seized) : Old(Seized[j], sent, sendPc)
  /\ \A j \in 1 .. Len(dropped) : Old(dropped[j], sent, sendPc)

\* m is neither among those seized nor among those dropped.
NotGone(m, s, d) ==
  (\A j \in 1 .. Len(s) : s[j] # m) /\ (\A j \in 1 .. Len(d) : d[j] # m)

\* And it is in one of these places only; what the actor takes is in its slot until that
\* is cleared.
OnceInv ==
  /\ \A j, k \in UaPlaces : slots[j] = slots[k] /\ slots[j] # Null => j = k
  /\ \A k \in UaPlaces : slots[k] # Null => NotGone(slots[k], Seized, dropped)
  /\ actorPc \in {"clear", "front"} /\ data # Null =>
       /\ NotGone(data, Seized, dropped)
       /\ \A k \in UaPlaces : slots[k] = data => actorPc = "clear" /\ k = front
  /\ \A j, k \in 1 .. Len(Seized) : Seized[j] = Seized[k] => j = k
  /\ \A j \in 1 .. Len(Seized), k \in 1 .. Len(dropped) : Seized[j] # dropped[k]

UaIInv == UaTypes /\ OldInv /\ OnceInv
-----------------------------------------------------------------------------
\* Senders and main() are different, and there are places.
LEMMA UaNames ==
  /\ UaTypes => "main" \notin senders /\ senders \subseteq Sender
  /\ Posting = senders \cup {"main"} /\ "main" \in Posting
  /\ max_size \in Nat \ {0} /\ QUEUE_BUF_SIZE \in Nat /\ max_size = QUEUE_BUF_SIZE + 1
  /\ 0 \in UaPlaces /\ MSGS \in Nat
  BY UnlockedAssumption DEF UaTypes, Posting, max_size, UaPlaces

\* A message is not Null, and made of its sender and number.
LEMMA MessageIs ==
  /\ \A m \in Messages : m # Null /\ m = <<m[1], m[2]>> /\ m[1] \in Posting /\ m[2] \in Nat
  /\ UaTypes => \A t \in Posting : /\ Message(t) \in Messages /\ Message(t) # Null
                                   /\ Message(t)[1] = t /\ Message(t)[2] = sent[t]
<1>1. ASSUME NEW m \in Messages
      PROVE  m # Null /\ m = <<m[1], m[2]>> /\ m[1] \in Posting /\ m[2] \in Nat
  <2>1. PICK s \in Posting, k \in Nat : m = <<s, k>>
    BY DEF Messages
  <2> QED  BY <2>1 DEF Null
<1>2. ASSUME UaTypes, NEW t \in Posting
      PROVE  /\ Message(t) \in Messages /\ Message(t)[1] = t /\ Message(t)[2] = sent[t]
  BY <1>2 DEF UaTypes, Message, Messages
<1> QED  BY <1>1, <1>2

\* The next place and the last one are places.
LEMMA NextPlace ==
  ASSUME NEW k \in UaPlaces
  PROVE  (k + 1) % max_size \in UaPlaces
<1>1. max_size \in Nat \ {0}
  BY UaNames
<1>2. k + 1 \in Nat
  BY <1>1 DEF UaPlaces
<1> QED  BY <1>1, <1>2 DEF UaPlaces

\* Sequences that grow at their end.
LEMMA Grows ==
  ASSUME NEW S, NEW q \in Seq(S), NEW e \in S
  PROVE  /\ Append(q, e) \in Seq(S) /\ Len(Append(q, e)) = Len(q) + 1
         /\ Append(q, e)[Len(q) + 1] = e /\ \A j \in 1 .. Len(q) : Append(q, e)[j] = q[j]
         /\ Len(q) \in Nat
         /\ \A j \in 1 .. Len(Append(q, e)) : j \in 1 .. Len(q) \/ j = Len(q) + 1
  OBVIOUS

\* What is seized is a sequence of messages that grows by what moves to the vector.
LEMMA SeizedIs ==
  ASSUME UaTypes
  PROVE  /\ Seized \in Seq(Messages) /\ Len(Seized) \in Nat
         /\ \A j \in 1 .. Len(Seized) : Seized[j] \in Messages
  BY DEF UaTypes, Seized

\* A message is appended to the second of two sequences as to both.
LEMMA AppendAssociative ==
  ASSUME NEW S, NEW p \in Seq(S), NEW q \in Seq(S), NEW e \in S
  PROVE  p \o Append(q, e) = Append(p \o q, e)
<1>1. <<e>> \in Seq(S) /\ p \o q \in Seq(S)
  OBVIOUS
<1>2. Append(q, e) = q \o <<e>> /\ Append(p \o q, e) = (p \o q) \o <<e>>
  BY <1>1, AppendIsConcat
<1> QED  BY <1>1, <1>2, ConcatAssociative

\* At first there is no message anywhere.
LEMMA ActorInitInv == ActorInit => UaIInv
<1> SUFFICES ASSUME ActorInit PROVE UaIInv
  OBVIOUS
<1> USE DEF ActorInit
<1>1. UaTypes
  BY UaNames DEF UaTypes, UaPlaces, UaSendLabels, UaActorLabels
<1>2. Seized = <<>> /\ Len(Seized) = 0 /\ Len(dropped) = 0
  BY DEF Seized
<1>3. OldInv /\ OnceInv
  BY <1>2 DEF OldInv, OnceInv, UaPlaces
<1> QED  BY <1>1, <1>3 DEF UaIInv

\* An old message stays old.
LEMMA OldStays ==
  ASSUME UaTypes, [ActorNext]_uaVars, NEW m \in Messages, Old(m, sent, sendPc)
  PROVE  Old(m, sent', sendPc')
<1>1. m[1] \in Posting /\ m[2] \in Nat
  BY MessageIs
<1> USE <1>1 DEF UaTypes, Old, ActorGo
<1>2. CASE sent' = sent /\ sendPc' = sendPc
  BY <1>2
<1>3. ASSUME NEW t \in Posting, EnqueueLoad(t) PROVE Old(m, sent', sendPc')
  BY <1>3 DEF EnqueueLoad
<1>4. ASSUME NEW t \in Posting, EnqueueSlot(t) PROVE Old(m, sent', sendPc')
  BY <1>4 DEF EnqueueSlot
<1>5. ASSUME NEW t \in Posting, EnqueueTail(t) PROVE Old(m, sent', sendPc')
  BY <1>5 DEF EnqueueTail
<1>6. ASSUME NEW t \in Posting, Signal(t) PROVE Old(m, sent', sendPc')
  BY <1>6 DEF Signal
<1>7. ~ (\E t \in Posting : actor_send_to(t)) => sent' = sent /\ sendPc' = sendPc
  BY DEF ActorNext, ActorStopped, uaVars, actor_runner, Test, ActorWait, Awake, Size, Take, Clear,
         MoveFront, Count, ActorSpuriousWakeup, SendersUnchanged
<1> QED  BY <1>2, <1>3, <1>4, <1>5, <1>6, <1>7 DEF actor_send_to

\* What is old has been put into a slot, or dropped.
LEMMA NotOld ==
  ASSUME UaTypes, NEW t \in Posting, sendPc[t] \in {"enqueue", "slot"}, NEW m, Old(m, sent, sendPc)
  PROVE  m # Message(t)
<1>1. ~ Old(Message(t), sent, sendPc)
  BY MessageIs DEF Old, UaTypes
<1> QED  BY <1>1

\* Steps of a sender leave what the actor has, and steps of the actor what senders have.
LEMMA WhoMoves ==
  ASSUME [ActorNext]_uaVars
  PROVE  \/ \E t \in Posting : actor_send_to(t)
         \/ SendersUnchanged /\ (actor_runner \/ ActorSpuriousWakeup)
         \/ UNCHANGED uaVars
  BY DEF ActorNext, ActorStopped, actor_runner, Test, ActorWait, Awake, Size, Take, Clear,
         MoveFront, Count, ActorSpuriousWakeup

\* Types, where a sender moves.
LEMMA SenderTypes ==
  ASSUME UaTypes, NEW t \in Posting, actor_send_to(t)
  PROVE  UaTypes' /\ Seized' = Seized
<1>1. Posting' = Posting /\ Messages' = Messages /\ UaPlaces' = UaPlaces /\ Seized' = Seized
  BY DEF actor_send_to, EnqueueLoad, EnqueueSlot, EnqueueTail, Signal, ActorUnchanged, Posting,
         Messages, UaPlaces, max_size, Seized
<1>2. Message(t) \in Messages
  BY MessageIs
<1> USE <1>1 DEF UaTypes, ActorGo, ActorUnchanged, UaSendLabels
<1>3. CASE EnqueueLoad(t)
  <2>1. dropped' \in Seq(Messages)
    <3>1. dropped' = dropped \/ dropped' = Append(dropped, Message(t))
      BY <1>3 DEF EnqueueLoad
    <3>2. dropped \in Seq(Messages)
      OBVIOUS
    <3>3. Append(dropped, Message(t)) \in Seq(Messages)
      BY <1>2, <3>2, Grows
    <3> QED  BY <3>1, <3>2, <3>3
  <2> QED  BY <1>3, <2>1 DEF EnqueueLoad
<1>4. CASE EnqueueSlot(t)
  BY <1>2, <1>4 DEF EnqueueSlot
<1>5. CASE EnqueueTail(t)
  <2>1. tail' \in UaPlaces
    BY <1>5, NextPlace DEF EnqueueTail
  <2> QED  BY <1>5, <2>1 DEF EnqueueTail
<1>6. CASE Signal(t)
  <2>1. sent' \in [Posting -> Nat] /\ sendPc' \in [Posting -> UaSendLabels]
    BY <1>6 DEF Signal
  <2>2. actorCond' \subseteq {"actor"}
    BY <1>6 DEF Signal, CondSignal
  <2> QED  BY <1>6, <2>1, <2>2 DEF Signal
<1> QED  BY <1>1, <1>3, <1>4, <1>5, <1>6 DEF actor_send_to

\* A sender drops a message, puts it into a slot, or leaves all of them where they are.
LEMMA SenderKeepsOnce ==
  ASSUME UaIInv, NEW t \in Posting, actor_send_to(t), [ActorNext]_uaVars
  PROVE  UaIInv'
<1> USE DEF UaIInv
<1>1. /\ UaTypes' /\ Seized' = Seized /\ data' = data /\ actorPc' = actorPc /\ front' = front
      /\ UaPlaces' = UaPlaces
  BY SenderTypes DEF actor_send_to, EnqueueLoad, EnqueueSlot, EnqueueTail, Signal,
                     ActorUnchanged, UaPlaces, max_size
<1>2. Message(t) \in Messages /\ Message(t) # Null
  BY MessageIs
<1>3. /\ \A k \in UaPlaces :
           slots[k] # Null => Old(slots[k], sent', sendPc') /\ slots[k] \in Messages
      /\ data # Null => Old(data, sent', sendPc')
      /\ \A j \in 1 .. Len(Seized) : Old(Seized[j], sent', sendPc')
      /\ \A j \in 1 .. Len(dropped) : Old(dropped[j], sent', sendPc')
  <2>1. \A m \in Messages : Old(m, sent, sendPc) => Old(m, sent', sendPc')
    BY OldStays
  <2>2. ASSUME NEW j \in 1 .. Len(Seized) PROVE Seized[j] \in Messages
    BY SeizedIs
  <2>3. ASSUME NEW j \in 1 .. Len(dropped) PROVE dropped[j] \in Messages
    BY DEF UaTypes
  <2>4. \A k \in UaPlaces : slots[k] # Null => slots[k] \in Messages
    BY DEF UaTypes
  <2>5. data # Null => data \in Messages
    BY DEF UaTypes
  <2> QED  BY <1>1, <2>1, <2>2, <2>3, <2>4, <2>5 DEF OldInv
<1>4. Seized' = Seized /\ Len(Seized') = Len(Seized)
  BY <1>1
<1>5. CASE slots' = slots /\ dropped' = dropped
  BY <1>1, <1>3, <1>4, <1>5 DEF OldInv, OnceInv, NotGone
<1>6. CASE EnqueueLoad(t) /\ dropped' # dropped
  <2>1. dropped' = Append(dropped, Message(t)) /\ slots' = slots /\ sendPc[t] = "enqueue"
    BY <1>6 DEF EnqueueLoad
  <2>2. Old(Message(t), sent', sendPc')
    <3>1. sendPc'[t] = "signal" /\ sent' = sent
      BY <1>6 DEF EnqueueLoad, ActorGo, UaTypes
    <3> QED  BY <3>1, MessageIs DEF Old
  <2>3. /\ \A j \in 1 .. Len(dropped) : dropped'[j] = dropped[j]
        /\ dropped'[Len(dropped) + 1] = Message(t) /\ Len(dropped) \in Nat
        /\ \A j \in 1 .. Len(dropped') : j \in 1 .. Len(dropped) \/ j = Len(dropped) + 1
    BY <1>2, <2>1, Grows DEF UaTypes
  <2>4. OldInv'
    <3>1. \A j \in 1 .. Len(dropped') : Old(dropped'[j], sent', sendPc')
      BY <1>3, <2>2, <2>3
    <3> QED  BY <1>1, <1>3, <1>4, <2>1, <3>1 DEF OldInv
  <2>5. \A m : Old(m, sent, sendPc) => m # Message(t)
    BY <2>1, NotOld
  <2>6. \A m : Old(m, sent, sendPc) /\ NotGone(m, Seized, dropped) => NotGone(m, Seized', dropped')
    BY <1>4, <2>3, <2>5 DEF NotGone
  <2>7. \A j \in 1 .. Len(Seized), k \in 1 .. Len(dropped') : Seized[j] # dropped'[k]
    BY <2>3, <2>5 DEF OldInv, OnceInv
  <2>8. OnceInv'
    BY <1>1, <1>4, <2>1, <2>6, <2>7 DEF OldInv, OnceInv
  <2> QED  BY <1>1, <2>4, <2>8
<1>7. CASE EnqueueSlot(t)
  <2>1. PICK e \in UaPlaces : slots' = [slots EXCEPT ![e] = Message(t)]
    BY <1>7 DEF EnqueueSlot, UaTypes
  <2>2. dropped' = dropped /\ sendPc[t] = "slot" /\ sent' = sent /\ sendPc'[t] = "tail"
    BY <1>7 DEF EnqueueSlot, ActorGo, UaTypes
  <2>3. /\ slots'[e] = Message(t)
        /\ \A k \in UaPlaces : k # e => slots'[k] = slots[k]
    BY <2>1 DEF UaTypes
  <2>4. Old(Message(t), sent', sendPc')
    BY <2>2, MessageIs DEF Old
  <2>5. \A m : Old(m, sent, sendPc) => m # Message(t)
    BY <2>2, NotOld
  <2>6. OldInv'
    BY <1>1, <1>3, <1>4, <2>2, <2>3, <2>4 DEF OldInv
  <2>7. NotGone(Message(t), Seized, dropped)
    BY <2>5 DEF NotGone, OldInv
  <2>8. \A m : NotGone(m, Seized, dropped) => NotGone(m, Seized', dropped')
    BY <1>4, <2>2 DEF NotGone
  <2>9. OnceInv'
    <3>1. \A j, k \in UaPlaces : slots'[j] = slots'[k] /\ slots'[j] # Null => j = k
      BY <2>3, <2>5 DEF OldInv, OnceInv
    <3>2. \A k \in UaPlaces : slots'[k] # Null => NotGone(slots'[k], Seized', dropped')
      BY <2>3, <2>7, <2>8 DEF OnceInv
    <3>3. actorPc \in {"clear", "front"} /\ data # Null =>
            /\ NotGone(data, Seized', dropped')
            /\ \A k \in UaPlaces : slots'[k] = data => actorPc = "clear" /\ k = front
      BY <2>3, <2>5, <2>8 DEF OldInv, OnceInv
    <3> QED  BY <1>1, <1>4, <2>2, <3>1, <3>2, <3>3 DEF OnceInv
  <2> QED  BY <1>1, <2>6, <2>9
<1> QED  BY <1>5, <1>6, <1>7 DEF actor_send_to, EnqueueLoad, EnqueueTail, Signal

\* The number of messages in the queue is less than that of the places.
LEMMA SizeIs ==
  ASSUME front \in UaPlaces, tail \in UaPlaces
  PROVE  /\ queue_size \in 0 .. QUEUE_BUF_SIZE /\ queue_size \in 0 .. max_size - 1
         /\ queue_size = 0 <=> front = tail
  BY UaNames DEF queue_size, UaPlaces

\* What is seized is moved to the vector, and from there counted.
LEMMA Seizes ==
  ASSUME UaTypes, actor_runner \/ ActorSpuriousWakeup
  PROVE  \/ Seized' = Seized
         \/ /\ MoveFront /\ data # Null /\ v' = Append(v, data) /\ Seized' = Append(Seized, data)
<1>1. CASE MoveFront /\ v' # v
  <2>1. data # Null /\ v' = Append(v, data) /\ counted' = counted
    BY <1>1 DEF MoveFront
  <2>2. data \in Messages /\ v \in Seq(Messages) /\ counted \in Seq(Messages)
    BY <2>1 DEF UaTypes
  <2>3. counted \o Append(v, data) = Append(counted \o v, data)
    BY <2>2, AppendAssociative
  <2>4. Seized' = counted \o Append(v, data)
    BY <2>1 DEF Seized
  <2> QED  BY <1>1, <2>1, <2>3, <2>4 DEF Seized
<1>2. CASE Count
  <2>1. counted' = counted \o v /\ v' = <<>>
    BY <1>2 DEF Count
  <2>2. counted \o v \in Seq(Messages)
    BY DEF UaTypes
  <2>3. (counted \o v) \o <<>> = counted \o v
    BY <2>2, ConcatEmptySeq
  <2> QED  BY <2>1, <2>3 DEF Seized
<1>3. CASE counted' = counted /\ v' = v
  BY <1>3 DEF Seized
<1> QED  BY <1>1, <1>2, <1>3
         DEF actor_runner, Test, ActorWait, Awake, Size, Take, Clear, MoveFront, Count,
             ActorSpuriousWakeup

\* Types, where the actor moves.
LEMMA ActorTypes ==
  ASSUME UaTypes, SendersUnchanged, actor_runner \/ ActorSpuriousWakeup
  PROVE  UaTypes' /\ UaPlaces' = UaPlaces /\ dropped' = dropped /\ sent' = sent /\ sendPc' = sendPc
<1>1. Posting' = Posting /\ Messages' = Messages /\ UaPlaces' = UaPlaces
  BY DEF SendersUnchanged, Posting, Messages, UaPlaces, max_size
<1>2. v' \in Seq(Messages) /\ counted' \in Seq(Messages)
  <2>1. CASE MoveFront /\ v' # v
    <3>1. data # Null /\ v' = Append(v, data) /\ counted' = counted
      BY <2>1 DEF MoveFront
    <3>2. data \in Messages /\ v \in Seq(Messages)
      BY <3>1 DEF UaTypes
    <3> QED  BY <3>1, <3>2, Grows DEF UaTypes
  <2>2. CASE Count
    BY <2>2 DEF Count, UaTypes
  <2>3. CASE counted' = counted /\ v' = v
    BY <2>3 DEF UaTypes
  <2> QED  BY <2>1, <2>2, <2>3
           DEF actor_runner, Test, ActorWait, Awake, Size, Take, Clear, MoveFront, Count,
               ActorSpuriousWakeup
<1> USE <1>1, <1>2 DEF UaTypes, SendersUnchanged, UaActorLabels
<1>3. CASE Test \/ ActorWait \/ Awake
  BY <1>3 DEF Test, ActorWait, Awake
<1>4. CASE Size
  BY <1>4, SizeIs DEF Size
<1>5. CASE Take
  BY <1>5 DEF Take
<1>6. CASE Clear
  BY <1>6 DEF Clear
<1>7. CASE MoveFront
  <2>1. front' \in UaPlaces
    BY <1>7, NextPlace DEF MoveFront
  <2> QED  BY <1>7, <2>1 DEF MoveFront
<1>8. CASE Count
  BY <1>8 DEF Count
<1>9. CASE ActorSpuriousWakeup
  BY <1>9 DEF ActorSpuriousWakeup, Spurious
<1> QED  BY <1>3, <1>4, <1>5, <1>6, <1>7, <1>8, <1>9 DEF actor_runner

\* The actor takes what is in a slot, clears the slot, and seizes what it has taken.
LEMMA ActorKeepsOnce ==
  ASSUME UaIInv, SendersUnchanged, actor_runner \/ ActorSpuriousWakeup
  PROVE  UaIInv'
<1> USE DEF UaIInv
<1>1. UaTypes' /\ UaPlaces' = UaPlaces /\ dropped' = dropped /\ sent' = sent /\ sendPc' = sendPc
  BY ActorTypes
<1>2. CASE slots' = slots /\ Seized' = Seized /\ actorPc' \notin {"clear", "front"}
           /\ data' = data
  BY <1>1, <1>2 DEF OldInv, OnceInv
<1>3. CASE Take /\ actorPc' = "clear"
  <2>1. data' = slots[front] /\ slots' = slots /\ front' = front /\ Seized' = Seized
    BY <1>3 DEF Take, Seized
  <2>2. front \in UaPlaces
    BY DEF UaTypes
  <2>3. OldInv'
    BY <1>1, <2>1, <2>2 DEF OldInv
  <2>4. OnceInv'
    BY <1>1, <1>3, <2>1, <2>2 DEF OnceInv
  <2> QED  BY <1>1, <2>3, <2>4
<1>4. CASE Clear
  <2>1. /\ front \in UaPlaces /\ front' = front /\ data' = data /\ Seized' = Seized
        /\ actorPc = "clear" /\ actorPc' = "front"
        /\ slots'[front] = Null /\ \A k \in UaPlaces : k # front => slots'[k] = slots[k]
    BY <1>4 DEF Clear, UaTypes, Seized
  <2>2. OldInv'
    BY <1>1, <2>1 DEF OldInv
  <2>3. OnceInv'
    BY <1>1, <2>1 DEF OnceInv
  <2> QED  BY <1>1, <2>2, <2>3
<1>5. CASE MoveFront /\ Seized' = Append(Seized, data) /\ data # Null
  <2>1. data \in Messages /\ Seized \in Seq(Messages)
    BY <1>5, SeizedIs DEF UaTypes
  <2>2. /\ \A j \in 1 .. Len(Seized) : Seized'[j] = Seized[j]
        /\ Seized'[Len(Seized) + 1] = data /\ Len(Seized) \in Nat
        /\ \A j \in 1 .. Len(Seized') : j \in 1 .. Len(Seized) \/ j = Len(Seized) + 1
    BY <1>5, <2>1, Grows
  <2>3. /\ slots' = slots /\ actorPc = "front" /\ actorPc' \notin {"clear", "front"}
        /\ data' = data
    BY <1>5 DEF MoveFront
  <2>4. OldInv'
    BY <1>1, <1>5, <2>2, <2>3 DEF OldInv
  <2>5. OnceInv'
    <3>1. \A k \in UaPlaces : slots[k] # Null => slots[k] # data
      BY <1>5, <2>3 DEF OnceInv
    <3>2. \A m : NotGone(m, Seized, dropped) /\ m # data => NotGone(m, Seized', dropped')
      BY <1>1, <2>2 DEF NotGone
    <3>3. \A j, k \in 1 .. Len(Seized') : Seized'[j] = Seized'[k] => j = k
      BY <1>5, <2>2, <2>3 DEF OnceInv, NotGone
    <3>4. \A j \in 1 .. Len(Seized'), k \in 1 .. Len(dropped') : Seized'[j] # dropped'[k]
      BY <1>1, <1>5, <2>2, <2>3 DEF OnceInv, NotGone
    <3> QED  BY <1>1, <2>3, <3>1, <3>2, <3>3, <3>4 DEF OnceInv
  <2> QED  BY <1>1, <2>4, <2>5
<1>6. CASE MoveFront /\ Seized' = Seized
  BY <1>2, <1>6 DEF MoveFront
<1>7. CASE Test \/ ActorWait \/ Awake \/ Size \/ Count \/ (Take /\ actorPc' # "clear")
           \/ ActorSpuriousWakeup
  <2>1. Seized' = Seized
    <3>1. ~ MoveFront
      BY <1>7 DEF Test, ActorWait, Awake, Size, Count, Take, ActorSpuriousWakeup, MoveFront
    <3> QED  BY <3>1, Seizes
  <2>2. CASE ~ ActorSpuriousWakeup
    BY <1>2, <1>7, <2>1, <2>2 DEF Test, ActorWait, Awake, Size, Count, Take
  <2>3. CASE ActorSpuriousWakeup
    <3>1. slots' = slots /\ actorPc' = actorPc /\ data' = data /\ front' = front
      BY <2>3 DEF ActorSpuriousWakeup
    <3> QED  BY <1>1, <2>1, <3>1 DEF OldInv, OnceInv
  <2> QED  BY <2>2, <2>3
<1> QED  BY <1>3, <1>4, <1>5, <1>6, <1>7, Seizes DEF actor_runner

\* Every step of the actor without its lock keeps each message in one place.
LEMMA OnceStep == UaIInv /\ [ActorNext]_uaVars => UaIInv'
<1> SUFFICES ASSUME UaIInv, [ActorNext]_uaVars PROVE UaIInv'
  OBVIOUS
<1>1. CASE UNCHANGED uaVars
  <2>1. Seized' = Seized /\ Messages' = Messages /\ Posting' = Posting
    BY <1>1 DEF uaVars, Seized, Messages, Posting
  <2>2. UaTypes'
    BY <1>1, <2>1 DEF uaVars, UaIInv, UaTypes, UaPlaces, max_size
  <2>3. OldInv' /\ OnceInv'
    BY <1>1, <2>1 DEF uaVars, UaIInv, OldInv, OnceInv, UaPlaces, max_size
  <2> QED  BY <2>2, <2>3 DEF UaIInv
<1> QED  BY <1>1, WhoMoves, SenderKeepsOnce, ActorKeepsOnce

\* Nothing is counted that was not sent.
LEMMA NothingMadeUp == UaIInv => ActorTypeOK /\ NothingIsMadeUp
<1> SUFFICES ASSUME UaIInv PROVE ActorTypeOK /\ NothingIsMadeUp
  OBVIOUS
<1> USE DEF UaIInv
<1>1. ActorTypeOK
  BY DEF UaTypes, ActorTypeOK, UaPlaces
<1>2. /\ counted \in Seq(Messages) /\ v \in Seq(Messages) /\ dropped \in Seq(Messages)
      /\ Len(counted) \in Nat
  BY DEF UaTypes
<1>3. \A j \in 1 .. Len(counted) : j \in 1 .. Len(Seized) /\ Seized[j] = counted[j]
  BY <1>2 DEF Seized
<1>4. IsInjective(counted)
  <2>1. DOMAIN counted = 1 .. Len(counted)
    BY <1>2
  <2>2. \A j, k \in 1 .. Len(counted) : counted[j] = counted[k] => j = k
    BY <1>3 DEF OnceInv
  <2> QED  BY <2>1, <2>2 DEF IsInjective
<1>5. ToSet(counted) \cap ToSet(dropped) = {}
  <2>1. ToSet(counted) = {counted[j] : j \in 1 .. Len(counted)}
    BY <1>2 DEF ToSet
  <2>2. ToSet(dropped) = {dropped[j] : j \in 1 .. Len(dropped)}
    BY <1>2 DEF ToSet
  <2> QED  BY <1>3, <2>1, <2>2 DEF OnceInv
<1>6. ASSUME NEW m \in ToSet(counted) PROVE m \in ToSet(PostedBy(m[1])) \cup {Message(m[1])}
  <2>1. PICK j \in 1 .. Len(counted) : m = counted[j]
    BY <1>2 DEF ToSet
  <2>2. Old(m, sent, sendPc) /\ m \in Messages
    BY <1>2, <1>3, <2>1 DEF OldInv
  <2>3. m = <<m[1], m[2]>> /\ m[1] \in Posting /\ m[2] \in Nat /\ sent[m[1]] \in Nat
    BY <2>2, MessageIs DEF UaTypes
  <2>4. CASE m[2] = sent[m[1]]
    BY <2>3, <2>4 DEF Message
  <2>5. CASE m[2] < sent[m[1]]
    <3> DEFINE n == sent[m[1]] + (IF sendPc[m[1]] = "signal" THEN 1 ELSE 0)
               e == m[2] + 1
    <3>1. n \in Nat /\ e \in 1 .. n
      BY <2>3, <2>5
    <3>2. PostedBy(m[1]) = [k \in 1 .. n |-> <<m[1], k - 1>>]
      BY DEF PostedBy
    <3>3. e - 1 = m[2]
      BY <2>3
    <3> HIDE DEF n, e
    <3>4. PostedBy(m[1])[e] = m /\ e \in DOMAIN PostedBy(m[1])
      BY <2>3, <3>1, <3>2, <3>3
    <3> QED  BY <3>4 DEF ToSet
  <2> QED  BY <2>2, <2>3, <2>4, <2>5 DEF Old
<1> QED  BY <1>1, <1>4, <1>5, <1>6 DEF NothingIsMadeUp
-----------------------------------------------------------------------------
\* A sender sends its messages, and main() one when the senders have ended.
UaTurnInv ==
  /\ \A s \in senders : sent[s] <= MSGS /\ (sendPc[s] # "enqueue" => sent[s] < MSGS)
  /\ sendPc["main"] # "enqueue" => sent["main"] = 0
  /\ sendPc["main"] # "enqueue" \/ sent["main"] # 0 => \A s \in senders : sent[s] = MSGS

\* At most one posts at a time.
Single == Cardinality(senders) = 1

\* The places of the queue, and what is in them; while it is taken, what was in the first.
Place(k) == (front + k - 1) % max_size
Taking == actorPc \in {"clear", "front"}
Line == [k \in 1 .. queue_size |-> IF k = 1 /\ Taking THEN data ELSE slots[Place(k)]]

\* Where one posts at a time: what is stored at tail ...
UaStoreInv ==
  \A t \in Posting :
    /\ sendPc[t] \in {"slot", "tail"} => at[t] = tail /\ ~ queue_is_full
    /\ sendPc[t] = "tail" => slots[tail] = Message(t)

\* ... and that no place of the queue is empty, so that nothing else is taken.
UaLineInv ==
  /\ Taking => front # tail /\ (actorPc = "clear" => data = slots[front])
  /\ \A k \in 1 .. queue_size : Line[k] # Null

\* What is seized and in the queue is what was posted and not dropped, in order.
UaKept == Seized \o Line
UaKeptInv ==
  /\ ToSet(UaKept) = Posted \ ToSet(dropped)
  /\ \A j, k \in 1 .. Len(UaKept) : j < k => Before(UaKept[j], UaKept[k])

UaSingleInv == Single /\ ~ Exited => UaStoreInv /\ UaLineInv /\ UaKeptInv

UnlockedActorIInv == UaIInv /\ UaTurnInv /\ UaSingleInv
-----------------------------------------------------------------------------
\* One sender, and so one that posts.
LEMMA OneAtATime ==
  ASSUME UaTypes, UaTurnInv, Single
  PROVE  /\ \A t, u \in Posting : sendPc[t] # "enqueue" /\ sendPc[u] # "enqueue" => t = u
         /\ \A t, u \in Posting : sendPc[t] # "enqueue" /\ u # t =>
              u = "main" \/ t = "main"
         /\ \A t \in senders :
              sendPc[t] # "enqueue" => sent["main"] = 0 /\ sendPc["main"] = "enqueue"
<1>1. PICK s : senders = {s}
  <2>1. IsFiniteSet(senders)
    BY UnlockedAssumption, FS_Subset DEF UaTypes
  <2> QED  BY <2>1, FS_Singleton DEF Single
<1>2. sent[s] \in Nat /\ MSGS \in Nat
  BY <1>1, UaNames DEF UaTypes
<1>3. sendPc[s] # "enqueue" => sendPc["main"] = "enqueue" /\ sent["main"] = 0
  BY <1>1, <1>2 DEF UaTurnInv
<1> QED  BY <1>1, <1>3, UaNames

\* Each in turn.
LEMMA UaTurnStep == UaTypes /\ UaTurnInv /\ [ActorNext]_uaVars => UaTurnInv'
<1> SUFFICES ASSUME UaTypes, UaTurnInv, [ActorNext]_uaVars PROVE UaTurnInv'
  OBVIOUS
<1> USE UaNames DEF UaTypes, UaTurnInv, ActorGo, ActorUnchanged
<1>1. CASE UNCHANGED <<senders, sent, sendPc>>
  BY <1>1
<1>2. ASSUME NEW t \in Posting, EnqueueLoad(t) PROVE UaTurnInv'
  <2>1. t # "main" => sent[t] < MSGS
    BY <1>2 DEF EnqueueLoad, MayPost
  <2>2. t = "main" => sent["main"] = 0 /\ \A s \in senders : sent[s] = MSGS
    BY <1>2 DEF EnqueueLoad, MayPost
  <2>3. /\ senders' = senders /\ sent' = sent
        /\ \A u \in Posting \ {t} : sendPc'[u] = sendPc[u]
    BY <1>2 DEF EnqueueLoad
  <2> QED  BY <2>1, <2>2, <2>3
<1>3. ASSUME NEW t \in Posting, EnqueueSlot(t) \/ EnqueueTail(t) PROVE UaTurnInv'
  BY <1>3 DEF EnqueueSlot, EnqueueTail
<1>4. ASSUME NEW t \in Posting, Signal(t) PROVE UaTurnInv'
  <2>1. /\ senders' = senders /\ sent'[t] = sent[t] + 1 /\ sendPc'[t] = "enqueue"
        /\ sendPc[t] # "enqueue"
        /\ \A u \in Posting \ {t} : sendPc'[u] = sendPc[u] /\ sent'[u] = sent[u]
    BY <1>4 DEF Signal
  <2>2. CASE t = "main"
    BY <2>1, <2>2
  <2>3. CASE t # "main"
    <3>1. t \in senders /\ sent[t] \in Nat /\ sent[t] < MSGS
      BY <2>1, <2>3
    <3>2. sent'[t] <= MSGS
      BY <2>1, <3>1
    <3>3. sendPc["main"] = "enqueue" /\ sent["main"] = 0
      BY <3>1
    <3> QED  BY <2>1, <2>3, <3>2, <3>3
  <2> QED  BY <2>2, <2>3
<1> QED  BY <1>1, <1>2, <1>3, <1>4, WhoMoves DEF actor_send_to, SendersUnchanged, uaVars

\* Once around the ring at most.
LEMMA Around ==
  ASSUME NEW M \in Nat \ {0}, NEW c \in 0 .. M + M - 1, NEW d, d = c % M
  PROVE  d = IF c < M THEN c ELSE c - M
  OBVIOUS

\* The places from f to t in a ring of M places, of which there are n.
Span(M, f, t, n) == n = IF t >= f THEN t - f ELSE M - f + t
NthPlace(M, f, k) == IF f + k - 1 < M THEN f + k - 1 ELSE f + k - 1 - M

\* The n places from f do not reach t.
LEMMA SpanIs ==
  ASSUME NEW M \in Nat \ {0}, NEW f \in 0 .. M - 1, NEW t \in 0 .. M - 1, NEW n, Span(M, f, t, n)
  PROVE  /\ n \in 0 .. M - 1 /\ NthPlace(M, f, n + 1) = t
         /\ \A k \in 1 .. n : /\ NthPlace(M, f, k) \in 0 .. M - 1 /\ NthPlace(M, f, k) # t
                              /\ NthPlace(M, f, k) = f <=> k = 1
  BY DEF Span, NthPlace

\* The place after a place, and the end of the queue after a step of either end.
NextTo(M, k) == IF k + 1 < M THEN k + 1 ELSE 0

\* A step of the end adds a place, and one of the front takes the first.
LEMMA SpanMoves ==
  ASSUME NEW M \in Nat \ {0}, NEW f \in 0 .. M - 1, NEW t \in 0 .. M - 1, NEW n, Span(M, f, t, n)
  PROVE  /\ NextTo(M, t) # f => Span(M, f, NextTo(M, t), n + 1)
         /\ f # t => /\ Span(M, NextTo(M, f), t, n - 1)
                     /\ \A k \in 1 .. n - 1 : NthPlace(M, NextTo(M, f), k) = NthPlace(M, f, k + 1)
         /\ NextTo(M, t) = f <=> n = M - 1
  BY DEF Span, NthPlace, NextTo

\* The places of the queue.
LEMMA PlacesAre ==
  ASSUME UaTypes
  PROVE  /\ Span(max_size, front, tail, queue_size) /\ max_size \in Nat \ {0}
         /\ front \in 0 .. max_size - 1 /\ tail \in 0 .. max_size - 1
         /\ \A k \in 1 .. queue_size + 1 : Place(k) = NthPlace(max_size, front, k)
         /\ (tail + 1) % max_size = NextTo(max_size, tail)
         /\ (front + 1) % max_size = NextTo(max_size, front)
<1>1. /\ max_size \in Nat \ {0} /\ front \in 0 .. max_size - 1 /\ tail \in 0 .. max_size - 1
  BY UaNames DEF UaTypes, UaPlaces
<1>2. Span(max_size, front, tail, queue_size)
  BY DEF Span, queue_size
<1> HIDE DEF queue_size, max_size
<1>3. queue_size \in 0 .. max_size - 1
  BY <1>1, <1>2, SpanIs
<1>4. ASSUME NEW k \in 1 .. queue_size + 1 PROVE Place(k) = NthPlace(max_size, front, k)
  <2>1. front + k - 1 \in 0 .. max_size + max_size - 1
    BY <1>1, <1>3
  <2>2. PICK c \in 0 .. max_size + max_size - 1 : c = front + k - 1
    BY <2>1
  <2>3. PICK d : d = c % max_size
    OBVIOUS
  <2>4. d = IF c < max_size THEN c ELSE c - max_size
    BY <1>1, <2>2, <2>3, Around
  <2>5. Place(k) = d
    BY <2>2, <2>3 DEF Place
  <2>6. NthPlace(max_size, front, k) = IF c < max_size THEN c ELSE c - max_size
    BY <1>1, <1>3, <2>2 DEF NthPlace
  <2> QED  BY <2>4, <2>5, <2>6
<1>5. ASSUME NEW k \in 0 .. max_size - 1 PROVE (k + 1) % max_size = NextTo(max_size, k)
  <2>1. k + 1 \in 0 .. max_size + max_size - 1
    BY <1>1
  <2>2. (k + 1) % max_size = IF k + 1 < max_size THEN k + 1 ELSE k + 1 - max_size
    BY <1>1, <2>1, Around
  <2> QED  BY <1>1, <2>2 DEF NextTo
<1> QED  BY <1>1, <1>2, <1>4, <1>5

\* The queue and where it begins and ends.
LEMMA QueueIs ==
  ASSUME UaTypes
  PROVE  /\ queue_size \in Nat /\ Place(queue_size + 1) = tail
         /\ queue_size = 0 <=> front = tail
         /\ \A k \in 1 .. queue_size : Place(k) \in UaPlaces /\ Place(k) # tail
                                       /\ (Place(k) = front <=> k = 1)
<1>1. /\ Span(max_size, front, tail, queue_size) /\ max_size \in Nat \ {0}
      /\ front \in 0 .. max_size - 1 /\ tail \in 0 .. max_size - 1
      /\ \A k \in 1 .. queue_size + 1 : Place(k) = NthPlace(max_size, front, k)
  BY PlacesAre
<1>2. queue_size = 0 <=> front = tail
  BY SizeIs DEF UaTypes
<1> HIDE DEF queue_size, max_size
<1>3. /\ queue_size \in 0 .. max_size - 1 /\ NthPlace(max_size, front, queue_size + 1) = tail
      /\ \A k \in 1 .. queue_size :
           /\ NthPlace(max_size, front, k) \in 0 .. max_size - 1
           /\ NthPlace(max_size, front, k) # tail
           /\ NthPlace(max_size, front, k) = front <=> k = 1
  BY <1>1, SpanIs
<1>4. queue_size + 1 \in 1 .. queue_size + 1 /\ \A k \in 1 .. queue_size : k \in 1 .. queue_size + 1
  BY <1>3
<1> QED  BY <1>1, <1>2, <1>3, <1>4 DEF UaPlaces

\* The queue as a sequence of messages.
LEMMA LineIs ==
  ASSUME UaTypes, UaLineInv
  PROVE  /\ Line \in Seq(Messages) /\ Len(Line) = queue_size
         /\ \A k \in 1 .. queue_size :
              Line[k] = IF k = 1 /\ Taking THEN data ELSE slots[Place(k)]
<1>1. queue_size \in Nat
  BY QueueIs
<1>2. \A k \in 1 .. queue_size : Line[k] = IF k = 1 /\ Taking THEN data ELSE slots[Place(k)]
  BY DEF Line
<1>3. \A k \in 1 .. queue_size : Line[k] \in Messages
  BY <1>2, QueueIs DEF UaLineInv, UaTypes
<1>4. Line = [k \in 1 .. queue_size |-> Line[k]]
  BY DEF Line
<1> HIDE DEF Line, queue_size
<1>5. Line \in Seq(Messages) /\ Len(Line) = queue_size
  BY <1>1, <1>3, <1>4
<1> QED  BY <1>2, <1>5

\* What Kept says is the same.
LEMMA KeptIs ==
  ASSUME UaTypes, UaLineInv
  PROVE  Kept = UaKept
<1>1. /\ queue_size \in Nat /\ (Taking => queue_size # 0)
  BY QueueIs DEF UaLineInv
<1>2. /\ Line \in Seq(Messages) /\ Len(Line) = queue_size
      /\ \A k \in 1 .. queue_size : Line[k] = IF k = 1 /\ Taking THEN data ELSE slots[Place(k)]
  BY LineIs
<1>3. CASE ~ Taking
  <2>1. Queued = Line
    BY <1>3 DEF Queued, Line, Place
  <2> QED  BY <1>3, <2>1 DEF Kept, UaKept, Seized, Taking
<1>4. CASE Taking
  <2> DEFINE S == Messages \cup {Null}
  <2>1. /\ Queued = [k \in 1 .. queue_size |-> slots[Place(k)]]
        /\ \A k \in 1 .. queue_size : slots[Place(k)] \in S
    BY QueueIs DEF Queued, Place, UaTypes
  <2> HIDE DEF Queued, queue_size, Line
  <2>2. /\ Queued \in Seq(S) /\ Len(Queued) = queue_size /\ Queued # <<>>
        /\ \A k \in 1 .. queue_size : Queued[k] = slots[Place(k)]
    BY <1>1, <1>4, <2>1
  <2> HIDE DEF S
  <2>3. /\ Tail(Queued) \in Seq(S) /\ Len(Tail(Queued)) = queue_size - 1
        /\ \A k \in 1 .. Len(Tail(Queued)) : Tail(Queued)[k] = Queued[k + 1]
    BY <2>2, HeadTailProperties
  <2>4. data \in S /\ Line \in Seq(S)
    BY <1>2 DEF UaTypes, S
  <2>5. <<data>> \o Tail(Queued) \in Seq(S)
    BY <2>3, <2>4
  <2>6. /\ Len(<<data>> \o Tail(Queued)) = queue_size
        /\ \A k \in 1 .. queue_size :
             (<<data>> \o Tail(Queued))[k] = IF k = 1 THEN data ELSE Tail(Queued)[k - 1]
    BY <1>1, <1>4, <2>3, <2>4
  <2>7. \A k \in 1 .. queue_size : (<<data>> \o Tail(Queued))[k] = Line[k]
    <3>1. ASSUME NEW k \in 1 .. queue_size, k # 1 PROVE Tail(Queued)[k - 1] = slots[Place(k)]
      <4>1. k - 1 \in 1 .. queue_size - 1 /\ (k - 1) + 1 = k
        BY <1>1, <3>1
      <4> QED  BY <2>2, <2>3, <4>1
    <3> QED  BY <1>2, <1>4, <2>6, <3>1
  <2>8. <<data>> \o Tail(Queued) = Line
    BY <1>2, <2>4, <2>5, <2>6, <2>7, SeqEqual
  <2>9. actorPc \in {"clear", "front"}
    BY <1>4 DEF Taking
  <2> QED  BY <2>8, <2>9 DEF Kept, UaKept, Seized
<1> QED  BY <1>3, <1>4

\* What has been posted, by numbers.
Put(t) == sent[t] + (IF sendPc[t] = "signal" THEN 1 ELSE 0)

\* The messages posted are those of lower numbers.
LEMMA PostedIs == UaTypes => Posted = {m \in Messages : m[2] < Put(m[1])}
<1> SUFFICES ASSUME UaTypes PROVE Posted = {m \in Messages : m[2] < Put(m[1])}
  OBVIOUS
<1>1. \A t \in Posting : Put(t) \in Nat
  BY DEF UaTypes, Put
<1>2. ASSUME NEW t \in Posting
      PROVE  ToSet(PostedBy(t)) = {<<t, k - 1>> : k \in 1 .. Put(t)}
  <2>1. PostedBy(t) = [k \in 1 .. Put(t) |-> <<t, k - 1>>]
    BY DEF PostedBy, Put
  <2>2. DOMAIN PostedBy(t) = 1 .. Put(t)
    BY <2>1
  <2> HIDE DEF PostedBy
  <2> QED  BY <2>1, <2>2 DEF ToSet
<1>3. ASSUME NEW m, m \in Posted PROVE m \in Messages /\ m[2] < Put(m[1])
  <2>1. PICK t \in Posting : m \in ToSet(PostedBy(t))
    BY <1>3 DEF Posted
  <2>2. PICK k \in 1 .. Put(t) : m = <<t, k - 1>>
    BY <1>2, <2>1
  <2>3. k - 1 \in Nat /\ k - 1 < Put(t)
    BY <1>1, <2>2
  <2>4. m[1] = t /\ m[2] = k - 1
    BY <2>2
  <2> QED  BY <2>2, <2>3, <2>4 DEF Messages
<1>4. ASSUME NEW m \in Messages, m[2] < Put(m[1]) PROVE m \in Posted
  <2>1. m = <<m[1], m[2]>> /\ m[1] \in Posting /\ m[2] \in Nat
    BY MessageIs
  <2>2. m[2] + 1 \in 1 .. Put(m[1]) /\ (m[2] + 1) - 1 = m[2]
    BY <1>1, <1>4, <2>1
  <2>3. m \in {<<m[1], k - 1>> : k \in 1 .. Put(m[1])}
    BY <2>1, <2>2
  <2> QED  BY <1>2, <2>1, <2>3 DEF Posted
<1> QED  BY <1>3, <1>4

\* The elements of a sequence that grows, and their order.
LEMMA ElementsOf ==
  ASSUME NEW S, NEW q \in Seq(S)
  PROVE  ToSet(q) = {q[j] : j \in 1 .. Len(q)}
  BY DEF ToSet

\* One element more than before.
LEMMA OneMoreElement ==
  ASSUME NEW S, NEW q \in Seq(S), NEW e \in S
  PROVE  ToSet(Append(q, e)) = ToSet(q) \cup {e}
<1>1. /\ Append(q, e) \in Seq(S) /\ Len(Append(q, e)) = Len(q) + 1 /\ Len(q) \in Nat
      /\ Append(q, e)[Len(q) + 1] = e /\ \A j \in 1 .. Len(q) : Append(q, e)[j] = q[j]
      /\ \A j \in 1 .. Len(Append(q, e)) : j \in 1 .. Len(q) \/ j = Len(q) + 1
  BY Grows
<1>2. ToSet(Append(q, e)) = {Append(q, e)[j] : j \in 1 .. Len(Append(q, e))}
  BY <1>1, ElementsOf
<1>3. ToSet(q) = {q[j] : j \in 1 .. Len(q)}
  BY ElementsOf
<1>4. \A j \in 1 .. Len(q) : j \in 1 .. Len(Append(q, e))
  BY <1>1
<1>5. Len(q) + 1 \in 1 .. Len(Append(q, e))
  BY <1>1
<1> QED  BY <1>1, <1>2, <1>3, <1>4, <1>5

\* Where none of what the last section of the invariant is about changes, it stands.
LEMMA KeptStands ==
  ASSUME UaTypes, UaTypes', UaLineInv, UaLineInv', UaKeptInv, Seized' = Seized, Line' = Line,
         senders' = senders, \A t \in Posting : Put(t)' = Put(t), dropped' = dropped
  PROVE  UaKeptInv'
<1>1. Posting' = Posting /\ Messages' = Messages
  BY DEF Posting, Messages
<1>2. Posted' = Posted
  <2>1. Posted = {m \in Messages : m[2] < Put(m[1])}
    BY PostedIs
  <2>2. (Posted = {m \in Messages : m[2] < Put(m[1])})'
    <3>1. UaTypes'
      OBVIOUS
    <3> QED  BY <3>1, PostedIs, PTL
  <2>3. \A m \in Messages : m[1] \in Posting
    BY MessageIs
  <2> QED  BY <1>1, <2>1, <2>2, <2>3
<1> QED  BY <1>2 DEF UaKeptInv, UaKept, Before

\* Where the ends of the queue and what is in it stand.
LEMMA LineStands ==
  ASSUME front' = front, tail' = tail,
         \A k \in 1 .. queue_size :
           (IF k = 1 /\ Taking' THEN data' ELSE slots'[Place(k)])
             = (IF k = 1 /\ Taking THEN data ELSE slots[Place(k)])
  PROVE  Line' = Line /\ queue_size' = queue_size /\ (queue_is_full' <=> queue_is_full)
<1>1. queue_size' = queue_size /\ max_size' = max_size
  BY DEF queue_size, max_size
<1>2. \A k \in 1 .. queue_size : Place(k)' = Place(k)
  BY <1>1 DEF Place
<1>3. Line' = [k \in 1 .. queue_size |-> IF k = 1 /\ Taking' THEN data' ELSE slots'[Place(k)]]
  BY <1>1, <1>2 DEF Line
<1>4. Line' = Line
  BY <1>3 DEF Line
<1> QED  BY <1>1, <1>4 DEF queue_is_full

\* One more message is posted, behind all the others.
LEMMA OneMorePosted ==
  ASSUME UaTypes, UaTypes', UaTurnInv, Single, NEW t \in Posting, senders' = senders,
         MayPost(t) \/ sendPc[t] # "enqueue", sendPc[t] # "signal",
         Put(t)' = Put(t) + 1, \A u \in Posting \ {t} : Put(u)' = Put(u)
  PROVE  /\ Message(t) \in Messages \ Posted /\ Posted' = Posted \cup {Message(t)}
         /\ \A m \in Posted : Before(m, Message(t))
<1>1. Posting' = Posting /\ Messages' = Messages
  BY DEF Posting, Messages
<1>2. Put(t) = sent[t] /\ sent[t] \in Nat
  BY DEF UaTypes, Put
<1>3. /\ Message(t) \in Messages /\ Message(t) = <<t, sent[t]>>
      /\ Message(t)[1] = t /\ Message(t)[2] = sent[t]
  BY MessageIs DEF Message
<1>4. Posted = {m \in Messages : m[2] < Put(m[1])}
  BY PostedIs
<1>5. (Posted = {m \in Messages : m[2] < Put(m[1])})'
  <2>1. UaTypes'
    OBVIOUS
  <2> QED  BY <2>1, PostedIs, PTL
<1>6. \A m \in Messages : m[1] \in Posting /\ m[2] \in Nat /\ m = <<m[1], m[2]>>
  BY MessageIs
<1>7. Message(t) \notin Posted
  BY <1>2, <1>3, <1>4
<1>8. ASSUME NEW m \in Messages
      PROVE  m[2] < Put(m[1])' <=> m[2] < Put(m[1]) \/ m = Message(t)
  <2>1. CASE m[1] # t
    <3>1. m[1] \in Posting \ {t}
      BY <1>6, <2>1
    <3> QED  BY <1>3, <2>1, <3>1
  <2>2. CASE m[1] = t
    <3>1. m[2] < sent[t] + 1 <=> m[2] < sent[t] \/ m[2] = sent[t]
      BY <1>2, <1>6
    <3>2. m = Message(t) <=> m[2] = sent[t]
      BY <1>3, <1>6, <2>2
    <3> QED  BY <1>2, <2>2, <3>1, <3>2
  <2> QED  BY <2>1, <2>2
<1>9. Posted' = Posted \cup {Message(t)}
  BY <1>1, <1>3, <1>4, <1>5, <1>8
<1>10. ASSUME NEW m \in Posted PROVE Before(m, Message(t))
  <2>1. m \in Messages /\ m[2] < Put(m[1])
    BY <1>4
  <2>2. CASE m[1] = t
    BY <1>2, <1>3, <2>1, <2>2 DEF Before
  <2>3. CASE t = "main" /\ m[1] # t
    BY <1>3, <2>3 DEF Before
  <2>4. CASE t # "main" /\ m[1] # t
    <3>1. t \in senders /\ sent[t] < MSGS /\ MSGS \in Nat
      BY <2>4, UaNames DEF UaTurnInv, MayPost
    <3>2. sendPc["main"] = "enqueue" /\ sent["main"] = 0
      BY <1>2, <3>1 DEF UaTurnInv
    <3>3. Put("main") = 0
      BY <3>2 DEF Put
    <3>4. m[1] # "main"
      BY <1>6, <2>1, <3>3
    <3>5. m[1] \in senders /\ m[1] # t
      BY <1>6, <2>1, <2>4, <3>4, UaNames
    <3>6. PICK s : senders = {s}
      <4>1. IsFiniteSet(senders)
        BY UnlockedAssumption, FS_Subset DEF UaTypes
      <4> QED  BY <4>1, FS_Singleton DEF Single
    <3> QED  BY <3>1, <3>5, <3>6
  <2> QED  BY <2>2, <2>3, <2>4
<1> QED  BY <1>3, <1>7, <1>9, <1>10

\* What is dropped at a full queue is posted, but not kept.
LEMMA DropSingle ==
  ASSUME UnlockedActorIInv, NEW t \in Posting, EnqueueLoad(t), UaTypes', Single, ~ Exited
  PROVE  UaStoreInv' /\ UaLineInv' /\ UaKeptInv'
<1> USE DEF UnlockedActorIInv, UaIInv
<1>0. UaStoreInv /\ UaLineInv /\ UaKeptInv
  BY DEF UaSingleInv
<1>1. /\ slots' = slots /\ front' = front /\ tail' = tail /\ data' = data /\ actorPc' = actorPc
      /\ Seized' = Seized /\ Taking' = Taking /\ senders' = senders /\ sent' = sent
  BY DEF EnqueueLoad, ActorUnchanged, Seized, Taking
<1>2. Line' = Line /\ queue_size' = queue_size /\ (queue_is_full' <=> queue_is_full)
  BY <1>1, LineStands
<1>3. UaLineInv'
  BY <1>0, <1>1, <1>2 DEF UaLineInv
<1>4. \A u \in Posting \ {t} : sendPc'[u] = sendPc[u] /\ at'[u] = at[u]
  BY DEF EnqueueLoad, ActorGo, UaTypes
<1>5. Posting' = Posting /\ \A u \in Posting : Message(u)' = Message(u)
  BY <1>1 DEF Posting, Message
<1>6. UaStoreInv'
  <2>1. /\ sendPc'[t] \in {"slot", "signal"}
        /\ sendPc'[t] = "slot" => at'[t] = tail /\ ~ queue_is_full
    BY DEF EnqueueLoad, ActorGo, UaTypes
  <2> QED  BY <1>0, <1>1, <1>2, <1>4, <1>5, <2>1 DEF UaStoreInv
<1>7. UaKeptInv'
  <2>1. CASE ~ queue_is_full
    <3>1. dropped' = dropped /\ sendPc'[t] = "slot" /\ sendPc[t] = "enqueue"
      BY <2>1 DEF EnqueueLoad, ActorGo, UaTypes
    <3>2. \A u \in Posting : Put(u)' = Put(u)
      BY <1>1, <1>4, <3>1 DEF Put
    <3> QED  BY <1>0, <1>1, <1>2, <1>3, <3>1, <3>2, KeptStands
  <2>2. CASE queue_is_full
    <3>1. /\ dropped' = Append(dropped, Message(t)) /\ sendPc'[t] = "signal"
          /\ sendPc[t] = "enqueue" /\ MayPost(t)
      BY <2>2 DEF EnqueueLoad, ActorGo, UaTypes
    <3>2. Put(t)' = Put(t) + 1 /\ \A u \in Posting \ {t} : Put(u)' = Put(u)
      BY <1>1, <1>4, <3>1 DEF Put, UaTypes
    <3>3. /\ Message(t) \in Messages \ Posted /\ Posted' = Posted \cup {Message(t)}
      BY <1>1, <3>1, <3>2, OneMorePosted
    <3>4. ToSet(dropped') = ToSet(dropped) \cup {Message(t)}
      BY <3>1, <3>3, OneMoreElement DEF UaTypes
    <3>5. UaKept' = UaKept
      BY <1>1, <1>2 DEF UaKept
    <3> QED  BY <1>0, <3>3, <3>4, <3>5 DEF UaKeptInv, Before
  <2> QED  BY <2>1, <2>2
<1> QED  BY <1>3, <1>6, <1>7

\* What is stored at tail is not yet in the queue.
LEMMA SlotSingle ==
  ASSUME UnlockedActorIInv, NEW t \in Posting, EnqueueSlot(t), UaTypes', Single, ~ Exited
  PROVE  UaStoreInv' /\ UaLineInv' /\ UaKeptInv'
<1> USE DEF UnlockedActorIInv, UaIInv
<1>0. UaStoreInv /\ UaLineInv /\ UaKeptInv
  BY DEF UaSingleInv
<1>1. /\ front' = front /\ tail' = tail /\ data' = data /\ actorPc' = actorPc
      /\ Seized' = Seized /\ Taking' = Taking /\ senders' = senders /\ sent' = sent
      /\ dropped' = dropped /\ sendPc[t] = "slot"
  BY DEF EnqueueSlot, ActorUnchanged, Seized, Taking
<1>2. at[t] = tail /\ ~ queue_is_full /\ tail \in UaPlaces
  BY <1>0, <1>1 DEF UaStoreInv, UaTypes
<1>3. /\ slots'[tail] = Message(t) /\ \A k \in UaPlaces : k # tail => slots'[k] = slots[k]
      /\ at'[t] = tail
  BY <1>2 DEF EnqueueSlot, UaTypes
<1>4. Line' = Line /\ queue_size' = queue_size /\ (queue_is_full' <=> queue_is_full)
  <2>1. \A k \in 1 .. queue_size : slots'[Place(k)] = slots[Place(k)]
    BY <1>3, QueueIs
  <2> QED  BY <1>1, <2>1, LineStands
<1>5. UaLineInv'
  <2>1. actorPc = "clear" => slots'[front] = slots[front]
    BY <1>0, <1>3 DEF UaLineInv, Taking, UaTypes
  <2> QED  BY <1>0, <1>1, <1>4, <2>1 DEF UaLineInv
<1>6. \A u \in Posting \ {t} : sendPc'[u] = sendPc[u] /\ sendPc[u] = "enqueue"
  BY <1>1, OneAtATime DEF EnqueueSlot, ActorGo, UaTypes
<1>7. sendPc'[t] = "tail"
  BY DEF EnqueueSlot, ActorGo, UaTypes
<1>8. Posting' = Posting /\ Message(t)' = Message(t)
  BY <1>1 DEF Posting, Message
<1>9. UaStoreInv'
  BY <1>1, <1>2, <1>3, <1>4, <1>6, <1>7, <1>8 DEF UaStoreInv
<1>10. \A u \in Posting : Put(u)' = Put(u)
  BY <1>1, <1>6, <1>7 DEF Put
<1>11. UaKeptInv'
  BY <1>0, <1>1, <1>4, <1>5, <1>10, KeptStands
<1> QED  BY <1>5, <1>9, <1>11

\* When tail moves, the message is at the end of the queue.
LEMMA TailSingle ==
  ASSUME UnlockedActorIInv, NEW t \in Posting, EnqueueTail(t), UaTypes', Single, ~ Exited
  PROVE  UaStoreInv' /\ UaLineInv' /\ UaKeptInv'
<1> USE DEF UnlockedActorIInv, UaIInv
<1>0. UaStoreInv /\ UaLineInv /\ UaKeptInv
  BY DEF UaSingleInv
<1>1. /\ front' = front /\ slots' = slots /\ data' = data /\ actorPc' = actorPc
      /\ Seized' = Seized /\ Taking' = Taking /\ senders' = senders /\ sent' = sent
      /\ dropped' = dropped /\ sendPc[t] = "tail" /\ at' = at
  BY DEF EnqueueTail, ActorUnchanged, Seized, Taking
<1>2. at[t] = tail /\ ~ queue_is_full /\ tail \in UaPlaces /\ slots[tail] = Message(t)
  BY <1>0, <1>1 DEF UaStoreInv, UaTypes
<1>3. \A u \in Posting \ {t} : sendPc'[u] = sendPc[u] /\ sendPc[u] = "enqueue"
  BY <1>1, OneAtATime DEF EnqueueTail, ActorGo, UaTypes
<1>4. sendPc'[t] = "signal"
  BY DEF EnqueueTail, ActorGo, UaTypes
<1>5. UaStoreInv'
  BY <1>1, <1>3, <1>4 DEF UaStoreInv, Posting
<1>6. tail' = (tail + 1) % max_size /\ tail' # front /\ max_size' = max_size
  BY <1>2 DEF EnqueueTail, queue_is_full, max_size
<1>7. /\ queue_size' = queue_size + 1 /\ queue_size \in Nat
      /\ \A k \in 1 .. queue_size : Place(k) \in UaPlaces
      /\ Place(queue_size + 1) = tail
  <2>1. /\ Span(max_size, front, tail, queue_size) /\ max_size \in Nat \ {0}
        /\ front \in 0 .. max_size - 1 /\ tail \in 0 .. max_size - 1
        /\ tail' = NextTo(max_size, tail)
    BY <1>6, PlacesAre
  <2>2. Span(max_size, front, NextTo(max_size, tail), queue_size + 1)
    BY <1>6, <2>1, SpanMoves
  <2>3. queue_size' = IF tail' >= front THEN tail' - front ELSE max_size - front + tail'
    BY <1>1, <1>6 DEF queue_size
  <2>4. queue_size' = queue_size + 1
    BY <2>1, <2>2, <2>3 DEF Span
  <2> QED  BY <2>4, QueueIs
<1>8. Message(t) \in Messages /\ Message(t) # Null
  BY MessageIs
<1>9. /\ Line \in Seq(Messages) /\ Len(Line) = queue_size
      /\ \A k \in 1 .. queue_size :
           Line[k] = IF k = 1 /\ Taking THEN data ELSE slots[Place(k)]
  BY <1>0, LineIs
<1>10. Line' = [k \in 1 .. queue_size + 1 |-> IF k = 1 /\ Taking THEN data ELSE slots[Place(k)]]
  <2>1. \A k \in 1 .. queue_size + 1 : Place(k)' = Place(k)
    BY <1>1, <1>6 DEF Place
  <2> QED  BY <1>1, <1>7, <2>1 DEF Line
<1>11. Taking => queue_size # 0
  BY <1>0, QueueIs DEF UaLineInv
<1>12. Line' = Append(Line, Message(t))
  <2>1. /\ Append(Line, Message(t)) \in Seq(Messages)
        /\ Len(Append(Line, Message(t))) = queue_size + 1
        /\ Append(Line, Message(t))[queue_size + 1] = Message(t)
        /\ \A k \in 1 .. queue_size : Append(Line, Message(t))[k] = Line[k]
    BY <1>8, <1>9, Grows
  <2> HIDE DEF Line, queue_size
  <2>2. PICK q : q = Append(Line, Message(t))
    OBVIOUS
  <2>3. q \in Seq(Messages) /\ Len(q) = queue_size + 1
    BY <2>1, <2>2
  <2>4. q = [k \in 1 .. queue_size + 1 |-> q[k]]
    BY <1>7, <2>3
  <2>5. ASSUME NEW k \in 1 .. queue_size + 1
        PROVE  q[k] = IF k = 1 /\ Taking THEN data ELSE slots[Place(k)]
    <3>1. CASE k = queue_size + 1
      <4>1. ~ (k = 1 /\ Taking)
        BY <1>7, <1>11, <3>1
      <4> QED  BY <1>2, <1>7, <2>1, <2>2, <3>1, <4>1
    <3>2. CASE k # queue_size + 1
      <4>1. k \in 1 .. queue_size
        BY <1>7, <3>2
      <4> QED  BY <1>9, <2>1, <2>2, <4>1
    <3> QED  BY <3>1, <3>2
  <2> QED  BY <1>10, <2>2, <2>4, <2>5
<1>13. UaLineInv'
  <2>1. \A k \in 1 .. queue_size' : Line'[k] # Null
    <3>1. \A k \in 1 .. queue_size' : k \in 1 .. queue_size \/ k = queue_size + 1
      BY <1>7
    <3>2. \A k \in 1 .. queue_size : Line'[k] = Line[k]
      BY <1>8, <1>9, <1>12, Grows
    <3>3. Line'[queue_size + 1] = Message(t)
      BY <1>8, <1>9, <1>12, Grows
    <3> QED  BY <1>0, <1>8, <3>1, <3>2, <3>3 DEF UaLineInv
  <2> QED  BY <1>0, <1>1, <1>6, <2>1 DEF UaLineInv
<1>14. UaKeptInv'
  <2>1. Put(t)' = Put(t) + 1 /\ \A u \in Posting \ {t} : Put(u)' = Put(u)
    BY <1>1, <1>3, <1>4 DEF Put, UaTypes
  <2>2. /\ Posted' = Posted \cup {Message(t)} /\ \A m \in Posted : Before(m, Message(t))
    BY <1>1, <2>1, OneMorePosted
  <2>3. Seized \in Seq(Messages) /\ UaKept \in Seq(Messages)
    BY <1>9, SeizedIs DEF UaKept
  <2>4. UaKept' = Append(UaKept, Message(t))
    BY <1>1, <1>8, <1>9, <1>12, <2>3, AppendAssociative DEF UaKept
  <2>5. ToSet(UaKept') = ToSet(UaKept) \cup {Message(t)}
    BY <1>8, <2>3, <2>4, OneMoreElement
  <2>6. Message(t) \notin ToSet(dropped)
    <3>1. NotGone(Message(t), Seized, dropped)
      BY <1>2, <1>8 DEF OnceInv
    <3>2. ToSet(dropped) = {dropped[j] : j \in 1 .. Len(dropped)}
      BY ElementsOf DEF UaTypes
    <3> QED  BY <3>1, <3>2 DEF NotGone
  <2>7. ToSet(UaKept') = Posted' \ ToSet(dropped')
    BY <1>0, <1>1, <2>2, <2>5, <2>6 DEF UaKeptInv
  <2>8. /\ UaKept'[Len(UaKept) + 1] = Message(t) /\ Len(UaKept) \in Nat
        /\ \A j \in 1 .. Len(UaKept) : UaKept'[j] = UaKept[j] /\ UaKept[j] \in ToSet(UaKept)
        /\ Len(UaKept') = Len(UaKept) + 1
    <3>1. \A j \in 1 .. Len(UaKept) : UaKept[j] \in ToSet(UaKept)
      BY <2>3, ElementsOf
    <3> QED  BY <1>8, <2>3, <2>4, <3>1, Grows
  <2>9. ASSUME NEW j \in 1 .. Len(UaKept'), NEW k \in 1 .. Len(UaKept'), j < k
        PROVE  Before(UaKept'[j], UaKept'[k])
    <3>1. j \in 1 .. Len(UaKept)
      BY <2>8, <2>9
    <3>2. CASE k \in 1 .. Len(UaKept)
      BY <1>0, <2>8, <2>9, <3>1, <3>2 DEF UaKeptInv
    <3>3. CASE k = Len(UaKept) + 1
      <4>1. UaKept[j] \in Posted
        BY <1>0, <2>8, <3>1 DEF UaKeptInv
      <4> QED  BY <2>2, <2>8, <3>1, <3>3, <4>1
    <3> QED  BY <2>8, <3>2, <3>3
  <2> QED  BY <2>7, <2>9 DEF UaKeptInv, Before
<1> QED  BY <1>5, <1>13, <1>14

\* The signal changes nothing of this.
LEMMA SignalSingle ==
  ASSUME UnlockedActorIInv, NEW t \in Posting, Signal(t), UaTypes', Single, ~ Exited
  PROVE  UaStoreInv' /\ UaLineInv' /\ UaKeptInv'
<1> USE DEF UnlockedActorIInv, UaIInv
<1>0. UaStoreInv /\ UaLineInv /\ UaKeptInv
  BY DEF UaSingleInv
<1>1. /\ front' = front /\ tail' = tail /\ slots' = slots /\ data' = data /\ actorPc' = actorPc
      /\ Seized' = Seized /\ Taking' = Taking /\ senders' = senders /\ dropped' = dropped
      /\ at' = at /\ sendPc[t] = "signal"
  BY DEF Signal, ActorUnchanged, Seized, Taking
<1>2. Line' = Line /\ queue_size' = queue_size
  BY <1>1, LineStands
<1>3. UaLineInv'
  BY <1>0, <1>1, <1>2 DEF UaLineInv
<1>4. \A u \in Posting \ {t} : sendPc'[u] = sendPc[u] /\ sent'[u] = sent[u]
                              /\ sendPc[u] = "enqueue"
  BY <1>1, OneAtATime DEF Signal, ActorGo, UaTypes
<1>5. sendPc'[t] = "enqueue" /\ sent'[t] = sent[t] + 1 /\ sent[t] \in Nat
  BY DEF Signal, ActorGo, UaTypes
<1>6. UaStoreInv'
  BY <1>1, <1>4, <1>5 DEF UaStoreInv, Posting
<1>7. \A u \in Posting : Put(u)' = Put(u)
  BY <1>1, <1>4, <1>5 DEF Put
<1>8. UaKeptInv'
  BY <1>0, <1>1, <1>2, <1>3, <1>7, KeptStands
<1> QED  BY <1>3, <1>6, <1>8

\* What the actor does beside the queue.
LEMMA BesideSingle ==
  ASSUME UnlockedActorIInv, SendersUnchanged, Single, ~ Exited, UaTypes',
         front' = front, slots' = slots, data' = data, Seized' = Seized,
         actorPc' = actorPc \/ (~ Taking /\ ~ Taking')
  PROVE  UaStoreInv' /\ UaLineInv' /\ UaKeptInv'
<1> USE DEF UnlockedActorIInv, UaIInv
<1>0. UaStoreInv /\ UaLineInv /\ UaKeptInv
  BY DEF UaSingleInv
<1>1. /\ tail' = tail /\ senders' = senders /\ sendPc' = sendPc /\ sent' = sent /\ at' = at
      /\ dropped' = dropped
  BY DEF SendersUnchanged
<1>2. (Taking' <=> Taking) /\ (actorPc' = "clear" => actorPc = "clear")
  BY DEF Taking
<1>3. Line' = Line /\ queue_size' = queue_size /\ (queue_is_full' <=> queue_is_full)
  BY <1>1, <1>2, LineStands
<1>4. UaLineInv'
  BY <1>0, <1>1, <1>2, <1>3 DEF UaLineInv
<1>5. UaStoreInv'
  BY <1>0, <1>1, <1>3 DEF UaStoreInv, Posting, Message
<1>6. UaKeptInv'
  BY <1>0, <1>1, <1>3, <1>4, KeptStands DEF Put
<1> QED  BY <1>4, <1>5, <1>6

\* It takes the first message of the queue ...
LEMMA TakeSingle ==
  ASSUME UnlockedActorIInv, SendersUnchanged, Take, Single, ~ Exited, UaTypes'
  PROVE  UaStoreInv' /\ UaLineInv' /\ UaKeptInv'
<1> USE DEF UnlockedActorIInv, UaIInv
<1>0. UaStoreInv /\ UaLineInv /\ UaKeptInv
  BY DEF UaSingleInv
<1>1. /\ tail' = tail /\ senders' = senders /\ sendPc' = sendPc /\ sent' = sent /\ at' = at
      /\ dropped' = dropped /\ front' = front /\ slots' = slots /\ Seized' = Seized
      /\ ~ Taking
  BY DEF SendersUnchanged, Take, Seized, Taking
<1>2. CASE front = tail
  BY <1>1, <1>2, BesideSingle DEF Take, Taking
<1>3. CASE front # tail
  <2>1. data' = slots[front] /\ actorPc' = "clear" /\ Taking'
    BY <1>3 DEF Take, Taking
  <2>2. Line' = Line /\ queue_size' = queue_size /\ (queue_is_full' <=> queue_is_full)
    <3>1. \A k \in 1 .. queue_size : k = 1 => Place(k) = front
      BY QueueIs
    <3> QED  BY <1>1, <2>1, <3>1, LineStands
  <2>3. UaLineInv'
    BY <1>0, <1>1, <1>3, <2>1, <2>2 DEF UaLineInv
  <2>4. UaStoreInv'
    BY <1>0, <1>1, <2>2 DEF UaStoreInv, Posting, Message
  <2>5. UaKeptInv'
    BY <1>0, <1>1, <2>2, <2>3, KeptStands DEF Put
  <2> QED  BY <2>3, <2>4, <2>5
<1> QED  BY <1>2, <1>3

\* ... clears its slot ...
LEMMA ClearSingle ==
  ASSUME UnlockedActorIInv, SendersUnchanged, Clear, Single, ~ Exited, UaTypes'
  PROVE  UaStoreInv' /\ UaLineInv' /\ UaKeptInv'
<1> USE DEF UnlockedActorIInv, UaIInv
<1>0. UaStoreInv /\ UaLineInv /\ UaKeptInv
  BY DEF UaSingleInv
<1>1. /\ tail' = tail /\ senders' = senders /\ sendPc' = sendPc /\ sent' = sent /\ at' = at
      /\ dropped' = dropped /\ front' = front /\ data' = data /\ Seized' = Seized
      /\ Taking /\ Taking' /\ actorPc' = "front"
  BY DEF SendersUnchanged, Clear, Seized, Taking
<1>2. /\ \A k \in UaPlaces : k # front => slots'[k] = slots[k]
      /\ front # tail /\ tail \in UaPlaces
  BY <1>0, <1>1 DEF UaLineInv, Clear, UaTypes
<1>3. Line' = Line /\ queue_size' = queue_size /\ (queue_is_full' <=> queue_is_full)
  <2>1. \A k \in 1 .. queue_size : k # 1 => slots'[Place(k)] = slots[Place(k)]
    BY <1>2, QueueIs
  <2> QED  BY <1>1, <2>1, LineStands
<1>4. UaLineInv'
  BY <1>0, <1>1, <1>2, <1>3 DEF UaLineInv
<1>5. UaStoreInv'
  BY <1>0, <1>1, <1>2, <1>3 DEF UaStoreInv, Posting, Message
<1>6. UaKeptInv'
  BY <1>0, <1>1, <1>3, <1>4, KeptStands DEF Put
<1> QED  BY <1>4, <1>5, <1>6

\* ... and moves front past it: what was the first of the queue is the last that is seized.
LEMMA MoveFrontSingle ==
  ASSUME UnlockedActorIInv, SendersUnchanged, MoveFront, Single, ~ Exited, ~ Exited', UaTypes'
  PROVE  UaStoreInv' /\ UaLineInv' /\ UaKeptInv'
<1> USE DEF UnlockedActorIInv, UaIInv
<1>0. UaStoreInv /\ UaLineInv /\ UaKeptInv
  BY DEF UaSingleInv
<1>1. /\ tail' = tail /\ senders' = senders /\ sendPc' = sendPc /\ sent' = sent /\ at' = at
      /\ dropped' = dropped /\ slots' = slots /\ front' = (front + 1) % max_size
      /\ Taking /\ max_size' = max_size
  BY DEF SendersUnchanged, MoveFront, Taking, max_size
<1>2. /\ Line \in Seq(Messages) /\ Len(Line) = queue_size /\ queue_size \in Nat
      /\ front # tail /\ queue_size # 0
      /\ \A k \in 1 .. queue_size : Line[k] = IF k = 1 /\ Taking THEN data ELSE slots[Place(k)]
  BY <1>0, <1>1, LineIs, QueueIs DEF UaLineInv
<1>3. Line[1] = data /\ data # Null /\ data \in Messages
  <2>1. 1 \in 1 .. queue_size
    BY <1>2
  <2> QED  BY <1>0, <1>1, <1>2, <2>1 DEF UaLineInv, UaTypes
<1>4. actorPc' = "take" /\ v' = Append(v, data) /\ counted' = counted /\ ~ Taking'
  BY <1>3 DEF MoveFront, Exited, Taking
<1>5. Seized' = Append(Seized, data) /\ Seized \in Seq(Messages)
  <2>1. v \in Seq(Messages) /\ counted \in Seq(Messages)
    BY DEF UaTypes
  <2> QED  BY <1>3, <1>4, <2>1, AppendAssociative, SeizedIs DEF Seized
<1>6. /\ queue_size' = queue_size - 1
      /\ \A k \in 1 .. queue_size - 1 : Place(k)' = Place(k + 1)
      /\ ~ queue_is_full'
  <2>1. /\ Span(max_size, front, tail, queue_size) /\ max_size \in Nat \ {0}
        /\ front \in 0 .. max_size - 1 /\ tail \in 0 .. max_size - 1
        /\ front' = NextTo(max_size, front) /\ (tail + 1) % max_size = NextTo(max_size, tail)
        /\ \A k \in 1 .. queue_size + 1 : Place(k) = NthPlace(max_size, front, k)
    BY <1>1, PlacesAre
  <2>2. front' \in 0 .. max_size - 1
    BY <2>1 DEF NextTo
  <2>3. /\ Span(max_size, front', tail, queue_size - 1)
        /\ \A k \in 1 .. queue_size - 1 :
             NthPlace(max_size, front', k) = NthPlace(max_size, front, k + 1)
    BY <1>2, <2>1, SpanMoves
  <2>4. queue_size' = IF tail >= front' THEN tail - front' ELSE max_size - front' + tail
    BY <1>1 DEF queue_size
  <2>5. queue_size' = queue_size - 1
    BY <2>3, <2>4 DEF Span
  <2>6. NextTo(max_size, tail) = front' <=> queue_size - 1 = max_size - 1
    BY <2>1, <2>2, <2>3, SpanMoves
  <2>7. queue_size \in 0 .. max_size - 1
    BY <2>1, SpanIs
  <2>8. ~ queue_is_full'
    BY <1>1, <2>1, <2>6, <2>7 DEF queue_is_full
  <2>9. (\A k \in 1 .. queue_size + 1 : Place(k) = NthPlace(max_size, front, k))'
    <3>1. UaTypes'
      OBVIOUS
    <3> QED  BY <3>1, PlacesAre, PTL
  <2> QED  BY <1>1, <1>2, <2>1, <2>3, <2>5, <2>8, <2>9
<1>7. \A k \in 1 .. queue_size - 1 : Line'[k] = Line[k + 1]
  <2>1. Line' = [k \in 1 .. queue_size - 1 |-> slots[Place(k + 1)]]
    BY <1>1, <1>4, <1>6 DEF Line
  <2>2. \A k \in 1 .. queue_size - 1 : k + 1 \in 1 .. queue_size /\ k + 1 # 1
    BY <1>2
  <2> QED  BY <1>2, <2>1, <2>2
<1>8. UaLineInv'
  <2>1. \A k \in 1 .. queue_size - 1 : k + 1 \in 1 .. queue_size
    BY <1>2
  <2> QED  BY <1>0, <1>4, <1>6, <1>7, <2>1 DEF UaLineInv
<1>9. UaStoreInv'
  BY <1>0, <1>1, <1>6 DEF UaStoreInv, Posting, Message
<1>10. Line' \in Seq(Messages) /\ Len(Line') = queue_size - 1
  <2>1. Messages' = Messages
    BY <1>1 DEF Messages, Posting
  <2>2. (UaTypes /\ UaLineInv => Line \in Seq(Messages) /\ Len(Line) = queue_size)'
    BY LineIs, PTL
  <2> QED  BY <1>6, <1>8, <2>1, <2>2
<1>11. UaKept' = UaKept
  <2>1. Append(Seized, data) = Seized \o <<data>> /\ <<data>> \in Seq(Messages)
    BY <1>3, <1>5, AppendIsConcat
  <2>2. Append(Seized, data) \o Line' = Seized \o (<<data>> \o Line')
    BY <1>5, <1>10, <2>1, ConcatAssociative
  <2>3. /\ <<data>> \o Line' \in Seq(Messages) /\ Len(<<data>> \o Line') = queue_size
        /\ \A k \in 1 .. queue_size :
             (<<data>> \o Line')[k] = IF k = 1 THEN data ELSE Line'[k - 1]
    BY <1>2, <1>3, <1>10
  <2>4. \A k \in 1 .. queue_size : (<<data>> \o Line')[k] = Line[k]
    <3>1. ASSUME NEW k \in 1 .. queue_size, k # 1 PROVE Line'[k - 1] = Line[k]
      <4>1. k - 1 \in 1 .. queue_size - 1 /\ (k - 1) + 1 = k
        BY <1>2, <3>1
      <4> QED  BY <1>7, <4>1
    <3> QED  BY <1>3, <2>3, <3>1
  <2>5. <<data>> \o Line' = Line
    BY <1>2, <2>3, <2>4, SeqEqual
  <2> QED  BY <1>5, <2>2, <2>5 DEF UaKept
<1>12. Posted' = Posted
  BY <1>1 DEF Posted, PostedBy, Posting
<1>13. UaKeptInv'
  BY <1>0, <1>1, <1>11, <1>12 DEF UaKeptInv, Before
<1> QED  BY <1>8, <1>9, <1>13

\* It starts with an empty queue.
LEMMA UnlockedActorInitInv == ActorInit => UnlockedActorIInv
<1> SUFFICES ASSUME ActorInit PROVE UnlockedActorIInv
  OBVIOUS
<1>1. UaIInv
  BY ActorInitInv
<1>2. UaTurnInv
  BY UaNames DEF ActorInit, UaTurnInv, Posting
<1>3. queue_size = 0 /\ ~ Taking /\ Line = <<>> /\ Seized = <<>>
  BY DEF ActorInit, queue_size, Taking, Line, Seized
<1>4. UaStoreInv /\ UaLineInv
  BY <1>3 DEF ActorInit, UaStoreInv, UaLineInv
<1>5. UaKeptInv
  <2>1. UaKept = <<>> /\ ToSet(UaKept) = {} /\ Len(UaKept) = 0
    BY <1>3 DEF UaKept, ToSet
  <2>2. Posted = {}
    <3>1. UaTypes
      BY <1>1 DEF UaIInv
    <3>2. \A t \in Posting : Put(t) = 0
      BY DEF ActorInit, Put
    <3> QED  BY <3>1, <3>2, PostedIs, MessageIs
  <2>3. ToSet(dropped) = {}
    BY DEF ActorInit, ToSet
  <2> QED  BY <2>1, <2>2, <2>3 DEF UaKeptInv
<1> QED  BY <1>1, <1>2, <1>4, <1>5 DEF UnlockedActorIInv, UaSingleInv

\* Every step of the actor without its lock preserves its inductive invariant.
LEMMA UnlockedActorStep == UnlockedActorIInv /\ [ActorNext]_uaVars => UnlockedActorIInv'
<1> SUFFICES ASSUME UnlockedActorIInv, [ActorNext]_uaVars PROVE UnlockedActorIInv'
  OBVIOUS
<1>1. UaIInv' /\ UaTurnInv' /\ UaTypes'
  BY OnceStep, UaTurnStep DEF UnlockedActorIInv, UaIInv
<1>2. senders' = senders
  BY WhoMoves DEF actor_send_to, EnqueueLoad, EnqueueSlot, EnqueueTail, Signal, ActorUnchanged,
                  SendersUnchanged, uaVars
<1>3. UaSingleInv'
  <2> SUFFICES ASSUME Single, ~ Exited' PROVE UaStoreInv' /\ UaLineInv' /\ UaKeptInv'
    BY <1>2 DEF UaSingleInv, Single
  <2>1. CASE UNCHANGED uaVars
    <3>1. ~ Exited
      BY <2>1 DEF Exited, uaVars
    <3>2. /\ SendersUnchanged /\ front' = front /\ slots' = slots /\ data' = data
          /\ Seized' = Seized /\ actorPc' = actorPc
      BY <2>1 DEF uaVars, SendersUnchanged, Seized
    <3> QED  BY <1>1, <3>1, <3>2, BesideSingle
  <2>2. CASE ~ UNCHANGED uaVars
    <3>1. ~ Exited
      BY <2>2 DEF ActorNext, ActorStopped, Exited
    <3>2. ASSUME NEW t \in Posting, actor_send_to(t)
          PROVE  UaStoreInv' /\ UaLineInv' /\ UaKeptInv'
      BY <1>1, <3>1, <3>2, DropSingle, SlotSingle, TailSingle, SignalSingle DEF actor_send_to
    <3>3. ASSUME SendersUnchanged, actor_runner \/ ActorSpuriousWakeup
          PROVE  UaStoreInv' /\ UaLineInv' /\ UaKeptInv'
      <4>1. CASE Take \/ Clear \/ MoveFront
        BY <1>1, <3>1, <3>3, <4>1, TakeSingle, ClearSingle, MoveFrontSingle
      <4>2. CASE Test \/ ActorWait \/ Awake \/ Size \/ Count \/ ActorSpuriousWakeup
        <5>1. /\ front' = front /\ slots' = slots /\ data' = data
              /\ actorPc' = actorPc \/ (~ Taking /\ ~ Taking')
          BY <4>2 DEF Test, ActorWait, Awake, Size, Count, ActorSpuriousWakeup, Taking
        <5>2. Seized' = Seized
          <6>1. ~ MoveFront
            BY <4>2, <5>1 DEF MoveFront, Test, ActorWait, Awake, Size, Count, ActorSpuriousWakeup
          <6> QED  BY <1>1, <3>3, <6>1, Seizes DEF UnlockedActorIInv, UaIInv
        <5> QED  BY <1>1, <3>1, <3>3, <5>1, <5>2, BesideSingle
      <4> QED  BY <3>3, <4>1, <4>2 DEF actor_runner
    <3> QED  BY <2>2, <3>2, <3>3, WhoMoves
  <2> QED  BY <2>1, <2>2
<1> QED  BY <1>1, <1>3 DEF UnlockedActorIInv

\* The inductive invariant is strong enough.
LEMMA UnlockedActorFollows == UnlockedActorIInv => UnlockedActorInv
<1> SUFFICES ASSUME UnlockedActorIInv PROVE UnlockedActorInv
  OBVIOUS
<1>1. ActorTypeOK /\ NothingIsMadeUp
  BY NothingMadeUp DEF UnlockedActorIInv
<1>2. OneSenderNeedsNoLock
  <2>1. SUFFICES ASSUME Cardinality(senders) = 1, ~ Exited
                 PROVE  /\ ToSet(Kept) = Posted \ ToSet(dropped)
                        /\ \A j, k \in 1 .. Len(Kept) : j < k => Before(Kept[j], Kept[k])
    BY DEF OneSenderNeedsNoLock
  <2>2. UaTypes /\ UaLineInv /\ UaKeptInv
    BY <2>1 DEF UnlockedActorIInv, UaIInv, UaSingleInv, Single
  <2> QED  BY <2>2, KeptIs DEF UaKeptInv
<1> QED  BY <1>1, <1>2 DEF UnlockedActorInv

\* Without the mutex: a queue with one sender keeps all that was posted and not dropped, once
\* and in order; with more of them messages get lost, but none is counted twice or made up
\* (queue_cyclic.c, filled by the senders and emptied by actor_runner()).
THEOREM OneSenderIsOrdered == ActorSpec => []UnlockedActorInv
<1> QED
  BY UnlockedActorInitInv, UnlockedActorStep, UnlockedActorFollows, PTL DEF ActorSpec

-----------------------------------------------------------------------------
(***************************************************************************)
(* The programs of MCRaces: one runs while the others stand still.         *)
(***************************************************************************)

RacesIInv == UdpIInv /\ ItemsIInv /\ UnlockedActorIInv /\ BareIInv /\ CameraIInv

\* Every program starts in its own initial state.
LEMMA RacesInitInv == RacesInit => RacesIInv
<1> QED
  BY UdpInitInv, ItemsInitInv, UnlockedActorInitInv, BareInitInv, CameraInitInv
  DEF RacesInit, RacesIInv

\* A program that does not run keeps its state.
LEMMA RacesStep == RacesIInv /\ [RacesNext]_allVars => RacesIInv'
<1> SUFFICES ASSUME RacesIInv, [RacesNext]_allVars PROVE RacesIInv'
  OBVIOUS
<1>1. [UdpNext]_udpVars /\ [ItemsNext]_itemVars /\ [ActorNext]_uaVars /\ [UnlockedNext]_mbVars
      /\ [CameraNext]_cameraVars
  BY DEF RacesNext, UdpRuns, ItemsRun, ActorRuns, BarriersRun, FramesRun, allVars
<1>2. UdpIInv' /\ ItemsIInv' /\ UnlockedActorIInv' /\ BareIInv'
  BY <1>1, UdpStep, ItemsStep, UnlockedActorStep, BareStep DEF RacesIInv
<1>3. CameraIInv'
  BY <1>1, CameraStep, CameraStutterInv DEF RacesIInv
<1> QED
  BY <1>2, <1>3 DEF RacesIInv

\* What is left without locks, in each of the programs.
THEOREM RacesAreSafe == RacesSpec => []RacesInv
<1>1. RacesIInv => RacesInv
  BY UdpFollows, ItemsFollow, UnlockedActorFollows, BareFollows DEF RacesIInv, RacesInv
<1> QED
  BY <1>1, RacesInitInv, RacesStep, PTL DEF RacesSpec

\* A frame is steady while it is sent, beside the other programs as alone.
THEOREM FramesAreSteadyHere == RacesSpec => FramesAreSteady
<1>1. RacesIInv => CameraInv
  BY CameraFollows DEF RacesIInv
<1>2. RacesIInv /\ [RacesNext]_allVars => [Sending # {} => devconfp' = devconfp]_cameraVars
  <2> SUFFICES ASSUME RacesIInv, [RacesNext]_allVars, ~UNCHANGED cameraVars
               PROVE  Sending # {} => devconfp' = devconfp
    OBVIOUS
  <2>1. [CameraNext]_cameraVars
    BY DEF RacesNext, UdpRuns, ItemsRun, ActorRuns, BarriersRun, FramesRun, allVars
  <2> QED
    BY <2>1, FrameStep DEF RacesIInv
<1> QED
  BY <1>1, <1>2, RacesInitInv, RacesStep, PTL DEF RacesSpec, FramesAreSteady, FrameIsSteady
=============================================================================
