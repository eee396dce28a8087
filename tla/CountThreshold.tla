--------------------------- MODULE CountThreshold ---------------------------
(***************************************************************************)
(* Four programs of one family: inc_count threads add one to a shared      *)
(* count, round by round, and announce the COUNT_LIMIT; watch_count waits  *)
(* for it.  They differ in when and how they announce and in what the      *)
(* watcher adds:                                                           *)
(*                                                                         *)
(*   cond_var         06_thread_cond_var.c        signal  at the limit     *)
(*                    +125 in the wait loop, after every wake-up           *)
(*   with_conditions  thread_with_conditions.c    signal  at the limit     *)
(*                    +125 after the loop                                  *)
(*   use_condition    11-14UseConditionVariable.c signal  from the limit   *)
(*                    adds nothing                                         *)
(*   six              6.c                         broadcast from the limit *)
(*                    +125 after the loop                                  *)
(*                                                                         *)
(* An update of count is a load and a store, as compiled, with the mutex   *)
(* held in between.                                                        *)
(***************************************************************************)
EXTENDS Pthreads, FiniteSets

CONSTANT RoundsWithConditions   \* of the adders of thread_with_conditions.c (a bound; 10)

Programs == {"cond_var", "with_conditions", "use_condition", "six"}
Bonus    == 125

\* The threads of inc_count, their rounds, and the limit.
Setting(adders, rounds, limit) ==
  [Adders |-> adders, TCOUNT |-> rounds, COUNT_LIMIT |-> limit]

Settings ==
  [cond_var        |-> Setting({"t2", "t3"}, 10, 12),
   with_conditions |-> Setting({"t2", "t3", "t4"}, RoundsWithConditions, 12),
   use_condition   |-> Setting({"t2", "t3"}, 5, 7),
   six             |-> Setting({"t2", "t3"}, 10, 12)]

\* The adders of thread_with_conditions.c do reach the limit.
ASSUME ThresholdAssumption == RoundsWithConditions \in Nat /\ 3 * RoundsWithConditions >= 12

VARIABLES version,        \* the one that is run
          count, mutex, cond,
          pc, ctI,        \* where each thread is; rounds done
          reg             \* count, as each thread loaded it

vars == <<version, count, mutex, cond, pc, ctI, reg>>

Adders      == Settings[version].Adders
TCOUNT      == Settings[version].TCOUNT
COUNT_LIMIT == Settings[version].COUNT_LIMIT
Thread      == Adders \cup {"watcher"}

Init ==
  /\ version \in Programs
  /\ count = 0 /\ mutex = NoThread /\ cond = {}
  /\ pc = [t \in Thread |-> IF t = "watcher" THEN "lock" ELSE "loop"]
  /\ ctI = [a \in Adders |-> 0]
  /\ reg = [t \in Thread |-> 0]

Goto(t, label) == pc' = [pc EXCEPT ![t] = label]
LoadCount(t) == reg' = [reg EXCEPT ![t] = count]
-----------------------------------------------------------------------------

EnterLoop(a) ==
  /\ pc[a] = "loop" /\ ctI[a] < TCOUNT
  /\ Lock(mutex, a)
  /\ LoadCount(a)
  /\ Goto(a, "store")
  /\ UNCHANGED <<version, count, cond, ctI>>

\* count++, the announcement if it is due, and the unlock.
StoreCount(a, due, announce) ==
  /\ pc[a] = "store"
  /\ count' = reg[a] + 1
  /\ IF due THEN announce ELSE cond' = cond
  /\ Unlock(mutex)
  /\ ctI' = [ctI EXCEPT ![a] = @ + 1]
  /\ Goto(a, "loop")
  /\ UNCHANGED <<version, reg>>

StoreCondVar(a) == StoreCount(a, count' = COUNT_LIMIT, CondSignal(cond))

\* BUG: above the limit only.
BugStoreWithConditions(a) == StoreCount(a, count' > COUNT_LIMIT, CondSignal(cond))
StoreWithConditions(a) == StoreCount(a, count' = COUNT_LIMIT, CondSignal(cond))

StoreUseCondition(a) == StoreCount(a, count' >= COUNT_LIMIT, CondSignal(cond))

\* BUG: the comparison turned round.
BugStoreSix(a) == StoreCount(a, count' < COUNT_LIMIT, CondBroadcast(cond))
StoreSix(a) == StoreCount(a, count' >= COUNT_LIMIT, CondBroadcast(cond))

Exit(a) ==
  /\ pc[a] = "loop" /\ ctI[a] = TCOUNT
  /\ Goto(a, "ended")
  /\ UNCHANGED <<version, count, mutex, cond, ctI, reg>>
-----------------------------------------------------------------------------
WatchLock ==
  /\ pc["watcher"] = "lock"
  /\ Lock(mutex, "watcher")
  /\ Goto("watcher", "test")
  /\ UNCHANGED <<version, count, cond, ctI, reg>>

\* The loop condition holds: go to sleep.
WatchWait ==
  /\ pc["watcher"] = "test" /\ count < COUNT_LIMIT
  /\ CondWait(cond, mutex, "watcher")
  /\ Goto("watcher", "wait")
  /\ UNCHANGED <<version, count, ctI, reg>>

WatchWake(next) ==
  /\ pc["watcher"] = "wait"
  /\ CondResume(cond, mutex, "watcher")
  /\ Goto("watcher", next)
  /\ UNCHANGED <<version, count, cond, ctI, reg>>

\* It does not: go on, with the mutex still held, or leave.
WatchPass ==
  /\ pc["watcher"] = "test" /\ count >= COUNT_LIMIT
  /\ Goto("watcher", "add")
  /\ UNCHANGED <<version, count, mutex, cond, ctI, reg>>

WatchLeave ==
  /\ pc["watcher"] = "test" /\ count >= COUNT_LIMIT
  /\ Unlock(mutex)
  /\ Goto("watcher", "ended")
  /\ UNCHANGED <<version, count, cond, ctI, reg>>

\* count += 125 in the loop ...
WatchLoad ==
  /\ pc["watcher"] = "add"
  /\ LoadCount("watcher")
  /\ Goto("watcher", "added")
  /\ UNCHANGED <<version, count, mutex, cond, ctI>>

WatchAdd ==
  /\ pc["watcher"] = "added"
  /\ count' = reg["watcher"] + Bonus
  /\ Goto("watcher", "test")
  /\ UNCHANGED <<version, mutex, cond, ctI, reg>>

\* ... or after it.
WatchAddAndLeave ==
  /\ pc["watcher"] = "added"
  /\ count' = reg["watcher"] + Bonus
  /\ Unlock(mutex)
  /\ Goto("watcher", "ended")
  /\ UNCHANGED <<version, cond, ctI, reg>>

WatchCondVar        == WatchWake("add")  \/ WatchLeave \/ WatchLoad \/ WatchAdd
WatchWithConditions == WatchWake("test") \/ WatchPass \/ WatchLoad \/ WatchAddAndLeave
WatchUseCondition   == WatchWake("test") \/ WatchLeave
WatchSix            == WatchWake("test") \/ WatchPass \/ WatchLoad \/ WatchAddAndLeave
-----------------------------------------------------------------------------
Add(a) ==
  \/ EnterLoop(a) \/ Exit(a)
  \/ version = "cond_var"        /\ StoreCondVar(a)
  \/ version = "with_conditions" /\ StoreWithConditions(a)
  \/ version = "use_condition"   /\ StoreUseCondition(a)
  \/ version = "six"             /\ StoreSix(a)

Watch ==
  \/ WatchLock \/ WatchWait
  \/ version = "cond_var"        /\ WatchCondVar
  \/ version = "with_conditions" /\ WatchWithConditions
  \/ version = "use_condition"   /\ WatchUseCondition
  \/ version = "six"             /\ WatchSix

SpuriousWakeup ==
  /\ Spurious(cond)
  /\ UNCHANGED <<version, count, mutex, pc, ctI, reg>>

AllEnded   == \A t \in Thread : pc[t] = "ended"
Terminated == AllEnded /\ UNCHANGED vars

Next == (\E a \in Adders : Add(a)) \/ Watch \/ SpuriousWakeup \/ Terminated

Spec == Init /\ [][Next]_vars

\* Each thread goes on when it can, and spurious wake-ups end eventually.  The
\* adders take the mutex finitely often, so weak fairness is enough.
Fairness ==
  /\ \A a \in UNION {Settings[p].Adders : p \in Programs} : WF_vars(a \in Adders /\ Add(a))
  /\ WF_vars(Watch)
  /\ <>[][~ SpuriousWakeup]_vars

FairSpec == Spec /\ Fairness
-----------------------------------------------------------------------------
TypeOK ==
  /\ version \in Programs
  /\ count \in 0 .. Cardinality(Adders) * TCOUNT + Bonus
  /\ mutex \in Thread \cup {NoThread} /\ cond \subseteq {"watcher"}
  /\ pc \in [Thread -> {"loop", "store", "lock", "test", "wait", "add", "added", "ended"}]
  /\ ctI \in [Adders -> 0 .. TCOUNT]
  /\ reg \in [Thread -> 0 .. Cardinality(Adders) * TCOUNT + Bonus]

\* The total main() prints: every increment counts once and so does the bonus,
\* which in 06_thread_cond_var.c is added only if the watcher slept.
FinalCount ==
  LET added == Cardinality(Adders) * TCOUNT
  IN  AllEnded => count \in CASE version = "cond_var" -> {added, added + Bonus}
                              [] version = "use_condition" -> {added}
                              [] OTHER -> {added + Bonus}

\* The announcement is never missed: nobody sleeps once the limit is reached,
\* even where only the increment that hits it exactly is announced.
NoSleepAtTheLimit == count >= COUNT_LIMIT => cond = {}

\* The watcher adds its bonus when the limit is reached, not before: true of
\* the programs that add it after the loop, not of 06_thread_cond_var.c.
BonusAtTheLimit ==
  [][version # "cond_var" /\ count' > count + 1 => count >= COUNT_LIMIT]_count

\* main() joins all threads and returns.
AllThreadsEnd == <>AllEnded

\* The safety of the four counting programs: no increment is lost and no watcher sleeps
\* when the limit has been reached and announced.
CountInv == TypeOK /\ FinalCount /\ NoSleepAtTheLimit

\* The progress of the four counting programs: every thread ends, and the watchers
\* that add their bonus after the loop have not added it before the limit.
CountsToTheEnd == BonusAtTheLimit /\ AllThreadsEnd
=============================================================================
