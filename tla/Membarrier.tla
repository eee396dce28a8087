----------------------------- MODULE Membarrier -----------------------------
(***************************************************************************)
(* Fixed/NoBug1/test-membarrier-shared.c: parent and child, on shared      *)
(* memory, each store to one variable and load the other; with paired      *)
(* memory barriers they must not both load 0.  The last to arrive in a     *)
(* round compares the two results and resets the variables.                *)
(*                                                                         *)
(* Stores go through a store buffer per process, first in, first out, as   *)
(* on x86: a memory barrier, an atomic operation and the operations on the *)
(* mutex wait until it is empty.  A compiler barrier does nothing here.    *)
(***************************************************************************)
EXTENDS Pthreads, Sequences

CONSTANT Rounds        \* 100000000 in both loops (a bound)

ASSUME RoundsAssumption == Rounds \in Nat \ {0}

Modes == {"mb", "membarrier", "compiler_barrier", "missing_register"}

Process  == {"parent", "child"}
Other(p) == IF p = "parent" THEN "child" ELSE "parent"
\* x is the variable of the parent, y that of the child
Mine(p)  == IF p = "parent" THEN "x" ELSE "y"

VARIABLES mode,             \* argv[1]
          mem,              \* x and y
          buffer,           \* the store buffer of each process
          ref, killed, lock,
          result,           \* r2 and r4, as compared
          ready,            \* r2_ready and r4_ready
          mbPc, i, seen          \* of each process; seen is its local r2 or r4

shared == <<mem, buffer, ref, killed, lock, result, ready>>
mbVars   == <<mode, shared, mbPc, i, seen>>

TestInit ==
  /\ mode \in Modes
  /\ mem = [v \in {"x", "y"} |-> 0]
  /\ buffer = [p \in Process |-> <<>>]
  /\ ref = 0 /\ killed = FALSE /\ lock = NoThread
  /\ result = [p \in Process |-> 0]
  /\ ready = [p \in Process |-> FALSE]
  /\ mbPc = [p \in Process |-> IF p = "child" THEN "register" ELSE "round"]
  /\ i = [p \in Process |-> 0]
  /\ seen = [p \in Process |-> 0]

TestGoto(p, label) == mbPc' = [mbPc EXCEPT ![p] = label]

Drained(p) == buffer[p] = <<>>

\* The oldest buffered store of p reaches the memory.
Drain(p) ==
  /\ ~ Drained(p)
  /\ LET s == Head(buffer[p]) IN mem' = [mem EXCEPT ![s[1]] = s[2]]
  /\ buffer' = [buffer EXCEPT ![p] = Tail(@)]
  /\ UNCHANGED <<ref, killed, lock, result, ready, mbPc, i, seen>>

\* A load sees the youngest store of the process itself, or the memory.
Loaded(p, v) ==
  LET own == {n \in DOMAIN buffer[p] : buffer[p][n][1] = v}
  IN  IF own = {} THEN mem[v] ELSE buffer[p][CHOOSE n \in own : \A k \in own : k <= n][2]

Abort(p) == killed' = TRUE /\ TestGoto(p, "aborted")
-----------------------------------------------------------------------------
\* `if (-ENOSYS)' holds always: what should be the answer of the system call
\* is the constant.
Register ==
  /\ mbPc["child"] = "register"
  /\ IF mode = "membarrier" THEN Abort("child")
                            ELSE TestGoto("child", "round") /\ killed' = killed
  /\ UNCHANGED <<mem, buffer, ref, lock, result, ready, i, seen>>

\* uatomic_inc(&ref), or the end of the loop.
Arrive(p) ==
  /\ mbPc[p] = "round" /\ Drained(p)
  /\ IF i[p] < Rounds THEN ref' = ref + 1 /\ TestGoto(p, "spin")
                      ELSE ref' = ref /\ TestGoto(p, "ended")
  /\ UNCHANGED <<mem, buffer, killed, lock, result, ready, i, seen>>

Spin(p) ==
  /\ mbPc[p] = "spin"
  /\ ref >= 2 * (i[p] + 1)
  /\ TestGoto(p, "store")
  /\ UNCHANGED <<shared, i, seen>>

\* BUG: the flag is not looked at.
BugSpinKilled(p) ==
  /\ mbPc[p] = "spin"
  /\ ref < 2 * (i[p] + 1) /\ killed
  /\ UNCHANGED mbVars

SpinKilled(p) ==
  /\ mbPc[p] = "spin"
  /\ ref < 2 * (i[p] + 1) /\ killed
  /\ TestGoto(p, "aborted")
  /\ UNCHANGED <<shared, i, seen>>

Store(p) ==
  /\ mbPc[p] = "store"
  /\ buffer' = [buffer EXCEPT ![p] = Append(@, <<Mine(p), 1>>)]
  /\ TestGoto(p, "fence")
  /\ UNCHANGED <<mem, ref, killed, lock, result, ready, i, seen>>

\* BUG: the barrier of the parent is a compiler barrier.
BugFence(p) ==
  /\ mbPc[p] = "fence"
  /\ (p = "child" /\ mode = "mb") => Drained(p)
  /\ TestGoto(p, "load")
  /\ UNCHANGED <<mem, buffer, ref, killed, lock, result, ready, i, seen>>

\* What stands between the store and the load.
Fence(p) ==
  /\ mbPc[p] = "fence"
  /\ mode = "mb" => Drained(p)
  /\ IF p = "parent" /\ mode \in {"membarrier", "missing_register"}
     THEN Abort(p)
     ELSE TestGoto(p, "load") /\ killed' = killed
  /\ UNCHANGED <<mem, buffer, ref, lock, result, ready, i, seen>>

Load(p) ==
  /\ mbPc[p] = "load"
  /\ seen' = [seen EXCEPT ![p] = Loaded(p, Mine(Other(p)))]
  /\ TestGoto(p, "check")
  /\ UNCHANGED <<shared, i>>
-----------------------------------------------------------------------------
\* check_parent_regs and check_child_regs.
Enter(p) ==
  /\ mbPc[p] = "check" /\ Drained(p)
  /\ Lock(lock, p)
  /\ TestGoto(p, "compare")
  /\ UNCHANGED <<mem, buffer, ref, killed, result, ready, i, seen>>

\* The first of a round leaves its result for the other.
LeaveResult(p) ==
  /\ mbPc[p] = "compare" /\ ~ ready[Other(p)]
  /\ result' = [result EXCEPT ![p] = seen[p]]
  /\ ready' = [ready EXCEPT ![p] = TRUE]
  /\ TestGoto(p, "leave")
  /\ UNCHANGED <<mem, buffer, ref, killed, lock, i, seen>>

\* The second compares; abort() leaves the mutex locked.
Alarm(p) ==
  /\ mbPc[p] = "compare" /\ ready[Other(p)]
  /\ seen[p] = 0 /\ result[Other(p)] = 0
  /\ Abort(p)
  /\ UNCHANGED <<mem, buffer, ref, lock, result, ready, i, seen>>

Reset(p) ==
  /\ mbPc[p] = "compare" /\ ready[Other(p)]
  /\ ~ (seen[p] = 0 /\ result[Other(p)] = 0)
  /\ ready' = [ready EXCEPT ![Other(p)] = FALSE]
  /\ buffer' = [buffer EXCEPT ![p] = @ \o <<<<"x", 0>>, <<"y", 0>>>>]
  /\ TestGoto(p, "leave")
  /\ UNCHANGED <<mem, ref, killed, lock, result, i, seen>>

Leave(p) ==
  /\ mbPc[p] = "leave" /\ Drained(p)
  /\ Unlock(lock)
  /\ i' = [i EXCEPT ![p] = @ + 1]
  /\ TestGoto(p, "round")
  /\ UNCHANGED <<mem, buffer, ref, killed, result, ready, seen>>
-----------------------------------------------------------------------------
Check(p) == Enter(p) \/ LeaveResult(p) \/ Alarm(p) \/ Reset(p) \/ Leave(p)

Loop(p) ==
  \/ (p = "child" /\ Register)
  \/ Arrive(p) \/ Spin(p) \/ SpinKilled(p) \/ Store(p) \/ Fence(p) \/ Load(p)
  \/ Check(p)

Over       == \A p \in Process : mbPc[p] \in {"ended", "aborted"}
TestTerminated == Over /\ (\A p \in Process : Drained(p)) /\ UNCHANGED mbVars

TestNext ==
  /\ mode' = mode
  /\ \/ \E p \in Process : Loop(p) \/ Drain(p)
     \/ TestTerminated

TestSpec == TestInit /\ [][TestNext]_mbVars

\* Processes go on, and stores reach the memory at some time.
TestFairSpec ==
  /\ TestSpec
  /\ \A p \in Process : WF_mbVars(mode' = mode /\ Loop(p)) /\ WF_mbVars(mode' = mode /\ Drain(p))
-----------------------------------------------------------------------------
TestTypeOK ==
  /\ mode \in Modes /\ mem \in [{"x", "y"} -> {0, 1}]
  /\ \A p \in Process : \A s \in {buffer[p][n] : n \in DOMAIN buffer[p]} :
       s \in {"x", "y"} \X {0, 1}
  /\ ref \in 0 .. 2 * Rounds /\ killed \in BOOLEAN
  /\ lock \in Process \cup {NoThread}
  /\ result \in [Process -> {0, 1}] /\ ready \in [Process -> BOOLEAN]
  /\ mbPc \in [Process -> {"register", "round", "spin", "store", "fence", "load", "check",
                         "compare", "leave", "ended", "aborted"}]
  /\ i \in [Process -> 0 .. Rounds] /\ seen \in [Process -> {0, 1}]

\* With -m the test raises no alarm: with barriers on both sides one of the two sees
\* the other's store, in every round, whatever the resets of the round before
\* were doing to the variables.
NoAlarm == mode = "mb" => ~ killed

\* The result a process compares its own with is that of the same round.
ResultsOfOneRound ==
  \A p \in Process :
    mbPc[p] = "compare" /\ ready[Other(p)] => i[Other(p)] = i[p] + 1
                                         /\ seen[Other(p)] = result[Other(p)]

\* No variable is reset when it already counts for the next round.
NoStoreIsWiped ==
  \A p \in Process : mbPc[p] \in {"fence", "load"} =>
    \A q \in Process : \A n \in DOMAIN buffer[q] : buffer[q][n] # <<Mine(p), 0>>

\* The processes do not leave each other behind: when one aborts, with or
\* without the mutex, the other one ends as well.
BothEnd == <>Over

\* The safety of the test: paired barriers exclude the outcome it aborts for, and what
\* it compares belongs to one round.
MembarrierInv == TestTypeOK /\ NoAlarm /\ ResultsOfOneRound /\ NoStoreIsWiped
-----------------------------------------------------------------------------

(***************************************************************************)
(* Faulty/ManyBugs/test-membarrier-shared.c: the test of Membarrier        *)
(* without its mutex.  r2, r4 and their flags are memory like x and y: the *)
(* stores go through the buffer, and the loads may come before those of    *)
(* the other process.  The rest of the test is that of Membarrier.  The    *)
(* build is taken to keep the stores of a process in the order of the      *)
(* source; what the processor does to them is in the model.                *)
(***************************************************************************)
Cells == {"x", "y", "r2", "r4", "r2_ready", "r4_ready"}

\* Where p leaves its result, and the flag that says so.
ResultOf(p) == IF p = "parent" THEN "r2" ELSE "r4"
ReadyOf(p)  == IF p = "parent" THEN "r2_ready" ELSE "r4_ready"

UnlockedInit ==
  /\ mode \in Modes /\ mem = [v \in Cells |-> 0] /\ buffer = [p \in Process |-> <<>>]
  /\ ref = 0 /\ killed = FALSE /\ lock = NoThread
  /\ result = [p \in Process |-> 0] /\ ready = [p \in Process |-> FALSE]
  /\ mbPc = [p \in Process |-> IF p = "child" THEN "register" ELSE "round"]
  /\ i = [p \in Process |-> 0] /\ seen = [p \in Process |-> 0]

Stores(p, writes) == buffer' = [buffer EXCEPT ![p] = @ \o writes]

\* check_parent_regs() and check_child_regs(): is the result of the other there?
TestReady(p) ==
  /\ mbPc[p] = "check"
  /\ IF Loaded(p, ReadyOf(Other(p))) = 1 THEN TestGoto(p, "compare") /\ UNCHANGED <<buffer, i>>
     ELSE /\ Stores(p, <<<<ResultOf(p), seen[p]>>, <<ReadyOf(p), 1>>>>)
          /\ i' = [i EXCEPT ![p] = @ + 1] /\ TestGoto(p, "round")
  /\ UNCHANGED <<mem, ref, killed, lock, result, ready, seen>>

CompareRegs(p) ==
  /\ mbPc[p] = "compare"
  /\ IF seen[p] = 0 /\ Loaded(p, ResultOf(Other(p))) = 0
       THEN Abort(p) /\ UNCHANGED <<buffer, i>>
       ELSE /\ Stores(p, <<<<ReadyOf(Other(p)), 0>>, <<"x", 0>>, <<"y", 0>>>>)
            /\ i' = [i EXCEPT ![p] = @ + 1] /\ TestGoto(p, "round") /\ UNCHANGED killed
  /\ UNCHANGED <<mem, ref, lock, result, ready, seen>>

check_regs(p) == TestReady(p) \/ CompareRegs(p)

UnlockedLoop(p) ==
  \/ (p = "child" /\ Register)
  \/ Arrive(p) \/ Spin(p) \/ SpinKilled(p) \/ Store(p) \/ Fence(p) \/ Load(p)
  \/ check_regs(p)

UnlockedNext ==
  /\ mode' = mode
  /\ \/ \E p \in Process : UnlockedLoop(p) \/ Drain(p)
     \/ TestTerminated

UnlockedSpec == UnlockedInit /\ [][UnlockedNext]_mbVars
-----------------------------------------------------------------------------
UnlockedTypeOK ==
  /\ mem \in [Cells -> {0, 1}] /\ i \in [Process -> 0 .. Rounds] /\ seen \in [Process -> {0, 1}]
  /\ ref \in 0 .. 2 * Rounds

\* Before the second round paired barriers need no mutex to exclude the outcome; and the
\* two are never more than a round apart.
FirstRoundIsSafe ==
  /\ mode = "mb" => \A p \in Process : mbPc[p] = "aborted" => i[p] > 0
  /\ \A p \in Process : i[p] <= i[Other(p)] + 1

\* The safety of the test without its mutex.
UnlockedMembarrierInv == UnlockedTypeOK /\ FirstRoundIsSafe
=============================================================================
