------------------------------ MODULE HotPlate ------------------------------
(***************************************************************************)
(* Fixed/NoBug1/hot_plate_barriers.c: nthreads workers relax the rows of a *)
(* plate between two barriers, which main() passes with them; main()       *)
(* copies the new plate over the previous one and decides whether to go    *)
(* on.  The workers loop for ever; main() destroys the barriers and frees  *)
(* the plates when the plate is steady, with the workers still in the      *)
(* first barrier or on the way to it: whether it comes back from there is  *)
(* undefined.  A worker that arrives later waits there.                    *)
(*                                                                         *)
(* A row is one value: its columns are updated together, by one thread,    *)
(* from rows of the previous plate only.  steady() answers either way, and *)
(* says steady after MaxIterations at the latest (a bound).  The mutexes   *)
(* critical_begin_end and runnable guard plate_args, which one worker      *)
(* reads and nobody writes after its creation: they are left out.          *)
(***************************************************************************)
EXTENDS Pthreads

CONSTANTS GRID_SIZE,        \* rows (16384)
          nthreads,         \* argv[1]
          Locked,           \* main_locked_cells, by row
          FirstPlate,       \* what initPlate writes
          Relax(_, _, _),   \* the assignment of update_plate
          MaxIterations

Row    == 0 .. GRID_SIZE - 1
Worker == 1 .. nthreads

PlateAssumption ==
  /\ GRID_SIZE \in Nat \ {0} /\ nthreads \in Nat \ {0}
  /\ {0, GRID_SIZE - 1} \subseteq Locked /\ Locked \subseteq Row
  /\ FirstPlate = [r \in Row |-> FirstPlate[r]]
  /\ MaxIterations \in Nat \ {0}

Main   == 0
Thread == Worker \cup {Main}

VARIABLES main_plate, main_prev_plate, freed,
          barrier_first, barrier_second,    \* who has arrived
          pc,
          row,              \* the loop over rows of each thread
          iterations

plates   == <<main_plate, main_prev_plate, freed>>
barriers == <<barrier_first, barrier_second>>
vars     == <<plates, barriers, pc, row, iterations>>

Init ==
  /\ main_plate = FirstPlate /\ main_prev_plate = FirstPlate /\ freed = FALSE
  /\ barrier_first = {} /\ barrier_second = {}
  /\ pc = [t \in Thread |-> IF t = Main THEN "create" ELSE "unborn"]
  /\ row = [t \in Thread |-> 0]
  /\ iterations = 0

Goto(t, label) == pc' = [pc EXCEPT ![t] = label]
-----------------------------------------------------------------------------
\* allocateWorkload: rows begin .. end - 1 of worker w.  The division
\* truncates: the last rows may belong to nobody.
Step     == GRID_SIZE \div nthreads
begin(w) == (w - 1) * Step

end(w)   == w * Step

\* What the program needs of argv[1], and does not ask for: the rows that belong to
\* nobody are locked ones.
EveryRowIsSomebodys ==
  \A r \in Row \ Locked : \E w \in Worker : r \in begin(w) .. end(w) - 1
-----------------------------------------------------------------------------
\* pthread_barrier_wait: arrive, and go on when everybody has.
ArriveFirst(t) ==
  /\ pc[t] = "first"
  /\ BarrierArrive(barrier_first, nthreads + 1, t)
  /\ Goto(t, "in_first")
  /\ UNCHANGED <<plates, barrier_second, row, iterations>>

LeaveFirst(t) ==
  /\ pc[t] = "in_first" /\ t \notin barrier_first
  /\ IF t = Main THEN Goto(t, "second") /\ row' = row
                 ELSE Goto(t, "update") /\ row' = [row EXCEPT ![t] = begin(t)]
  /\ UNCHANGED <<plates, barriers, iterations>>

ArriveSecond(t) ==
  /\ pc[t] = "second"
  /\ BarrierArrive(barrier_second, nthreads + 1, t)
  /\ Goto(t, "in_second")
  /\ UNCHANGED <<plates, barrier_first, row, iterations>>

\* BUG: main() does not wait for the second barrier.
BugLeaveSecond(t) ==
  /\ pc[t] = "in_second" /\ (t = Main \/ t \notin barrier_second)
  /\ IF t = Main THEN Goto(t, "copy") /\ row' = [row EXCEPT ![t] = 0]
                 ELSE Goto(t, "first") /\ row' = row
  /\ UNCHANGED <<plates, barriers, iterations>>

LeaveSecond(t) ==
  /\ pc[t] = "in_second" /\ t \notin barrier_second
  /\ IF t = Main THEN Goto(t, "copy") /\ row' = [row EXCEPT ![t] = 0]
                 ELSE Goto(t, "first") /\ row' = row
  /\ UNCHANGED <<plates, barriers, iterations>>
-----------------------------------------------------------------------------
\* BUG: a row is relaxed in place, from the plate that is being written.
BugUpdateRow(w) ==
  /\ pc[w] = "update" /\ row[w] < end(w)
  /\ IF row[w] \in Locked THEN main_plate' = main_plate
     ELSE main_plate' = [main_plate EXCEPT ![row[w]] =
            Relax(main_plate[row[w] - 1], @, main_plate[row[w] + 1])]
  /\ row' = [row EXCEPT ![w] = @ + 1]
  /\ UNCHANGED <<main_prev_plate, freed, barriers, pc, iterations>>

\* update_plate: one row of the share, then the second barrier.
UpdateRow(w) ==
  /\ pc[w] = "update" /\ row[w] < end(w)
  /\ IF row[w] \in Locked THEN main_plate' = main_plate
     ELSE main_plate' = [main_plate EXCEPT ![row[w]] =
            Relax(main_prev_plate[row[w] - 1], main_prev_plate[row[w]],
                  main_prev_plate[row[w] + 1])]
  /\ row' = [row EXCEPT ![w] = @ + 1]
  /\ UNCHANGED <<main_prev_plate, freed, barriers, pc, iterations>>

UpdateDone(w) ==
  /\ pc[w] = "update" /\ row[w] >= end(w)
  /\ Goto(w, "second")
  /\ UNCHANGED <<plates, barriers, row, iterations>>
-----------------------------------------------------------------------------
\* startUpdate: create the workers one by one ...
Create ==
  /\ pc[Main] = "create"
  /\ \E w \in Worker :
       /\ pc[w] = "unborn" /\ \A v \in 1 .. w - 1 : pc[v] # "unborn"
       /\ pc' = [pc EXCEPT ![w] = "first",
                           ![Main] = IF w = nthreads THEN "iterate" ELSE "create"]
  /\ UNCHANGED <<plates, barriers, row, iterations>>

\* ... and run the iterations.
Iterate ==
  /\ pc[Main] = "iterate"
  /\ iterations' = iterations + 1
  /\ Goto(Main, "first")
  /\ UNCHANGED <<plates, barriers, row>>

CopyRow ==
  /\ pc[Main] = "copy" /\ row[Main] < GRID_SIZE
  /\ main_prev_plate' = [main_prev_plate EXCEPT ![row[Main]] = main_plate[row[Main]]]
  /\ row' = [row EXCEPT ![Main] = @ + 1]
  /\ UNCHANGED <<main_plate, freed, barriers, pc, iterations>>

\* steady() looks at every row of main_plate and returns 1 to go on.
Steady ==
  /\ pc[Main] = "copy" /\ row[Main] = GRID_SIZE
  /\ \/ iterations < MaxIterations /\ Goto(Main, "iterate")
     \/ Goto(Main, "clean_up")
  /\ UNCHANGED <<plates, barriers, row, iterations>>

\* pthread_barrier_destroy() on the first barrier, in which workers may be waiting for
\* main(): undefined, and glibc waits until they have left, which is never.  On the
\* second one it waits at most for those that are on the way out.
DestroyBarriers ==
  /\ pc[Main] = "clean_up"
  /\ \/ Goto(Main, "free")
     \/ barrier_first # {} /\ Goto(Main, "hung")
  /\ UNCHANGED <<plates, barriers, row, iterations>>

\* main() frees the plates and returns.
CleanUp ==
  /\ pc[Main] = "free"
  /\ freed' = TRUE
  /\ Goto(Main, "returned")
  /\ UNCHANGED <<main_plate, main_prev_plate, barriers, row, iterations>>
-----------------------------------------------------------------------------
Barriers(t) == ArriveFirst(t) \/ LeaveFirst(t) \/ ArriveSecond(t) \/ LeaveSecond(t)

update_plate(w) == Barriers(w) \/ UpdateRow(w) \/ UpdateDone(w)

main == Barriers(Main) \/ Create \/ Iterate \/ CopyRow \/ Steady
                       \/ DestroyBarriers \/ CleanUp

\* Returning from main() ends the process, wherever the workers are.  If main() hangs
\* they come round to the first barrier, and nothing is left to do.
Running    == pc[Main] # "returned"
Hung       == pc[Main] = "hung" /\ barrier_first = Worker
Terminated == (~ Running \/ Hung) /\ UNCHANGED vars

Next == (Running /\ (main \/ \E w \in Worker : update_plate(w))) \/ Terminated

Spec == Init /\ [][Next]_vars

FairSpec == Spec /\ WF_vars(Running /\ main)
                 /\ \A w \in Worker : WF_vars(Running /\ update_plate(w))
-----------------------------------------------------------------------------
TypeOK ==
  /\ DOMAIN main_plate = Row /\ DOMAIN main_prev_plate = Row /\ freed \in BOOLEAN
  /\ barrier_first \subseteq Thread /\ barrier_second \subseteq Thread
  /\ pc \in [Thread -> {"unborn", "create", "iterate", "first", "in_first", "update",
                        "second", "in_second", "copy", "clean_up", "free", "hung", "returned"}]
  /\ row \in [Thread -> 0 .. GRID_SIZE]
  /\ iterations \in 0 .. MaxIterations

\* All threads together do what one synchronous iteration does: nobody reads a
\* row of the plate that is being copied or written, nobody skips a row, and
\* main() decides on a finished plate.  The new plate counts from the moment
\* main() is let out of the second barrier.
Abstract == INSTANCE SyncPlate WITH
              plate  <- IF pc[Main] = "copy" THEN main_plate ELSE main_prev_plate,
              steady <- pc[Main] \in {"clean_up", "free", "hung", "returned"}

IsSynchronous == Abstract!Spec

\* The workers are still there when main() frees the plates, but none of them
\* touches a plate any more: they can only be on the way to the first barrier.
NobodyUsesAFreedPlate == freed => \A w \in Worker : pc[w] # "update"

\* The iterations end if steady() ever says so: no thread is left behind in a
\* barrier that is used again before everybody has left it.  Then main() returns, unless
\* a worker is back in the first barrier, which main() destroys under it.
MainReturnsOrHangs ==
  <>(pc[Main] = "returned" \/ (pc[Main] = "hung" /\ barrier_first # {}))

\* The safety of the plates: no worker is in a plate that main() has freed.
PlateInv == TypeOK /\ NobodyUsesAFreedPlate
=============================================================================
