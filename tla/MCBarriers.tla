----------------------------- MODULE MCBarriers -----------------------------
(***************************************************************************)
(* Programs whose threads go round together, for TLC: the table of         *)
(* philosophers.c, the thread barriers in hot_plate_barriers.c and the     *)
(* memory barriers in test-membarrier-shared.c.  The benchmark runs one    *)
(* program at a time: program says which, and the state of the others      *)
(* stays what it is.                                                       *)
(*                                                                         *)
(* The plate has seven rows, of which the first and the last are locked,   *)
(* and the weights of the code (4 for the row itself).  The memory barrier *)
(* test is run in all its modes, for three rounds.                         *)
(***************************************************************************)
EXTENDS Philosophers, HotPlate, Membarrier

VARIABLE program

Average(a, b, c) == a + 4 * b + c
MCFirstPlate     == [k \in Row |-> k * k]

ASSUME PlateAssumption /\ EveryRowIsSomebodys

BarriersInit ==
  /\ program \in {"philosophers.c", "hot_plate_barriers.c", "test-membarrier-shared.c"}
  /\ program # "test-membarrier-shared.c" => mode = "mb"
  /\ TableInit /\ Init /\ TestInit

\* Steps of one program.
TableRuns == program = "philosophers.c" /\ UNCHANGED <<program, vars, mbVars>>
PlateRuns == program = "hot_plate_barriers.c" /\ UNCHANGED <<program, tableVars, mbVars>>
TestRuns  == program = "test-membarrier-shared.c" /\ UNCHANGED <<program, tableVars, vars>>

allVars == <<program, tableVars, vars, mbVars>>

BarriersNext ==
  \/ TableRuns /\ TableNext
  \/ PlateRuns /\ Next
  \/ TestRuns /\ TestNext

\* The fairness of each module, for the one that is run.
BarriersSpec ==
  /\ BarriersInit /\ [][BarriersNext]_allVars
  /\ \A p \in Phil : WF_allVars(TableRuns /\ meal(p))
  /\ WF_allVars(PlateRuns /\ Running /\ main)
  /\ \A w \in Worker : WF_allVars(PlateRuns /\ Running /\ update_plate(w))
  /\ \A p \in {"parent", "child"} :
       /\ WF_allVars(TestRuns /\ mode' = mode /\ Loop(p))
       /\ WF_allVars(TestRuns /\ mode' = mode /\ Drain(p))

\* The safety of the three programs is stated in their own modules: TableInv, PlateInv and
\* MembarrierInv.

\* Everybody at the table of philosophers.c is fed.  Nobody is left behind in a barrier that
\* is used again: the other two programs come to their end, unless main() waits for ever in
\* the pthread_barrier_destroy() of hot_plate_barriers.c.
BarriersEnd ==
  /\ program = "philosophers.c" => EverybodyIsFed
  /\ program = "hot_plate_barriers.c" => MainReturnsOrHangs
  /\ program = "test-membarrier-shared.c" => BothEnd
=============================================================================
