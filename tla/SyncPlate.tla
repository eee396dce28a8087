----------------------------- MODULE SyncPlate -----------------------------
(***************************************************************************)
(* What the threads of hot_plate_barriers.c promise together: a plate on   *)
(* which every row that is not locked is relaxed at once, from the rows of *)
(* the iteration before, until the plate is found steady.                  *)
(***************************************************************************)
EXTENDS Integers

CONSTANTS Row,            \* the rows
          Locked,         \* those that never change
          FirstPlate,     \* the plate at the start
          Relax(_, _, _)  \* a row from the one above, itself, the one below

VARIABLES plate, steady

Init == plate = FirstPlate /\ steady = FALSE

Relaxed ==
  [r \in Row |-> IF r \in Locked THEN plate[r]
                 ELSE Relax(plate[r - 1], plate[r], plate[r + 1])]

Iterate == ~ steady /\ plate' = Relaxed /\ steady' = steady
Stop    == ~ steady /\ steady' = TRUE /\ plate' = plate

Spec == Init /\ [][Iterate \/ Stop]_<<plate, steady>>
=============================================================================
