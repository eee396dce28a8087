---------------------------- MODULE Philosophers ----------------------------
(***************************************************************************)
(* Fixed/NoBug2/philosophers.c: N philosophers around a table with N       *)
(* forks, one mutex each.  Everybody takes the left fork first, except     *)
(* philosopher 0, who takes the right one first; the left fork of          *)
(* philosopher 0 is the last.                                              *)
(*                                                                         *)
(* One round of the loop of main(): a round starts with new forks and ends *)
(* with every thread joined, so that rounds do not interact.               *)
(***************************************************************************)
EXTENDS Pthreads

CONSTANTS N, Hunger       \* what main() reads

ASSUME TableAssumption == N \in Nat \ {0} /\ Hunger \in Nat

Phil   == 0 .. N - 1
Fork   == 0 .. N - 1
Nobody == -1              \* owner of an unlocked mutex

VARIABLES f,                     \* the owner of each fork
          hungerOfPhylosophs,
          phPc

tableVars == <<f, hungerOfPhylosophs, phPc>>

TableInit ==
  /\ f = [k \in Fork |-> Nobody]
  /\ hungerOfPhylosophs = [p \in Phil |-> Hunger]
  /\ phPc = [p \in Phil |-> "thinking"]

TableGoto(p, label) == phPc' = [phPc EXCEPT ![p] = label]
-----------------------------------------------------------------------------
Left(p)  == IF p = 0 THEN N - 1 ELSE p - 1
Right(p) == p

\* BUG: philosopher 0 takes the left fork first, like everybody else.
BugFirst(p) == Left(p)

First(p)  == IF p = 0 THEN Right(p) ELSE Left(p)
Second(p) == IF First(p) = Left(p) THEN Right(p) ELSE Left(p)

Take(k, p) == f[k] = Nobody /\ f' = [f EXCEPT ![k] = p]
Put(k) == f' = [f EXCEPT ![k] = Nobody]
-----------------------------------------------------------------------------

\* meal(), call by call.
TakeFirst(p) ==
  /\ phPc[p] = "thinking" /\ hungerOfPhylosophs[p] > 0
  /\ Take(First(p), p)
  /\ TableGoto(p, "one_fork")
  /\ UNCHANGED hungerOfPhylosophs

TakeSecond(p) ==
  /\ phPc[p] = "one_fork"
  /\ Take(Second(p), p)
  /\ TableGoto(p, "two_forks")
  /\ UNCHANGED hungerOfPhylosophs

Eat(p) ==
  /\ phPc[p] = "two_forks"
  /\ hungerOfPhylosophs' = [hungerOfPhylosophs EXCEPT ![p] = @ - 1]
  /\ TableGoto(p, "eaten")
  /\ UNCHANGED f

PutLeft(p) ==
  /\ phPc[p] = "eaten"
  /\ Put(Left(p))
  /\ TableGoto(p, "right_fork")
  /\ UNCHANGED hungerOfPhylosophs

PutRight(p) ==
  /\ phPc[p] = "right_fork"
  /\ Put(Right(p))
  /\ TableGoto(p, "thinking")
  /\ UNCHANGED hungerOfPhylosophs

Finish(p) ==
  /\ phPc[p] = "thinking" /\ hungerOfPhylosophs[p] <= 0
  /\ TableGoto(p, "finished")
  /\ UNCHANGED <<f, hungerOfPhylosophs>>

meal(p) ==
  \/ TakeFirst(p) \/ TakeSecond(p) \/ Eat(p)
  \/ PutLeft(p) \/ PutRight(p) \/ Finish(p)

\* main() has joined every philosopher.
AllFinished == \A p \in Phil : phPc[p] = "finished"

TableTerminated == AllFinished /\ UNCHANGED tableVars

TableNext == (\E p \in Phil : meal(p)) \/ TableTerminated

TableSpec == TableInit /\ [][TableNext]_tableVars

\* A philosopher goes on when the next fork is free.  A neighbour takes the
\* fork finitely often, so weak fairness is enough.
TableFairSpec == TableSpec /\ \A p \in Phil : WF_tableVars(meal(p))
-----------------------------------------------------------------------------
TableTypeOK ==
  /\ f \in [Fork -> Phil \cup {Nobody}]
  /\ hungerOfPhylosophs \in [Phil -> 0 .. Hunger]
  /\ phPc \in [Phil -> {"thinking", "one_fork", "two_forks", "eaten", "right_fork", "finished"}]

\* The forks are the only thing that keeps neighbours apart: two that share a
\* fork do not eat at the same time.
Eating(p) == phPc[p] \in {"two_forks", "eaten"}

NeighboursDoNotEatTogether ==
  \A p, q \in Phil :
    p # q /\ {Left(p), Right(p)} \cap {Left(q), Right(q)} # {} => ~ (Eating(p) /\ Eating(q))

\* No group of philosophers waits in a circle: in every group somebody does
\* not wait for a fork that a member of the group owns.  This is what the
\* exception for philosopher 0 is for.
WaitsIn(p, S) ==
  \/ phPc[p] = "thinking" /\ hungerOfPhylosophs[p] > 0 /\ f[First(p)] \in S
  \/ phPc[p] = "one_fork" /\ f[Second(p)] \in S

NoCircularWait ==
  \A S \in (SUBSET Phil) \ {{}} : \E p \in S : ~ WaitsIn(p, S)

\* Everybody gets to eat as often as the hunger demands, and main() goes on.
EverybodyIsFed == <>(AllFinished /\ \A p \in Phil : hungerOfPhylosophs[p] = 0)

\* The safety of the table of philosophers.c: forks are not shared, and the order in
\* which they are taken rules out a circle.
TableInv == TableTypeOK /\ NeighboursDoNotEatTogether /\ NoCircularWait
=============================================================================
