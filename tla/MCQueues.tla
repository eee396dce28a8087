------------------------------ MODULE MCQueues ------------------------------
(***************************************************************************)
(* The queues for TLC.  The benchmark runs one program at a time: program  *)
(* says which, and the state of the others stays what it is.               *)
(*                                                                         *)
(* In pth_pool.c four tasks make main() wait at a queue of two places, and *)
(* three workers are more than there is work for at times; the second      *)
(* schedule also takes the workers through their exit.  In queue_cyclic.c  *)
(* two senders of two messages overrun a queue of two places.  In pc_ocm.c *)
(* three rounds let the producer get ahead by more than one.  In           *)
(* 06test_pro_con.c two units and three rounds let either thread be first. *)
(***************************************************************************)
EXTENDS ThreadPool, ActorQueue, Overrun

CONSTANTS w1, w2, w3, s1, s2

MCWorker    == {w1, w2, w3}
MCSender    == {s1, s2}
MCSchedules == {<<1, 2, 3, 4>>, <<1, Stop, Stop, Stop>>}

VARIABLE program

allVars == <<program, vars, actorVars, ocmVars, proConVars>>

QueuesInit ==
  /\ program \in {"pth_pool.c", "queue_cyclic.c", "pc_ocm.c", "06test_pro_con.c"}
  /\ Init /\ ActorInit /\ OcmInit /\ ProConInit

\* Steps of one program.
PoolRuns   == program = "pth_pool.c" /\ UNCHANGED <<program, actorVars, ocmVars, proConVars>>
CyclicRuns == program = "queue_cyclic.c" /\ UNCHANGED <<program, vars, ocmVars, proConVars>>
OcmRuns    == program = "pc_ocm.c" /\ UNCHANGED <<program, vars, actorVars, proConVars>>
TestRuns   == program = "06test_pro_con.c" /\ UNCHANGED <<program, vars, actorVars, ocmVars>>

QueuesNext ==
  \/ PoolRuns /\ Next
  \/ CyclicRuns /\ ActorNext
  \/ OcmRuns /\ OcmNext
  \/ TestRuns /\ ProConNext

\* The fairness of each module, for the one that is run.
QueuesSpec ==
  /\ QueuesInit /\ [][QueuesNext]_allVars
  /\ WF_allVars(PoolRuns /\ Main)
  /\ \A w \in Worker : WF_allVars(PoolRuns /\ Work(w))
  /\ <>[][program = "pth_pool.c" => ~ SpuriousWakeup]_vars
  /\ WF_allVars(CyclicRuns /\ ActorMain)
  /\ WF_allVars(CyclicRuns /\ Actor)
  /\ \A s \in Sender : WF_allVars(CyclicRuns /\ (Post(s) \/ SenderEnds(s)))
  /\ <>[][program = "queue_cyclic.c" => ~ ActorSpuriousWakeup]_actorVars
  /\ WF_allVars(OcmRuns /\ producer)
  /\ WF_allVars((OcmRuns /\ consumer) \/ (TestRuns /\ con_handler))
  /\ SF_allVars(TestRuns /\ pro_handler)
  /\ WF_allVars(OcmRuns /\ queueDelete)

\* The safety of the four programs is stated in their own modules: PoolInv, ActorInv and
\* OverrunInv.

\* What is put into the queues gets through: the pool executes every task and ends if
\* it is told to; the actor ends and main() returns, unless the exit message found no
\* room; frames are processed in order and at most once, and pc_ocm.c ends unless one
\* has been overwritten; and 06test_pro_con.c eats everything while it has rounds.
QueuesDeliver ==
  /\ program = "pth_pool.c" => EveryTaskIsExecuted
  /\ program = "pth_pool.c" => PoolShutsDown
  /\ program = "queue_cyclic.c" => ActorIsFinalized
  /\ program = "pc_ocm.c" => EndsUnlessOverwritten
  /\ program = "06test_pro_con.c" => DataIsEaten
  /\ FramesInOrder
=============================================================================
