------------------------------ MODULE MCLists ------------------------------
(***************************************************************************)
(* The linked lists for TLC.  The benchmark runs one program at a time:    *)
(* program says which, and the state of the others stays what it is.       *)
(*                                                                         *)
(* Three nodes for 02.c and zad_dom1.c, which malloc() hands out again     *)
(* after a free; two threads run three jobs of two users in                *)
(* assignment2question2.c; up to five nodes for 02_condition_modify.c; two *)
(* threads, two values and two operations of each in mutex_linked_list.c.  *)
(***************************************************************************)
EXTENDS CondStack, SemList, RacyLists

CONSTANTS p1, p2, c1, c2, v1, v2, w1, w2, u1, u2

VARIABLE program

allVars == <<program, vars, slVars, jobsVars, listVars, sortedVars>>

MCProducer == {p1, p2}
MCConsumer == {c1, c2}
MCPopper   == {p1, p2}
MCValue    == {v1, v2}

MCOperator == {w1, w2}
MCUser       == {u1, u2}
MCArrival    == {0, 2}
MCDuration   == {1, 3}

ListsInit ==
  /\ program \in {"02.c", "zad_dom1.c", "assignment2question2.c", "02_condition_modify.c",
                  "mutex_linked_list.c"}
  /\ program # "mutex_linked_list.c" => content = {1}
  /\ Init /\ SemInit /\ JobsInit /\ ModifiedInit /\ SortedInit

\* Steps of one program.
StackRuns ==
  program = "02.c" /\ UNCHANGED <<program, slVars, jobsVars, listVars, sortedVars>>
ZadDomRuns ==
  program = "zad_dom1.c" /\ UNCHANGED <<program, vars, jobsVars, listVars, sortedVars>>
JobsRun ==
  program = "assignment2question2.c" /\ UNCHANGED <<program, vars, slVars, listVars, sortedVars>>
ModifiedRuns ==
  program = "02_condition_modify.c" /\ UNCHANGED <<program, vars, slVars, jobsVars, sortedVars>>
SortedRuns ==
  program = "mutex_linked_list.c" /\ UNCHANGED <<program, vars, slVars, jobsVars, listVars>>

ListsNext ==
  \/ StackRuns /\ Next
  \/ ZadDomRuns /\ SemNext
  \/ JobsRun /\ JobsNext
  \/ ModifiedRuns /\ ModifiedNext
  \/ SortedRuns /\ SortedNext

\* The fairness of each module.  As program never changes, to be fair to one action
\* of each program together is to be fair to each of them.
Strong1 == (StackRuns /\ produce(p1)) \/ (ZadDomRuns /\ pushThread)
Strong2 ==
  \/ StackRuns /\ produce(p2)
  \/ ZadDomRuns /\ popThread(p1)
  \/ ModifiedRuns /\ th_consumer
Strong3 == (StackRuns /\ consume(c1)) \/ (ZadDomRuns /\ popThread(p2))
Strong4 == StackRuns /\ consume(c2)

ListsSpec ==
  /\ ListsInit /\ [][ListsNext]_allVars
  /\ SF_allVars(Strong1) /\ SF_allVars(Strong2) /\ SF_allVars(Strong3) /\ SF_allVars(Strong4)
  /\ <>[][program = "02.c" => ~ SpuriousWakeup]_vars
  /\ WF_allVars((JobsRun /\ Read) \/ (ModifiedRuns /\ th_producer))
  /\ WF_allVars(JobsRun /\ Join)
  /\ WF_allVars(JobsRun /\ summaryDisplay)
  /\ WF_allVars(JobsRun /\ jobDisplay(w1)) /\ WF_allVars(JobsRun /\ jobDisplay(w2))

\* Both lists are taken from when they have filled up, and so is that of
\* 02_condition_modify.c again and again, as long as no update of its count is lost; the
\* jobs come to their end.
ListsAreEmptied ==
  /\ program = "02.c" => NodesAreConsumed
  /\ program = "zad_dom1.c" => ElementsAreTaken
  /\ program = "assignment2question2.c" => MainEnds
  /\ program = "02_condition_modify.c" => TakesUnlessLost
=============================================================================
