----------------------------- MODULE RacyLists ------------------------------
(***************************************************************************)
(* Three programs with linked lists. Two lock too little:                  *)
(* 02_condition_modify.c, which counts its nodes outside the lock, and     *)
(* mutex_linked_list.c, which never locks. The third,                      *)
(* assignment2question2.c, locks a list that no longer changes and the     *)
(* summary of it. Each has its own variables, Init, Next and properties; a *)
(* run moves one of them.                                                  *)
(***************************************************************************)
EXTENDS Pthreads, Sequences

(***************************************************************************)
(* 02_condition_modify.c: a producer links nodes to a list and counts them *)
(* in produced_num after it has unlocked; it signals when the count hits   *)
(* 3.  The consumer counts down under the mutex, waits when it finds no    *)
(* node, and does not look again when it wakes.                            *)
(*                                                                         *)
(* ++ and -- are a load and a store each.  Of the list only the number of  *)
(* nodes is kept.                                                          *)
(***************************************************************************)
CONSTANTS MaxListed        \* nodes in the list, and how far produced_num goes (a bound)

ASSUME ModifiedListAssumption == MaxListed \in Nat /\ MaxListed > 3

VARIABLES listed, produced_num, mlMutex, mlCond,
          mlPc, mlValue,    \* of both threads: where they are, and what they loaded
          lost,           \* an update of produced_num was lost
          spurious,       \* the consumer was woken by nothing
          late            \* ... or by a signal for nodes it had taken already

listVars == <<listed, produced_num, mlMutex, mlCond, mlPc, mlValue, lost, spurious, late>>

ModifiedInit ==
  /\ listed = 0 /\ produced_num = 0 /\ mlMutex = NoThread /\ mlCond = {}
  /\ mlPc = [producer |-> "malloc", consumer |-> "lock"]
  /\ mlValue = [producer |-> 0, consumer |-> 0] /\ lost = FALSE /\ spurious = FALSE /\ late = FALSE

ModifiedGo(t, place) == mlPc' = [mlPc EXCEPT ![t] = place]

LoadCount(t) == mlValue' = [mlValue EXCEPT ![t] = produced_num]

StoreCount(t, by) == produced_num' = mlValue[t] + by /\ lost' = (lost \/ produced_num # mlValue[t])

\* The node is linked under the mutex, in one step; then it is counted.
LinkNode ==
  /\ mlPc.producer = "malloc" /\ listed < MaxListed /\ mlMutex = NoThread
  /\ listed' = listed + 1 /\ ModifiedGo("producer", "load")
  /\ UNCHANGED <<produced_num, mlMutex, mlCond, mlValue, lost, spurious, late>>

ProducerLoad ==
  /\ mlPc.producer = "load" /\ produced_num < MaxListed
  /\ LoadCount("producer") /\ ModifiedGo("producer", "store")
  /\ UNCHANGED <<listed, produced_num, mlMutex, mlCond, lost, spurious, late>>

ProducerStore ==
  /\ mlPc.producer = "store" /\ StoreCount("producer", 1)
  /\ ModifiedGo("producer", IF mlValue.producer + 1 = 3 THEN "signal" ELSE "malloc")
  /\ UNCHANGED <<listed, mlMutex, mlCond, mlValue, spurious, late>>

Signal ==
  /\ mlPc.producer = "signal" /\ CondSignal(mlCond) /\ ModifiedGo("producer", "malloc")
  /\ late' = (late \/ (mlCond # {} /\ listed = 0))
  /\ UNCHANGED <<listed, produced_num, mlMutex, mlValue, lost, spurious>>

th_producer == LinkNode \/ ProducerLoad \/ ProducerStore \/ Signal

ConsumerLock ==
  /\ mlPc.consumer = "lock" /\ Lock(mlMutex, "consumer") /\ ModifiedGo("consumer", "if")
  /\ UNCHANGED <<listed, produced_num, mlCond, mlValue, lost, spurious, late>>

ConsumerWait ==
  /\ mlPc.consumer = "if" /\ listed = 0 /\ CondWait(mlCond, mlMutex, "consumer")
  /\ ModifiedGo("consumer", "wait")
  /\ UNCHANGED <<listed, produced_num, mlValue, lost, spurious, late>>

ConsumerResume ==
  /\ mlPc.consumer = "wait" /\ CondResume(mlCond, mlMutex, "consumer")
  /\ ModifiedGo("consumer", "take")
  /\ UNCHANGED <<listed, produced_num, mlCond, mlValue, lost, spurious, late>>

\* head->next of no node ends the program.
TakeNode ==
  /\ mlPc.consumer = "take" \/ (mlPc.consumer = "if" /\ listed > 0)
  /\ IF listed = 0 THEN ModifiedGo("consumer", "crashed") /\ UNCHANGED listed
                   ELSE ModifiedGo("consumer", "load") /\ listed' = listed - 1
  /\ UNCHANGED <<produced_num, mlMutex, mlCond, mlValue, lost, spurious, late>>

ConsumerLoad ==
  /\ mlPc.consumer = "load" /\ produced_num > -MaxListed
  /\ LoadCount("consumer") /\ ModifiedGo("consumer", "store")
  /\ UNCHANGED <<listed, produced_num, mlMutex, mlCond, lost, spurious, late>>

ConsumerStore ==
  /\ mlPc.consumer = "store" /\ StoreCount("consumer", -1)
  /\ Unlock(mlMutex) /\ ModifiedGo("consumer", "lock")
  /\ UNCHANGED <<listed, mlCond, mlValue, spurious, late>>

th_consumer ==
  \/ ConsumerLock \/ ConsumerWait \/ ConsumerResume \/ TakeNode \/ ConsumerLoad \/ ConsumerStore

ModifiedSpurious ==
  /\ Spurious(mlCond) /\ spurious' = TRUE
  /\ UNCHANGED <<listed, produced_num, mlMutex, mlPc, mlValue, lost, late>>

Crashed == mlPc.consumer = "crashed"

\* Nothing moves after a crash, or with the list or the count at their bounds.
Stopped ==
  /\ Crashed \/ listed = MaxListed \/ produced_num \in {MaxListed, -MaxListed}
  /\ UNCHANGED listVars

ModifiedNext == Stopped \/ (~Crashed /\ (th_producer \/ th_consumer \/ ModifiedSpurious))

ModifiedSpec ==
  /\ ModifiedInit /\ [][ModifiedNext]_listVars
  /\ WF_listVars(th_producer) /\ SF_listVars(th_consumer)
-----------------------------------------------------------------------------
ModifiedTypeOK ==
  /\ listed \in 0 .. MaxListed /\ produced_num \in -MaxListed .. MaxListed
  /\ mlMutex \in {"consumer", NoThread} /\ mlCond \subseteq {"consumer"}

\* While no update is lost the count is the number of nodes, but for the one that is
\* linked and not counted, or taken and not counted down.
CountFollows ==
  ~lost => produced_num = listed
             - (IF mlPc.producer \in {"load", "store"} THEN 1 ELSE 0)
             + (IF mlPc.consumer \in {"load", "store"} THEN 1 ELSE 0)

\* Then the consumer sleeps before fewer than three counted nodes, or its signal is on
\* its way.  It finds a node when it is woken, but for two causes.
SleepIsShort ==
  /\ ~lost /\ mlCond # {} => produced_num < 3 \/ mlPc.producer = "signal"
  /\ Crashed => spurious \/ late

\* The safety of 02_condition_modify.c.
ModifiedListInv == ModifiedTypeOK /\ CountFollows /\ SleepIsShort

\* As long as no update is lost the consumer takes nodes again and again.
TakesUnlessLost == []<>(mlPc.consumer = "load" \/ lost \/ Crashed)
-----------------------------------------------------------------------------

(***************************************************************************)
(* Faulty/ManyBugs/mutex_linked_list.c: threads look up, insert and delete *)
(* values in a sorted linked list; the mutex is initialised and never      *)
(* taken.  Every load and store of a pointer is a step.                    *)
(*                                                                         *)
(* Memory that is freed is not given out again here, so that a use of it   *)
(* can be seen; after one the program may do anything, and the model stops *)
(* to say what.  main() measures its loop again and again; one round is    *)
(* modelled.                                                               *)
(***************************************************************************)
CONSTANTS Operator,
          MaxValue,       \* values are 1 .. MaxValue (a bound; 65535)
          MaxOperations   \* operations of each thread (a bound)

ASSUME SortedListAssumption == {MaxValue, MaxOperations} \subseteq Nat

VARIABLES first,          \* *head
          nodes,           \* of each node allocated: its data and next
          released,       \* nodes given to free()
          opPc, op, opValue, opPrev, opCurr, temp, \* of each thread
          performed,      \* operations each has begun
          wild,           \* a freed node was used
          mixed,          \* two updates were under way at a time
          content         \* what is in the list if each update takes effect at once

sortedVars == <<first, nodes, released, opPc, op, opValue, opPrev, opCurr, temp, performed,
                wild, mixed, content>>

NoNode == 0

\* Populate_list(): the list has some values, in order.
SortedInit ==
  /\ \E S \in (SUBSET (1 .. MaxValue)) \ {{}} :
       /\ content = S /\ first = 1
       /\ nodes = LET rank(v) == Cardinality({w \in S : w <= v}) IN
                 [n \in 1 .. Cardinality(S) |->
                    [data |-> CHOOSE v \in S : rank(v) = n,
                     next |-> IF n = Cardinality(S) THEN NoNode ELSE n + 1]]
  /\ released = {} /\ opPc = [t \in Operator |-> "idle"] /\ op = [t \in Operator |-> "Member"]
  /\ opValue = [t \in Operator |-> 0] /\ opPrev = opValue /\ opCurr = opValue /\ temp = opValue
  /\ performed = opValue /\ wild = FALSE /\ mixed = FALSE

SortedGo(t, place) == opPc' = [opPc EXCEPT ![t] = place]

Touch(n) == wild' = (wild \/ n \in released)

Updating(t) == opPc[t] # "idle" /\ op[t] # "Member"

\* Thread_operation() calls one of the three with a random number; each loads *head.
Call(t) ==
  /\ opPc[t] = "idle" /\ performed[t] < MaxOperations /\ SortedGo(t, "walk")
  /\ \E o \in {"Member", "Insert", "Delete"}, v \in 1 .. MaxValue :
       /\ op' = [op EXCEPT ![t] = o] /\ opValue' = [opValue EXCEPT ![t] = v]
       /\ mixed' = (mixed \/ (o # "Member" /\ \E u \in Operator : Updating(u)))
  /\ opPrev' = [opPrev EXCEPT ![t] = NoNode] /\ opCurr' = [opCurr EXCEPT ![t] = first]
  /\ performed' = [performed EXCEPT ![t] = @ + 1]
  /\ UNCHANGED <<first, nodes, released, temp, wild, content>>

Data(t) == nodes[opCurr[t]].data

IsBefore(t) == opCurr[t] # NoNode /\ Data(t) < opValue[t]

WalkOn(t) ==
  /\ opPc[t] = "walk" /\ IsBefore(t) /\ Touch(opCurr[t])
  /\ opPrev' = [opPrev EXCEPT ![t] = opCurr[t]]
  /\ opCurr' = [opCurr EXCEPT ![t] = nodes[opCurr[t]].next]
  /\ UNCHANGED <<first, nodes, released, opPc, op, opValue, temp, performed, mixed, content>>

Finds(t) == opCurr[t] # NoNode /\ Data(t) = opValue[t]

\* What the three do where the search ends: nothing, a new node before curr, or the load
\* of the node after curr.
Arrive(t) ==
  /\ opPc[t] = "walk" /\ ~IsBefore(t) /\ Touch(opCurr[t])
  /\ \/ /\ op[t] = "Insert" /\ ~Finds(t) /\ SortedGo(t, "link")
        /\ nodes' = Append(nodes, [data |-> opValue[t], next |-> opCurr[t]])
        /\ temp' = [temp EXCEPT ![t] = Len(nodes')]
     \/ /\ op[t] = "Delete" /\ Finds(t) /\ SortedGo(t, "unlink")
        /\ temp' = [temp EXCEPT ![t] = nodes[opCurr[t]].next] /\ UNCHANGED nodes
     \/ /\ op[t] = "Member" \/ (op[t] = "Insert" <=> Finds(t))
        /\ SortedGo(t, "idle") /\ UNCHANGED <<nodes, temp>>
  /\ UNCHANGED <<first, released, op, opValue, opPrev, opCurr, performed, mixed, content>>

\* The store into *head or into the node before, of the new node or of the one after.
SetNext(t) ==
  /\ opPc[t] \in {"link", "unlink"} /\ Touch(opPrev[t])
  /\ IF opPrev[t] = NoNode THEN first' = temp[t] /\ UNCHANGED nodes
                       ELSE nodes' = [nodes EXCEPT ![opPrev[t]].next = temp[t]] /\ UNCHANGED first
  /\ content' = IF op[t] = "Insert" THEN content \cup {opValue[t]} ELSE content \ {opValue[t]}
  /\ SortedGo(t, IF op[t] = "Insert" THEN "idle" ELSE "free")
  /\ UNCHANGED <<released, op, opValue, opPrev, opCurr, temp, performed, mixed>>

FreeNode(t) ==
  /\ opPc[t] = "free" /\ Touch(opCurr[t])
  /\ released' = released \cup {opCurr[t]} /\ SortedGo(t, "idle")
  /\ UNCHANGED <<first, nodes, op, opValue, opPrev, opCurr, temp, performed, mixed, content>>

Thread_operation(t) == Call(t) \/ WalkOn(t) \/ Arrive(t) \/ SetNext(t) \/ FreeNode(t)

AllPerformed == \A t \in Operator : opPc[t] = "idle" /\ performed[t] = MaxOperations

SortedTerminated == (wild \/ AllPerformed) /\ UNCHANGED sortedVars

SortedNext == SortedTerminated \/ (~wild /\ \E t \in Operator : Thread_operation(t))

SortedSpec == SortedInit /\ [][SortedNext]_sortedVars
-----------------------------------------------------------------------------
SortedTypeOK ==
  /\ first \in 0 .. Len(nodes) /\ released \subseteq 1 .. Len(nodes)
  /\ \A n \in 1 .. Len(nodes) : nodes[n].next \in 0 .. Len(nodes)

\* The nodes of the list: the least set that the pointers from *head do not leave.
Closed(S) ==
  ({first} \cup {nodes[n].next : n \in S}) \ {NoNode} \subseteq S

InList ==
  {n \in 1 .. Len(nodes) : \A S \in SUBSET (1 .. Len(nodes)) : Closed(S) => n \in S}

\* However the threads race, the list stays sorted: updates are lost, and never bring it
\* out of order, until somebody uses a node that was freed.
ListStaysSorted ==
  ~wild => \A n \in InList : nodes[n].next # NoNode => nodes[n].data < nodes[nodes[n].next].data

\* Updates one at a time are all there, whoever looks on; and the list has no freed node.
UpdatesAreThere ==
  ~mixed /\ ~wild => /\ {nodes[n].data : n \in InList} = content
                     /\ InList \cap released = {}

\* Whoever deletes or inserts alone uses no freed node: only who looks up may.
OnlyReadersMeetFreed ==
  wild /\ ~mixed => \E t \in Operator : op[t] = "Member" /\ performed[t] > 0

\* The safety of mutex_linked_list.c.
SortedListInv == SortedTypeOK /\ ListStaysSorted /\ UpdatesAreThere /\ OnlyReadersMeetFreed
-----------------------------------------------------------------------------

(***************************************************************************)
(* Fixed/NoBug2/assignment2question2.c: main() reads jobs and inserts each *)
(* into a list by the time at which it would end; then n threads run the   *)
(* whole list, each in a time of its own, and enter into a summary, under  *)
(* m2, when the last job of each user has ended.                           *)
(*                                                                         *)
(* The list no longer changes when the threads run, so that m1, under      *)
(* which they read it, orders nothing and is left out.  tempDisplay is a   *)
(* global variable: it is the position that a search of the summary has    *)
(* come to, or 0, and of no use after the unlock.  A failing malloc() ends *)
(* the program and is left out.                                            *)
(***************************************************************************)
CONSTANTS Displayer,       \* the threads of jobDisplay
          Jobs,         \* 4
          User, Arrival, Duration      \* what may be read (a bound)

ASSUME JobAssumption ==
  Jobs \in Nat \ {0} /\ Arrival \subseteq Nat /\ Duration \subseteq Nat /\ NoThread \notin Displayer

Job == [user : User, arrival : Arrival, duration : Duration]

VARIABLES jobs,             \* the list
          summary,          \* from frontDisplay to rearDisplay
          tempDisplay, m2, main, jsPc,
          placeholder, myTime       \* of each thread: its position, and its time

shared == <<summary, tempDisplay, m2>>
jobsVars   == <<jobs, shared, main, jsPc, placeholder, myTime>>

JobsInit ==
  /\ jobs = <<>> /\ summary = <<>> /\ tempDisplay = 0 /\ m2 = NoThread /\ main = "read"
  /\ jsPc = [t \in Displayer |-> "job"] /\ placeholder = [t \in Displayer |-> 1]
  /\ myTime = [t \in Displayer |-> 0]

JobsGoto(t, label) == jsPc' = [jsPc EXCEPT ![t] = label]
-----------------------------------------------------------------------------
End(job) == job.arrival + job.duration

\* How many jobs of the list would end before this one.
Before(job) == Cardinality({k \in DOMAIN jobs : End(jobs[k]) < End(job)})

\* add, addafter and the append at the end: how many jobs come before the new one.
Place(job) == Before(job)

insert(job) ==
  jobs' = SubSeq(jobs, 1, Place(job)) \o <<job>> \o SubSeq(jobs, Place(job) + 1, Len(jobs))

IsLast == Len(jobs) = Jobs - 1

Read ==
  /\ main = "read" /\ \E job \in Job : insert(job)
  /\ main' = IF IsLast THEN "join" ELSE "read"
  /\ UNCHANGED <<shared, jsPc, placeholder, myTime>>

\* scanf finds less than a job.
ReadFails ==
  /\ main = "read" /\ main' = "ended"
  /\ UNCHANGED <<jobs, shared, jsPc, placeholder, myTime>>

Join ==
  /\ main = "join" /\ \A t \in Displayer : jsPc[t] = "ended"
  /\ main' = "summary"
  /\ UNCHANGED <<jobs, shared, jsPc, placeholder, myTime>>

summaryDisplay ==
  /\ main = "summary" /\ main' = "ended" /\ summary' = <<>> /\ tempDisplay' = 0
  /\ UNCHANGED <<jobs, m2, jsPc, placeholder, myTime>>
-----------------------------------------------------------------------------
Later(a, b) == IF a < b THEN b ELSE a

\* Wait for the job to arrive, and run it.
Run(t) ==
  /\ main = "join" /\ jsPc[t] = "job"
  /\ LET job == jobs[placeholder[t]] IN
       myTime' = [myTime EXCEPT ![t] = Later(@, job.arrival) + job.duration]
  /\ JobsGoto(t, "lock")
  /\ UNCHANGED <<jobs, shared, main, placeholder>>

\* BUG: without the mutex.
BugSummaryLock(t) ==
  /\ jsPc[t] = "lock" /\ JobsGoto(t, "look")
  /\ UNCHANGED <<jobs, shared, main, placeholder, myTime>>

SummaryLock(t) ==
  /\ jsPc[t] = "lock" /\ Lock(m2, t) /\ JobsGoto(t, "look")
  /\ UNCHANGED <<jobs, summary, tempDisplay, main, placeholder, myTime>>

user(t) == jobs[placeholder[t]].user

EntryOf(name) == {n \in DOMAIN summary : summary[n].user = name}

Look(t) ==
  /\ jsPc[t] = "look" /\ JobsGoto(t, "write")
  /\ \/ EntryOf(user(t)) = {} /\ tempDisplay' = 0
     \/ \E n \in EntryOf(user(t)) : tempDisplay' = n /\ \A k \in EntryOf(user(t)) : n <= k
  /\ UNCHANGED <<jobs, summary, m2, main, placeholder, myTime>>

Updated(t) == [summary EXCEPT ![tempDisplay].timeLastCalculated = myTime[t]]

LeaveSummary == Unlock(m2)

\* The entry is changed or appended, and the thread goes on to the next job.
Write(t) ==
  /\ jsPc[t] = "write"
  /\ summary' = IF tempDisplay # 0 THEN Updated(t)
                  ELSE Append(summary, [user |-> user(t), timeLastCalculated |-> myTime[t]])
  /\ LeaveSummary
  /\ placeholder' = [placeholder EXCEPT ![t] = @ + 1]
  /\ JobsGoto(t, IF placeholder[t] = Len(jobs) THEN "ended" ELSE "job")
  /\ UNCHANGED <<jobs, tempDisplay, main, myTime>>

jobDisplay(t) == Run(t) \/ SummaryLock(t) \/ Look(t) \/ Write(t)

\* main() has returned, or everybody waits.
JobsStopped ==
  /\ main = "ended" \/ (main = "join" /\ \A t \in Displayer : jsPc[t] \in {"lock", "ended"})
  /\ UNCHANGED jobsVars

JobsNext ==
  \/ Read \/ ReadFails \/ Join \/ summaryDisplay \/ JobsStopped
  \/ \E t \in Displayer : jobDisplay(t)

JobsSpec == JobsInit /\ [][JobsNext]_jobsVars

JobsFairSpec ==
  /\ JobsSpec /\ WF_jobsVars(Read) /\ WF_jobsVars(Join) /\ WF_jobsVars(summaryDisplay)
  /\ \A t \in Displayer : WF_jobsVars(jobDisplay(t))
-----------------------------------------------------------------------------
JobsTypeOK ==
  /\ jobs \in Seq(Job) /\ Len(jobs) <= Jobs
  /\ summary \in Seq([user : User, timeLastCalculated : Nat]) /\ tempDisplay \in 0 .. Len(summary)
  /\ m2 \in Displayer \cup {NoThread} /\ main \in {"read", "join", "summary", "ended"}
  /\ jsPc \in [Displayer -> {"job", "lock", "look", "write", "ended"}]
  /\ placeholder \in [Displayer -> 1 .. Jobs + 1] /\ myTime \in [Displayer -> Nat]

\* Jobs are in the order in which they would end, wherever they are inserted.
ListIsSorted == \A k, l \in DOMAIN jobs : k < l => End(jobs[k]) <= End(jobs[l])

\* When job k ends, if the jobs run one after the other in the order of the list.
Completion ==
  LET f[k \in 0 .. Len(jobs)] ==
        IF k = 0 THEN 0 ELSE Later(f[k - 1], jobs[k].arrival) + jobs[k].duration
  IN  f

JobsOf(name) == {k \in DOMAIN jobs : jobs[k].user = name}

\* Although a slow thread puts back the time of an earlier job, the summary that is
\* shown has every user once, with the time at which the last of the jobs ended; without
\* threads it has none.
SummaryIsRight ==
  main = "summary" =>
    /\ \A n \in DOMAIN summary : \E k \in JobsOf(summary[n].user) :
         /\ \A l \in JobsOf(summary[n].user) : l <= k
         /\ summary[n].timeLastCalculated = Completion[k]
    /\ {summary[n].user : n \in DOMAIN summary}
         = IF Displayer = {} THEN {} ELSE {jobs[k].user : k \in DOMAIN jobs}

\* A user is never entered twice, by two threads that do not find the entry.
OneEntryPerUser ==
  \A m, n \in DOMAIN summary : summary[m].user = summary[n].user => m = n

\* main() comes to its end.
MainEnds == <>(main = "ended")

\* The safety of assignment2question2.c: jobs are handed out in the order of arrival,
\* and the summary has one entry per user with the time of its last job.
SummaryInv == JobsTypeOK /\ ListIsSorted /\ SummaryIsRight /\ OneEntryPerUser

\* The safety of the programs whose lists have a fault: the jobs and their summary,
\* 02_condition_modify.c and the unlocked sorted list.
RacyListsInv == SummaryInv /\ ModifiedListInv /\ SortedListInv
=============================================================================
