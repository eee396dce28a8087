----------------------------- MODULE CondStack -----------------------------
(***************************************************************************)
(* Fixed/NoBug1/02.c: producers put nodes at the head of a linked list,    *)
(* consumers take them from there and wait while there is none.            *)
(*                                                                         *)
(* Nodes are addresses, as in SemList: a consumer frees its node after it  *)
(* has released the mutex, and malloc() may give it out again at once.     *)
(* There are MaxNodes nodes (a bound): a producer begins when one is free. *)
(***************************************************************************)
EXTENDS Pthreads, Sequences

CONSTANTS Producer, Consumer, MaxNodes

ASSUME CondStackAssumption ==
  /\ MaxNodes \in Nat \ {0} /\ IsFiniteSet(Consumer) /\ Consumer # {}
  /\ Producer \cap Consumer = {} /\ NoThread \notin Producer \cup Consumer

Thread == Producer \cup Consumer
NULL   == 0
Node   == 1 .. MaxNodes

VARIABLES head, next, allocated,     \* the heap
          mutex, cond,
          pc, p                      \* p: the node each thread has in hand

heap == <<head, next, allocated>>
sync == <<mutex, cond>>
vars == <<heap, sync, pc, p>>

Init ==
  /\ head = NULL /\ allocated = {} /\ next = [n \in Node |-> NULL]
  /\ mutex = NoThread /\ cond = {}
  /\ pc = [t \in Thread |-> "loop"]
  /\ p = [t \in Thread |-> NULL]

Goto(t, label) == pc' = [pc EXCEPT ![t] = label]
InHand(t, n)   == p' = [p EXCEPT ![t] = n]
-----------------------------------------------------------------------------

Enter(t) ==
  /\ pc[t] = "loop" /\ (t \in Producer => allocated # Node)
  /\ Lock(mutex, t)
  /\ Goto(t, IF t \in Producer THEN "malloc" ELSE "test")
  /\ UNCHANGED <<heap, cond, p>>

\* The node is filled, its next field with the head of the list.
Malloc(t) ==
  /\ pc[t] = "malloc"
  /\ \E n \in Node \ allocated :
       /\ allocated' = allocated \cup {n}
       /\ next' = [next EXCEPT ![n] = head]
       /\ InHand(t, n)
  /\ Goto(t, "link")
  /\ UNCHANGED <<head, sync>>

\* BUG: one node of the list is jumped over.
BugLinkOver(t) ==
  /\ pc[t] = "link"
  /\ head' = p[t] /\ next' = [next EXCEPT ![p[t]] = IF @ = NULL THEN NULL ELSE next[@]]
  /\ CondSignal(cond)
  /\ Unlock(mutex)
  /\ Goto(t, "loop")
  /\ InHand(t, NULL)
  /\ UNCHANGED allocated

\* head = p, the signal and the unlock.
Link(t) ==
  /\ pc[t] = "link"
  /\ head' = p[t]
  /\ CondSignal(cond)
  /\ Unlock(mutex)
  /\ Goto(t, "loop")
  /\ InHand(t, NULL)
  /\ UNCHANGED <<next, allocated>>

Wait(t) ==
  /\ pc[t] = "test" /\ head = NULL
  /\ CondWait(cond, mutex, t)
  /\ Goto(t, "wait")
  /\ UNCHANGED <<heap, p>>

\* BUG: `if' instead of `while', as in 02_condition_modify.c.
BugWakeUp(t) ==
  /\ pc[t] = "wait"
  /\ CondResume(cond, mutex, t)
  /\ InHand(t, head)
  /\ Goto(t, "unlink")
  /\ UNCHANGED <<heap, cond>>

WakeUp(t) ==
  /\ pc[t] = "wait"
  /\ CondResume(cond, mutex, t)
  /\ Goto(t, "test")
  /\ UNCHANGED <<heap, cond, p>>

\* p = head, and then head = head->next.
Take(t) ==
  /\ pc[t] = "test" /\ head # NULL
  /\ InHand(t, head)
  /\ Goto(t, "unlink")
  /\ UNCHANGED <<heap, sync>>

Unlink(t) ==
  /\ pc[t] = "unlink" /\ p[t] # NULL
  /\ head' = next[p[t]]
  /\ Unlock(mutex)
  /\ Goto(t, "free")
  /\ UNCHANGED <<next, allocated, cond, p>>

Free(t) ==
  /\ pc[t] = "free"
  /\ allocated' = allocated \ {p[t]}
  /\ InHand(t, NULL)
  /\ Goto(t, "loop")
  /\ UNCHANGED <<head, next, sync>>
-----------------------------------------------------------------------------
produce(t) == Enter(t) \/ Malloc(t) \/ Link(t)

consume(t) == Enter(t) \/ Wait(t) \/ WakeUp(t) \/ Take(t) \/ Unlink(t) \/ Free(t)

\* The producers at the bound.
OutOfNodes == allocated = Node /\ UNCHANGED vars

SpuriousWakeup == Spurious(cond) /\ UNCHANGED <<heap, mutex, pc, p>>

Next ==
  \/ \E t \in Producer : produce(t)
  \/ \E t \in Consumer : consume(t)
  \/ OutOfNodes \/ SpuriousWakeup

Spec == Init /\ [][Next]_vars

\* The loops never end, so that a thread that waits for the mutex must be
\* granted it eventually; spurious wake-ups end.
FairSpec ==
  /\ Spec
  /\ \A t \in Producer : SF_vars(produce(t))
  /\ \A t \in Consumer : SF_vars(consume(t))
  /\ <>[][~ SpuriousWakeup]_vars
-----------------------------------------------------------------------------
At[d \in 0 .. MaxNodes] ==
  IF d = 0 THEN head ELSE IF At[d - 1] = NULL THEN NULL ELSE next[At[d - 1]]

Listed == {At[d] : d \in 0 .. MaxNodes - 1} \ {NULL}
Length == Cardinality({d \in 0 .. MaxNodes - 1 : At[d] # NULL})

TypeOK ==
  /\ head \in Node \cup {NULL} /\ next \in [Node -> Node \cup {NULL}]
  /\ allocated \subseteq Node
  /\ mutex \in Thread \cup {NoThread} /\ cond \subseteq Consumer
  /\ pc \in [Thread -> {"loop", "malloc", "link", "test", "wait", "unlink", "free"}]
  /\ p \in [Thread -> Node \cup {NULL}]

\* Every allocated node is on the list or in the hand of one thread, which is
\* about to link it or to free it: none leaks and none is freed twice, although
\* nodes are freed outside the mutex.
EveryNodeHasOneOwner ==
  LET holds(t, n) == p[t] = n /\ pc[t] \in {"link", "free"}
  IN  /\ At[MaxNodes] = NULL
      /\ \A n \in Node : n \in allocated =>
           Cardinality({t \in Thread : holds(t, n)}) + (IF n \in Listed THEN 1 ELSE 0) = 1
      /\ Listed \subseteq allocated

\* A consumer never follows a null pointer.
NoNullNode == \A t \in Consumer : pc[t] \in {"unlink", "free"} => p[t] # NULL

\* While a consumer sleeps, the others that are awake are at least as many as
\* the nodes: announcing only the first node of an empty list would leave one
\* asleep beside work it could do.
EverySignalCounts == cond # {} => Length <= Cardinality(Consumer \ cond)

\* The list is a stack whose top is the head.
Abstract == INSTANCE Stack WITH
              items <- [d \in 1 .. Length |-> At[Length - d]], Value <- Node
IsAStack == Abstract!Spec

\* Every node is consumed in the end if the producers run out of nodes.
NodesAreConsumed == allocated = Node ~> allocated # Node

\* The safety of the list of 02.c: a node is in one place at a time, nobody takes a node
\* from an empty list, and a signal stands for every node that a sleeper waits for.
StackInv == TypeOK /\ EveryNodeHasOneOwner /\ NoNullNode /\ EverySignalCounts
=============================================================================
