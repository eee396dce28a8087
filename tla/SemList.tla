------------------------------ MODULE SemList ------------------------------
(***************************************************************************)
(* Fixed/NoBug1/zad_dom1.c: one thread appends to a linked list, the       *)
(* others remove its last element.  A mutex guards the list; a semaphore   *)
(* counts its elements and makes those who remove wait.                    *)
(*                                                                         *)
(* Nodes are addresses: what free() gives back malloc() may give out       *)
(* again.  The walks along the list are a step per node.  There            *)
(* are MaxElements nodes (a bound): the pusher begins when one is free.    *)
(***************************************************************************)
EXTENDS Pthreads, Sequences

CONSTANTS Popper, Value, MaxElements

ASSUME ListAssumption ==
  /\ MaxElements \in Nat /\ Value # {}
  /\ IsFiniteSet(Popper) /\ Popper \cap {"pusher", NoThread} = {}

ListThread == Popper \cup {"pusher"}
NoElement  == 0                                \* NULL
Element    == 1 .. MaxElements

VARIABLES lista, slNext, value, slAllocated,   \* the heap
          slMutex, sem,
          slPc, cursor, prev, new              \* new: newElement, of the pusher

slHeap == <<lista, slNext, value, slAllocated>>
slSync == <<slMutex, sem>>
slVars == <<slHeap, slSync, slPc, cursor, prev, new>>

SemInit ==
  /\ lista = NoElement /\ slAllocated = {}
  /\ slNext = [n \in Element |-> NoElement]
  /\ value \in [Element -> {CHOOSE v \in Value : TRUE}]
  /\ slMutex = NoThread /\ sem = 0
  /\ slPc = [t \in ListThread |-> "loop"]
  /\ cursor = [t \in ListThread |-> NoElement] /\ prev = [t \in ListThread |-> NoElement]
  /\ new = NoElement

SemGoto(t, label) == slPc' = [slPc EXCEPT ![t] = label]
-----------------------------------------------------------------------------

\* Lock and begin at the head of the list.
EnterList(t) ==
  /\ slPc[t] = "lock"
  /\ Lock(slMutex, t)
  /\ cursor' = [cursor EXCEPT ![t] = lista] /\ prev' = [prev EXCEPT ![t] = NoElement]
  /\ SemGoto(t, IF t = "pusher" THEN "malloc" ELSE "walk")
  /\ UNCHANGED <<slHeap, sem, new>>

\* One step along the list, of push_f and of pop_f.
Walk(t) ==
  /\ slPc[t] = "walk" /\ cursor[t] # NoElement /\ slNext[cursor[t]] # NoElement
  /\ prev' = [prev EXCEPT ![t] = cursor[t]]
  /\ cursor' = [cursor EXCEPT ![t] = slNext[cursor[t]]]
  /\ UNCHANGED <<slHeap, slSync, slPc, new>>

Leave(t) ==
  /\ slPc[t] = "unlock"
  /\ Unlock(slMutex)
  /\ SemGoto(t, IF t = "pusher" THEN "post" ELSE "loop")
  /\ cursor' = [cursor EXCEPT ![t] = NoElement] /\ prev' = [prev EXCEPT ![t] = NoElement]
  /\ UNCHANGED <<slHeap, sem, new>>
-----------------------------------------------------------------------------
\* pushThread and push_f.
Draw ==
  /\ slPc["pusher"] = "loop" /\ slAllocated # Element
  /\ SemGoto("pusher", "lock")
  /\ UNCHANGED <<slHeap, slSync, cursor, prev, new>>

MallocElement ==
  /\ slPc["pusher"] = "malloc"
  /\ \E n \in Element \ slAllocated, v \in Value :
       /\ new' = n
       /\ slAllocated' = slAllocated \cup {n}
       /\ value' = [value EXCEPT ![n] = v]
       /\ slNext' = [slNext EXCEPT ![n] = NoElement]
  /\ SemGoto("pusher", "walk")
  /\ UNCHANGED <<lista, slSync, cursor, prev>>

Append_ ==
  /\ slPc["pusher"] = "walk"
  /\ \/ lista = NoElement /\ lista' = new /\ slNext' = slNext
     \/ /\ lista # NoElement /\ slNext[cursor["pusher"]] = NoElement
        /\ slNext' = [slNext EXCEPT ![cursor["pusher"]] = new] /\ lista' = lista
  /\ SemGoto("pusher", "unlock")
  /\ UNCHANGED <<value, slAllocated, slSync, cursor, prev, new>>

\* BUG: the post left out.
BugPost ==
  /\ slPc["pusher"] = "post"
  /\ SemGoto("pusher", "loop")
  /\ UNCHANGED <<slHeap, slSync, cursor, prev, new>>

Post ==
  /\ slPc["pusher"] = "post"
  /\ SemPost(sem)
  /\ SemGoto("pusher", "loop")
  /\ UNCHANGED <<slHeap, slMutex, cursor, prev, new>>
-----------------------------------------------------------------------------
\* BUG: does not wait for an element.
BugWaitElement(t) ==
  /\ slPc[t] = "loop"
  /\ SemGoto(t, "lock")
  /\ UNCHANGED <<slHeap, slSync, cursor, prev, new>>

\* popThread and pop_f.
WaitElement(t) ==
  /\ slPc[t] = "loop"
  /\ SemWait(sem)
  /\ SemGoto(t, "lock")
  /\ UNCHANGED <<slHeap, slMutex, cursor, prev, new>>

PopEmpty(t) ==
  /\ slPc[t] = "walk" /\ cursor[t] = NoElement
  /\ SemGoto(t, "unlock")
  /\ UNCHANGED <<slHeap, slSync, cursor, prev, new>>

\* BUG: the last element stays the head of the list.
BugRemove(t) ==
  /\ slPc[t] = "walk" /\ cursor[t] # NoElement /\ slNext[cursor[t]] = NoElement
  /\ slAllocated' = slAllocated \ {cursor[t]}
  /\ slNext' = IF prev[t] = NoElement THEN slNext ELSE [slNext EXCEPT ![prev[t]] = NoElement]
  /\ SemGoto(t, "unlock")
  /\ UNCHANGED <<lista, value, slSync, cursor, prev, new>>

Remove(t) ==
  /\ slPc[t] = "walk" /\ cursor[t] # NoElement /\ slNext[cursor[t]] = NoElement
  /\ slAllocated' = slAllocated \ {cursor[t]}
  /\ IF prev[t] = NoElement THEN lista' = NoElement /\ slNext' = slNext
                            ELSE lista' = lista /\ slNext' = [slNext EXCEPT ![prev[t]] = NoElement]
  /\ SemGoto(t, "unlock")
  /\ UNCHANGED <<value, slSync, cursor, prev, new>>
-----------------------------------------------------------------------------
pushThread ==
  \/ Draw \/ EnterList("pusher") \/ MallocElement \/ Walk("pusher") \/ Append_
  \/ Leave("pusher") \/ Post

popThread(t) == WaitElement(t) \/ EnterList(t) \/ Walk(t) \/ PopEmpty(t) \/ Remove(t) \/ Leave(t)

\* The pusher at the bound.
OutOfElements == slPc["pusher"] = "loop" /\ slAllocated = Element /\ UNCHANGED slVars

SemNext == pushThread \/ OutOfElements \/ \E t \in Popper : popThread(t)

SemSpec == SemInit /\ [][SemNext]_slVars

\* The loops never end, so whoever waits for the mutex or the semaphore needs
\* to be granted it eventually.
SemFairSpec == SemSpec /\ SF_slVars(pushThread) /\ \A t \in Popper : SF_slVars(popThread(t))
-----------------------------------------------------------------------------
ElementAt[d \in 0 .. MaxElements] ==
  IF d = 0 THEN lista
  ELSE IF ElementAt[d - 1] = NoElement THEN NoElement ELSE slNext[ElementAt[d - 1]]

ListLength == Cardinality({d \in 0 .. MaxElements - 1 : ElementAt[d] # NoElement})
Items      == [d \in 1 .. ListLength |-> value[ElementAt[d - 1]]]

SemTypeOK ==
  /\ lista \in Element \cup {NoElement} /\ slNext \in [Element -> Element \cup {NoElement}]
  /\ value \in [Element -> Value] /\ slAllocated \subseteq Element
  /\ slMutex \in ListThread \cup {NoThread} /\ sem \in 0 .. MaxElements
  /\ slPc \in [ListThread -> {"loop", "lock", "malloc", "walk", "unlock", "post"}]
  /\ {cursor, prev} \subseteq [ListThread -> Element \cup {NoElement}]
  /\ new \in Element \cup {NoElement}

\* The list ends, and every node on it is allocated: nothing is used after it
\* was freed, and nothing freed is still linked.
ListIsSound ==
  /\ ElementAt[MaxElements] = NoElement
  /\ \A d \in 0 .. MaxElements - 1 : ElementAt[d] \in slAllocated \cup {NoElement}

\* The elements of the list are those the semaphore has counted, or is about
\* to, and nobody has yet removed.
SemaphoreCountsElements ==
  LET owed  == {t \in Popper : slPc[t] \in {"lock", "walk"}}
      extra == IF slPc["pusher"] = "post" \/ (slPc["pusher"] = "unlock") THEN 1 ELSE 0
  IN  ListLength = sem + Cardinality(owed) + extra

\* A thread that the semaphore lets pass finds an element: pop_f never
\* returns -1 ("tried to remove from an empty list").
NeverEmpty == \A t \in Popper : slPc[t] = "walk" => cursor[t] # NoElement

\* Pushing and popping by pointers is pushing and popping on a stack.
SemAbstract == INSTANCE Stack WITH items <- Items
SemIsAStack == SemAbstract!Spec

\* A list that has filled up is taken from: no post of the semaphore is lost.
ElementsAreTaken == ListLength = MaxElements ~> ListLength < MaxElements

\* The safety of the list of zad_dom1.c: it is a list of nodes that are not free, the
\* semaphore never promises more than it holds, and nobody takes from an empty list.
SemListInv == SemTypeOK /\ ListIsSound /\ SemaphoreCountsElements /\ NeverEmpty
=============================================================================
