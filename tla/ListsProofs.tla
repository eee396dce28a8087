---------------------------- MODULE ListsProofs ----------------------------
(***************************************************************************)
(* Proofs about the linked lists.  Two have all their locks: the one with  *)
(* a condition of 02.c and the one with a semaphore of zad_dom1.c. The     *)
(* other three are those of RacyLists: 02_condition_modify.c,              *)
(* mutex_linked_list.c and assignment2question2.c.                         *)
(*                                                                         *)
(* For the first two the inductive invariants say that there is a sequence *)
(* of nodes which the pointers follow.  The properties read the list with  *)
(* recursive functions, which TheWay shows to follow the same sequence.    *)
(* The nodes of mutex_linked_list.c are the least set that its pointers do *)
(* not leave: NodeJoins and NodeLeaves say what one store does to it, and  *)
(* AscendingList why no order among the nodes has to be kept besides that  *)
(* of neighbours.  For assignment2question2.c the invariant says of each   *)
(* entry of the summary that it is final or that somebody has a later job  *)
(* of the same user before it.                                             *)
(***************************************************************************)
EXTENDS CondStack, SemList, RacyLists,
        FiniteSetTheorems, SequenceTheorems, WellFoundedInduction, TLAPS

\* A sequence without its last element.
LEMMA Prefix ==
  ASSUME NEW S, NEW s, NEW n \in Int, \A k \in 1 .. n : s[k] \in S
  PROVE  /\ SubSeq(s, 1, n) \in Seq(S)
         /\ Len(SubSeq(s, 1, n)) = IF 1 <= n THEN n - 1 + 1 ELSE 0
         /\ \A k \in 1 .. n - 1 + 1 : SubSeq(s, 1, n)[k] = s[1 + k - 1]
<1>1. 1 \in Int
  OBVIOUS
<1> QED  BY <1>1, SubSeqProperties

\* The same for a sequence that is not empty, as Pop of a stack needs it.
LEMMA WithoutLast ==
  ASSUME NEW S, NEW s \in Seq(S), Len(s) # 0, NEW q, q = SubSeq(s, 1, Len(s) - 1)
  PROVE  /\ q \in Seq(S) /\ Len(q) = Len(s) - 1 /\ s # <<>>
         /\ \A k \in 1 .. Len(q) : q[k] = s[k]
<1> DEFINE n == Len(s) - 1
<1>1. n \in Int /\ \A k \in 1 .. n : s[k] \in S
  OBVIOUS
<1>2. n + 1 = Len(s) /\ n \in Nat /\ q = SubSeq(s, 1, n)
  OBVIOUS
<1> HIDE DEF n
<1>3. q \in Seq(S) /\ Len(q) = n /\ \A k \in 1 .. Len(q) : q[k] = s[k]
  BY <1>1, <1>2, Prefix
<1> QED  BY <1>2, <1>3

\* A set of numbers that is not empty has a least element.
LEMMA Least ==
  ASSUME NEW T, T \subseteq Nat, T # {}
  PROVE  \E x \in T : \A y \in T : x <= y
<1> DEFINE R == OpToRel(<, Nat)
<1> HIDE DEF R
<1>1. PICK x \in T : \A y \in T : ~ (<<y, x>> \in R)
  BY NatLessThanWellFounded, WFMin DEF R
<1>2. \A y \in T : ~ (y < x)
  BY <1>1 DEF R, OpToRel
<1> QED  BY <1>2

\* f holds what one meets on the way from h along the pointers nx.
IsWay(f, h, nx, nil, N) ==
  f = [d \in 0 .. N |-> IF d = 0 THEN h ELSE IF f[d - 1] = nil THEN nil ELSE nx[f[d - 1]]]

\* The n nodes g, from h, each of which points to the next one.
IsChain(g, n, h, nx, nil) ==
  /\ n \in Nat /\ \A k \in 0 .. n - 1 : g[k] # nil
  /\ h = IF n = 0 THEN nil ELSE g[0]
  /\ \A k \in 0 .. n - 1 : nx[g[k]] = IF k = n - 1 THEN nil ELSE g[k + 1]

Along(g, n, nil, N) == [d \in 0 .. N |-> IF d < n THEN g[d] ELSE nil]

\* The way is along the nodes of the chain and then nowhere.
LEMMA TheWay ==
  ASSUME NEW N \in Nat, NEW nil, NEW n, NEW g, NEW h, NEW nx, IsChain(g, n, h, nx, nil)
  PROVE  /\ IsWay(Along(g, n, nil, N), h, nx, nil, N)
         /\ \A f : IsWay(f, h, nx, nil, N) => f = Along(g, n, nil, N)
<1> DEFINE F == Along(g, n, nil, N)
<1>0. /\ n \in Nat /\ F = [d \in 0 .. N |-> IF d < n THEN g[d] ELSE nil]
      /\ h = IF n = 0 THEN nil ELSE g[0]
      /\ \A k \in 0 .. n - 1 :
           g[k] # nil /\ nx[g[k]] = IF k = n - 1 THEN nil ELSE g[k + 1]
  BY DEF IsChain, Along
<1> HIDE DEF F
<1>1. \A d \in 0 .. N :
        F[d] = IF d = 0 THEN h ELSE IF F[d - 1] = nil THEN nil ELSE nx[F[d - 1]]
  <2> SUFFICES ASSUME NEW d \in 0 .. N
               PROVE  F[d] = IF d = 0 THEN h ELSE IF F[d - 1] = nil THEN nil ELSE nx[F[d - 1]]
    OBVIOUS
  <2>1. CASE d = 0
    BY <1>0, <2>1
  <2>2. CASE d # 0
    <3>1. d - 1 \in 0 .. N /\ F[d - 1] = IF d - 1 < n THEN g[d - 1] ELSE nil
      BY <1>0, <2>2
    <3>2. CASE d - 1 < n
      <4>1. d - 1 \in 0 .. n - 1 /\ F[d - 1] = g[d - 1] /\ g[d - 1] # nil
        BY <1>0, <2>2, <3>1, <3>2
      <4>2. nx[g[d - 1]] = IF d - 1 = n - 1 THEN nil ELSE g[d]
        BY <1>0, <4>1
      <4> QED  BY <1>0, <2>2, <4>1, <4>2
    <3>3. CASE ~ (d - 1 < n)
      BY <1>0, <2>2, <3>1, <3>3
    <3> QED  BY <3>2, <3>3
  <2> QED  BY <2>1, <2>2
<1>2. IsWay(F, h, nx, nil, N)
  <2>1. F = [d \in 0 .. N |-> F[d]]
    BY <1>0
  <2> QED  BY ONLY <1>1, <2>1 DEF IsWay
<1>3. ASSUME NEW A, IsWay(A, h, nx, nil, N) PROVE A = F
  <2>1. \A d \in 0 .. N :
          A[d] = IF d = 0 THEN h ELSE IF A[d - 1] = nil THEN nil ELSE nx[A[d - 1]]
    BY ONLY <1>3 DEF IsWay
  <2>2. A = [d \in 0 .. N |-> A[d]] /\ F = [d \in 0 .. N |-> F[d]]
    BY ONLY <1>2, <1>3 DEF IsWay
  <2>3. \A d \in 0 .. N : A[d] = F[d]
    <3> DEFINE T == {d \in 0 .. N : A[d] # F[d]}
    <3> SUFFICES ASSUME T # {} PROVE FALSE
      OBVIOUS
    <3>1. T \subseteq Nat
      OBVIOUS
    <3>2. PICK d \in T : \A e \in T : d <= e
      <4> HIDE DEF T
      <4> QED  BY <3>1, Least
    <3>3. d # 0 => A[d - 1] = F[d - 1]
      BY <3>2
    <3>4. d \in 0 .. N /\ A[d] # F[d]
      BY <3>2
    <3>5. /\ A[d] = IF d = 0 THEN h ELSE IF A[d - 1] = nil THEN nil ELSE nx[A[d - 1]]
          /\ F[d] = IF d = 0 THEN h ELSE IF F[d - 1] = nil THEN nil ELSE nx[F[d - 1]]
      BY ONLY <1>1, <2>1, <3>4
    <3> QED  BY ONLY <3>3, <3>4, <3>5
  <2> QED  BY ONLY <2>2, <2>3
<1> QED  BY <1>2, <1>3 DEF F

\* A list of different nodes is no longer than there are nodes.
LEMMA NoLongerThan ==
  ASSUME NEW N \in Nat, NEW s \in Seq(1 .. N), \A k, m \in 1 .. Len(s) : s[k] = s[m] => k = m
  PROVE  Len(s) <= N
<1> SUFFICES ASSUME ~ (Len(s) <= N) PROVE FALSE
  OBVIOUS
<1>1. /\ IsFiniteSet(1 .. N) /\ Cardinality(1 .. N) = N
      /\ IsFiniteSet(1 .. Len(s)) /\ Cardinality(1 .. Len(s)) = Len(s)
  <2>1. 1 \in Int /\ N \in Int /\ Len(s) \in Nat /\ Len(s) \in Int
    OBVIOUS
  <2>2. /\ IsFiniteSet(1 .. N) /\ Cardinality(1 .. N) = IF 1 > N THEN 0 ELSE N - 1 + 1
        /\ IsFiniteSet(1 .. Len(s))
        /\ Cardinality(1 .. Len(s)) = IF 1 > Len(s) THEN 0 ELSE Len(s) - 1 + 1
    BY <2>1, FS_Interval, Zenon
  <2> QED  BY <2>1, <2>2
<1>2. s \in [1 .. Len(s) -> 1 .. N] /\ Cardinality(1 .. N) < Cardinality(1 .. Len(s))
  BY <1>1
<1>3. \E k, m \in 1 .. Len(s) : k # m /\ s[k] = s[m]
  BY ONLY <1>1, <1>2, FS_PigeonHole, Zenon
<1> QED  BY <1>3

(***************************************************************************)
(* Proofs about CondStack, for any number of producers, consumers and      *)
(* nodes.                                                                  *)
(***************************************************************************)

\* Where a thread has a node in its hand that is on no list.
InHands == {"link", "free"}

\* s is the list from its end to the head, and nothing else is on it.
Linked(s) ==
  /\ \A k, m \in 1 .. Len(s) : s[k] = s[m] => k = m
  /\ head = IF Len(s) = 0 THEN NULL ELSE s[Len(s)]
  /\ \A k \in 1 .. Len(s) : next[s[k]] = IF k = 1 THEN NULL ELSE s[k - 1]

\* A node that is allocated is on the list or in a hand.
Owned(s) ==
  /\ \A k \in 1 .. Len(s) : s[k] \in allocated
  /\ \A t \in Thread : pc[t] \in InHands =>
        p[t] \in allocated /\ \A k \in 1 .. Len(s) : s[k] # p[t]
  /\ \A n \in allocated :
        \/ \E k \in 1 .. Len(s) : s[k] = n
        \/ \E t \in Thread : pc[t] \in InHands /\ p[t] = n

\* While somebody sleeps, every node of the list has an awake consumer that may take it.
Announced(s) == cond # {} => Len(s) <= Cardinality(Consumer \ cond)

IsTheList(s) == Linked(s) /\ Owned(s) /\ Announced(s)

ListInv == \E s \in Seq(Node) : IsTheList(s)

\* Hands hold different nodes; what a thread has read of the head is still the head.
HandInv ==
  /\ \A t, u \in Thread : pc[t] \in InHands /\ pc[u] \in InHands /\ p[t] = p[u] => t = u
  /\ \A t \in Thread : pc[t] = "link" => next[p[t]] = head
  /\ \A t \in Thread : pc[t] = "unlink" => p[t] = head /\ head # NULL

\* The mutex belongs to whoever is between lock and unlock; who sleeps is in the wait.
PlaceInv ==
  /\ \A t \in Thread : mutex = t <=> pc[t] \in {"malloc", "link", "test", "unlink"}
  /\ \A t \in Producer : pc[t] \in {"loop", "malloc", "link"}
  /\ \A t \in Consumer : pc[t] \notin {"malloc", "link"}
  /\ \A t \in cond : pc[t] = "wait"

IInv == TypeOK /\ PlaceInv /\ HandInv /\ ListInv
-----------------------------------------------------------------------------
\* The empty list is the list of the initial state.
LEMMA InitInv == Init => IInv
<1> SUFFICES ASSUME Init PROVE IInv
  OBVIOUS
<1> USE CondStackAssumption DEF Init
<1>1. TypeOK
  BY DEF TypeOK, Thread, NULL
<1>2. PlaceInv
  BY DEF PlaceInv, Thread
<1>3. HandInv
  BY DEF HandInv, InHands
<1>4. <<>> \in Seq(Node) /\ IsTheList(<<>>)
  BY DEF IsTheList, Linked, Owned, Announced, InHands
<1> QED  BY <1>1, <1>2, <1>3, <1>4 DEF IInv, ListInv

\* Every step of a thread keeps the variables in their sets.
LEMMA TypeStep == TypeOK /\ PlaceInv /\ [Next]_vars => TypeOK'
<1> SUFFICES ASSUME TypeOK, PlaceInv, [Next]_vars PROVE TypeOK'
  OBVIOUS
<1> USE CondStackAssumption
    DEF TypeOK, PlaceInv, Goto, InHand, Lock, Unlock, heap, sync, vars, Thread
<1>1. ASSUME NEW t \in Thread, Enter(t) PROVE TypeOK'
  BY <1>1 DEF Enter
<1>2. ASSUME NEW t \in Thread, Malloc(t) PROVE TypeOK'
  BY <1>2 DEF Malloc
<1>3. ASSUME NEW t \in Thread, Link(t) PROVE TypeOK'
  BY <1>3 DEF Link, CondSignal
<1>4. ASSUME NEW t \in Consumer, Wait(t) PROVE TypeOK'
  BY <1>4 DEF Wait, CondWait
<1>5. ASSUME NEW t \in Thread, WakeUp(t) PROVE TypeOK'
  BY <1>5 DEF WakeUp, CondResume
<1>6. ASSUME NEW t \in Thread, Take(t) PROVE TypeOK'
  BY <1>6 DEF Take
<1>7. ASSUME NEW t \in Thread, Unlink(t) PROVE TypeOK'
  BY <1>7 DEF Unlink, NULL
<1>8. ASSUME NEW t \in Thread, Free(t) PROVE TypeOK'
  BY <1>8 DEF Free
<1>9. CASE SpuriousWakeup
  BY <1>9 DEF SpuriousWakeup, Spurious
<1>10. CASE UNCHANGED vars
  BY <1>10
<1> QED
  BY <1>1, <1>2, <1>3, <1>4, <1>5, <1>6, <1>7, <1>8, <1>9, <1>10
  DEF Next, produce, consume, OutOfNodes

\* A thread of 02.c is between lock and unlock exactly when it owns the mutex.
LEMMA PlaceStep == TypeOK /\ PlaceInv /\ [Next]_vars => PlaceInv'
<1> SUFFICES ASSUME TypeOK, PlaceInv, [Next]_vars PROVE PlaceInv'
  OBVIOUS
<1> USE CondStackAssumption DEF TypeOK, PlaceInv, Goto, Lock, Unlock, heap, sync, vars, Thread
<1>1. ASSUME NEW t \in Thread, Enter(t) PROVE PlaceInv'
  BY <1>1 DEF Enter
<1>2. ASSUME NEW t \in Producer, Malloc(t) PROVE PlaceInv'
  BY <1>2 DEF Malloc
<1>3. ASSUME NEW t \in Thread, Link(t) PROVE PlaceInv'
  BY <1>3 DEF Link, CondSignal
<1>4. ASSUME NEW t \in Consumer, Wait(t) PROVE PlaceInv'
  BY <1>4 DEF Wait, CondWait
<1>5. ASSUME NEW t \in Consumer, WakeUp(t) PROVE PlaceInv'
  BY <1>5 DEF WakeUp, CondResume
<1>6. ASSUME NEW t \in Consumer, Take(t) PROVE PlaceInv'
  BY <1>6 DEF Take
<1>7. ASSUME NEW t \in Consumer, Unlink(t) PROVE PlaceInv'
  BY <1>7 DEF Unlink
<1>8. ASSUME NEW t \in Consumer, Free(t) PROVE PlaceInv'
  BY <1>8 DEF Free
<1>9. CASE SpuriousWakeup
  BY <1>9 DEF SpuriousWakeup, Spurious
<1>10. CASE UNCHANGED vars
  BY <1>10
<1> QED
  BY <1>1, <1>2, <1>3, <1>4, <1>5, <1>6, <1>7, <1>8, <1>9, <1>10
  DEF Next, produce, consume, OutOfNodes

\* The node in the hand of a thread is in nobody else's, and follows or leads the head.
LEMMA HandStep == IInv /\ [Next]_vars => HandInv'
<1> SUFFICES ASSUME IInv, [Next]_vars PROVE HandInv'
  OBVIOUS
<1>0. PICK s \in Seq(Node) : IsTheList(s)
  BY DEF IInv, ListInv
<1>a. \A t \in Thread : pc[t] \in InHands => p[t] \in allocated
  BY <1>0 DEF IsTheList, Owned
<1>b. head # NULL => Len(s) \in 1 .. Len(s) /\ head = s[Len(s)] /\ head \in allocated
  BY <1>0 DEF IsTheList, Owned, Linked
<1>c. \A t \in Thread : pc[t] \in InHands => p[t] # head
  <2> SUFFICES ASSUME NEW t \in Thread, pc[t] \in InHands, p[t] = head PROVE FALSE
    OBVIOUS
  <2>1. head # NULL
    BY <1>a DEF IInv, TypeOK, Node, NULL
  <2> QED  BY <1>0, <1>b, <2>1 DEF IsTheList, Owned
<1> USE CondStackAssumption
    DEF IInv, TypeOK, PlaceInv, HandInv, InHands, Goto, InHand, Lock, Unlock, heap, sync, vars,
        Thread
<1>1. ASSUME NEW t \in Thread, Enter(t) PROVE HandInv'
  BY <1>1 DEF Enter
<1>2. ASSUME NEW t \in Producer, Malloc(t) PROVE HandInv'
  BY <1>2, <1>a DEF Malloc
<1>3. ASSUME NEW t \in Thread, Link(t) PROVE HandInv'
  BY <1>3 DEF Link
<1>4. ASSUME NEW t \in Consumer, Wait(t) PROVE HandInv'
  BY <1>4 DEF Wait
<1>5. ASSUME NEW t \in Consumer, WakeUp(t) PROVE HandInv'
  BY <1>5 DEF WakeUp
<1>6. ASSUME NEW t \in Consumer, Take(t) PROVE HandInv'
  BY <1>6 DEF Take
<1>7. ASSUME NEW t \in Consumer, Unlink(t) PROVE HandInv'
  BY <1>7, <1>c DEF Unlink
<1>8. ASSUME NEW t \in Consumer, Free(t) PROVE HandInv'
  BY <1>8 DEF Free
<1>9. CASE SpuriousWakeup
  BY <1>9 DEF SpuriousWakeup
<1>10. CASE UNCHANGED vars
  BY <1>10
<1> QED
  BY <1>1, <1>2, <1>3, <1>4, <1>5, <1>6, <1>7, <1>8, <1>9, <1>10
  DEF Next, produce, consume, OutOfNodes

\* The list after a step: with the new node at its end, or without its last one, or as
\* it was.
LEMMA LinkStep ==
  ASSUME IInv, NEW t \in Producer, Link(t), NEW s \in Seq(Node), IsTheList(s),
         NEW q, q = Append(s, p[t])
  PROVE  q \in Seq(Node) /\ IsTheList(q)'
<1> USE CondStackAssumption
    DEF IInv, TypeOK, PlaceInv, HandInv, InHands, Goto, InHand, Lock, Unlock, Thread
<1>1. /\ p[t] \in Node /\ p[t] \in allocated /\ next[p[t]] = head
      /\ \A k \in 1 .. Len(s) : s[k] # p[t]
  BY DEF Link, IsTheList, Owned
<1>2. /\ q \in Seq(Node) /\ Len(q) = Len(s) + 1 /\ q[Len(q)] = p[t]
      /\ \A k \in 1 .. Len(s) : q[k] = s[k]
  BY <1>1
<1>3. Linked(q)'
  <2>1. next' = next /\ head' = p[t]
    BY DEF Link
  <2>2. \A k \in 1 .. Len(q) : next[q[k]] = IF k = 1 THEN NULL ELSE q[k - 1]
    <3> SUFFICES ASSUME NEW k \in 1 .. Len(q)
                 PROVE  next[q[k]] = IF k = 1 THEN NULL ELSE q[k - 1]
      OBVIOUS
    <3>1. CASE k \in 1 .. Len(s)
      <4>1. q[k] = s[k] /\ (k # 1 => q[k - 1] = s[k - 1])
        BY <1>2, <3>1
      <4> QED  BY <3>1, <4>1 DEF IsTheList, Linked
    <3>2. CASE k = Len(s) + 1
      <4>1. q[k] = p[t] /\ next[q[k]] = head
        BY <1>1, <1>2, <3>2
      <4>2. k # 1 => q[k - 1] = s[Len(s)]
        BY <1>2, <3>2
      <4> QED  BY <3>2, <4>1, <4>2 DEF IsTheList, Linked
    <3> QED  BY <1>2, <3>1, <3>2
  <2>3. \A k, m \in 1 .. Len(q) : q[k] = q[m] => k = m
    BY <1>1, <1>2 DEF IsTheList, Linked
  <2> QED  BY <1>2, <2>1, <2>2, <2>3 DEF Linked
<1>4. Owned(q)'
  BY <1>1, <1>2 DEF Link, IsTheList, Owned
<1>5. Announced(q)'
  <2> SUFFICES ASSUME cond' # {} PROVE Len(q) <= Cardinality(Consumer \ cond')
    BY DEF Announced
  <2>1. PICK u \in cond : cond' = cond \ {u}
    BY DEF Link, CondSignal
  <2>2. Consumer \ cond' = (Consumer \ cond) \cup {u} /\ u \notin Consumer \ cond
    BY <2>1
  <2>3. IsFiniteSet(Consumer \ cond)
    BY FS_Difference
  <2>4. Cardinality(Consumer \ cond') = Cardinality(Consumer \ cond) + 1
    <3> DEFINE S == Consumer \ cond
    <3>1. Cardinality(S \cup {u}) = Cardinality(S) + 1
      BY <2>2, <2>3, FS_AddElement
    <3> QED  BY <2>2, <3>1
  <2>5. Len(s) <= Cardinality(Consumer \ cond) /\ Cardinality(Consumer \ cond) \in Nat
    BY <2>1, <2>3, FS_CardinalityType DEF IsTheList, Announced
  <2> QED  BY <1>2, <2>4, <2>5
<1> QED  BY <1>2, <1>3, <1>4, <1>5 DEF IsTheList

\* consume() takes the last node of the list, which is the head, and has it in hand.
LEMMA UnlinkStep ==
  ASSUME IInv, NEW t \in Consumer, Unlink(t), NEW s \in Seq(Node), IsTheList(s),
         NEW q, q = SubSeq(s, 1, Len(s) - 1)
  PROVE  s # <<>> /\ q \in Seq(Node) /\ IsTheList(q)'
<1> USE CondStackAssumption
    DEF IInv, TypeOK, PlaceInv, HandInv, InHands, Goto, InHand, Lock, Unlock, Thread
<1>1. Len(s) # 0 /\ p[t] = head /\ head = s[Len(s)]
  BY DEF Unlink, IsTheList, Linked
<1>2. /\ q \in Seq(Node) /\ Len(q) = Len(s) - 1 /\ s # <<>>
      /\ \A k \in 1 .. Len(q) : q[k] = s[k]
  BY ONLY s \in Seq(Node), q = SubSeq(s, 1, Len(s) - 1), <1>1, WithoutLast
<1>3. Linked(q)'
  <2>1. next' = next /\ head' = next[s[Len(s)]]
    BY <1>1 DEF Unlink
  <2>2. \A k \in 1 .. Len(q) : next[q[k]] = IF k = 1 THEN NULL ELSE q[k - 1]
    <3>1. \A k \in 1 .. Len(s) : next[s[k]] = IF k = 1 THEN NULL ELSE s[k - 1]
      BY DEF IsTheList, Linked
    <3>2. \A k \in 1 .. Len(q) : k \in 1 .. Len(s) /\ (k # 1 => k - 1 \in 1 .. Len(q))
      <4>1. Len(s) \in Nat /\ Len(q) \in Nat /\ Len(q) = Len(s) - 1
        BY <1>2
      <4> QED  BY ONLY <4>1
    <3> SUFFICES ASSUME NEW k \in 1 .. Len(q)
                 PROVE  next[q[k]] = IF k = 1 THEN NULL ELSE q[k - 1]
      OBVIOUS
    <3>3. next[s[k]] = IF k = 1 THEN NULL ELSE s[k - 1]
      BY ONLY <3>1, <3>2
    <3>4. q[k] = s[k] /\ (k # 1 => q[k - 1] = s[k - 1])
      BY ONLY <1>2, <3>2
    <3> QED  BY ONLY <3>3, <3>4
  <2>3. \A k, m \in 1 .. Len(q) : q[k] = q[m] => k = m
    <3>1. \A k, m \in 1 .. Len(s) : s[k] = s[m] => k = m
      BY DEF IsTheList, Linked
    <3>2. Len(s) \in Nat
      OBVIOUS
    <3> QED  BY ONLY <1>2, <3>1, <3>2
  <2>4. head' = IF Len(q) = 0 THEN NULL ELSE q[Len(q)]
    BY <1>1, <1>2, <2>1 DEF IsTheList, Linked
  <2> QED  BY <2>1, <2>2, <2>3, <2>4 DEF Linked
<1>4. Owned(q)'
  <2>1. \A k \in 1 .. Len(q) : q[k] # s[Len(s)] /\ q[k] \in allocated
    BY <1>1, <1>2 DEF IsTheList, Linked, Owned
  <2>2. s[Len(s)] \in allocated
    BY <1>1 DEF IsTheList, Owned
  <2>3. \A n \in allocated : (\E k \in 1 .. Len(q) : q[k] = n) \/ n = s[Len(s)]
                               \/ \E u \in Thread : pc[u] \in InHands /\ p[u] = n
    BY <1>2 DEF IsTheList, Owned
  <2>4. /\ allocated' = allocated /\ p' = p
        /\ pc' = [pc EXCEPT ![t] = "free"] /\ pc[t] = "unlink"
    BY DEF Unlink
  <2>5. \A u \in Thread : u # t /\ pc[u] \in InHands =>
           p[u] \in allocated /\ \A k \in 1 .. Len(q) : q[k] # p[u]
    BY <1>2 DEF IsTheList, Owned
  <2> QED  BY <1>1, <2>1, <2>2, <2>3, <2>4, <2>5 DEF Owned
<1>5. Announced(q)'
  <2>1. Cardinality(Consumer \ cond) \in Nat
    BY FS_Difference, FS_CardinalityType
  <2> QED  BY <1>2, <2>1 DEF Unlink, IsTheList, Announced
<1> QED  BY <1>2, <1>3, <1>4, <1>5 DEF IsTheList

\* A new node is in the hand of its producer and changes nothing on the list.
LEMMA MallocStep ==
  ASSUME IInv, NEW t \in Producer, Malloc(t), NEW s \in Seq(Node), IsTheList(s)
  PROVE  IsTheList(s)'
<1> USE CondStackAssumption
    DEF IInv, TypeOK, PlaceInv, HandInv, InHands, Goto, InHand, Thread, heap, sync, IsTheList
<1>1. PICK n \in Node \ allocated :
        /\ allocated' = allocated \cup {n}
        /\ next' = [next EXCEPT ![n] = head]
        /\ InHand(t, n)
  BY DEF Malloc
<1>2. \A k \in 1 .. Len(s) : s[k] \in Node /\ s[k] # n
  BY <1>1 DEF Owned
<1>3. Linked(s)'
  <2>1. head' = head /\ \A k \in 1 .. Len(s) : next'[s[k]] = next[s[k]]
    BY <1>1, <1>2 DEF Malloc
  <2> QED  BY <2>1 DEF Linked
<1>4. Owned(s)'
  BY <1>1, <1>2 DEF Owned, Malloc
<1>5. Announced(s)'
  BY DEF Announced, Malloc
<1> QED  BY <1>3, <1>4, <1>5

\* A freed node was in the hand of its consumer and on no list.
LEMMA FreeStep ==
  ASSUME IInv, NEW t \in Consumer, Free(t), NEW s \in Seq(Node), IsTheList(s)
  PROVE  IsTheList(s)'
<1> USE CondStackAssumption
    DEF IInv, TypeOK, PlaceInv, HandInv, InHands, Goto, InHand, Thread, sync, IsTheList
<1>1. Linked(s)'
  BY DEF Linked, Free
<1>2. Owned(s)'
  BY DEF Owned, Free
<1>3. Announced(s)'
  BY DEF Announced, Free
<1> QED  BY <1>1, <1>2, <1>3

\* A step that leaves the heap alone and puts nobody to sleep, unless the list is empty.
LEMMA SameList ==
  ASSUME IInv, UNCHANGED heap, NEW s \in Seq(Node), IsTheList(s),
         cond' \subseteq cond \/ (head = NULL /\ cond' \subseteq Consumer),
         \A t \in Thread : /\ pc'[t] \in InHands <=> pc[t] \in InHands
                           /\ pc[t] \in InHands => p'[t] = p[t]
  PROVE  IsTheList(s)'
<1> USE CondStackAssumption DEF IInv, TypeOK, heap, Thread, IsTheList
<1>1. Linked(s)'
  BY DEF Linked
<1>2. Owned(s)'
  BY DEF Owned
<1>3. Announced(s)'
  <2> SUFFICES ASSUME cond' # {} PROVE Len(s) <= Cardinality(Consumer \ cond')
    BY DEF Announced
  <2>1. /\ IsFiniteSet(Consumer \ cond) /\ IsFiniteSet(Consumer \ cond')
        /\ Cardinality(Consumer \ cond) \in Nat /\ Cardinality(Consumer \ cond') \in Nat
    BY FS_Difference, FS_CardinalityType
  <2>2. CASE cond' \subseteq cond
    <3>1. Consumer \ cond \subseteq Consumer \ cond'
      BY <2>2
    <3>2. Cardinality(Consumer \ cond) <= Cardinality(Consumer \ cond')
      BY <2>1, <3>1, FS_Subset
    <3>3. Len(s) <= Cardinality(Consumer \ cond)
      BY <2>2 DEF Announced
    <3> QED  BY <2>1, <3>2, <3>3
  <2>3. CASE head = NULL
    <3>1. Len(s) = 0
      BY <2>3 DEF Linked, Node, NULL
    <3> QED  BY <2>1, <3>1
  <2> QED  BY <2>2, <2>3
<1> QED  BY <1>1, <1>2, <1>3

\* What a step does to the list.
LEMMA ListStep ==
  ASSUME IInv, [Next]_vars, NEW s \in Seq(Node), IsTheList(s)
  PROVE  \E q \in Seq(Node) :
           /\ IsTheList(q)'
           /\ \/ q = s
              \/ \E v \in Node : q = Append(s, v)
              \/ s # <<>> /\ q = SubSeq(s, 1, Len(s) - 1)
<1> DEFINE Becomes(q) == /\ q \in Seq(Node) /\ IsTheList(q)'
                         /\ \/ q = s
                            \/ \E v \in Node : q = Append(s, v)
                            \/ s # <<>> /\ q = SubSeq(s, 1, Len(s) - 1)
<1> SUFFICES \E q : Becomes(q)
  OBVIOUS
<1>0. IsTheList(s)' => Becomes(s)
  OBVIOUS
<1> HIDE DEF Becomes
<1>a. TypeOK /\ PlaceInv /\ TypeOK' /\ PlaceInv'
  BY TypeStep, PlaceStep DEF IInv
<1> USE CondStackAssumption
    DEF TypeOK, PlaceInv, InHands, Goto, InHand, heap, sync, vars, Thread
<1>1. ASSUME NEW t \in Thread, Enter(t) PROVE IsTheList(s)'
  BY <1>1, <1>a, SameList DEF Enter
<1>2. ASSUME NEW t \in Producer, Malloc(t) PROVE IsTheList(s)'
  BY <1>2, MallocStep
<1>3. ASSUME NEW t \in Producer, Link(t) PROVE \E q : Becomes(q)
  <2>1. p[t] \in Node
    BY <1>3, <1>a DEF Link, IsTheList, Owned
  <2>2. PICK q : q = Append(s, p[t])
    OBVIOUS
  <2>3. q \in Seq(Node) /\ IsTheList(q)'
    BY <1>3, <2>2, LinkStep
  <2> QED  BY <2>1, <2>2, <2>3 DEF Becomes
<1>4. ASSUME NEW t \in Consumer, Wait(t) PROVE IsTheList(s)'
  BY <1>4, <1>a, SameList DEF Wait, CondWait
<1>5. ASSUME NEW t \in Consumer, WakeUp(t) PROVE IsTheList(s)'
  BY <1>5, <1>a, SameList DEF WakeUp, CondResume
<1>6. ASSUME NEW t \in Consumer, Take(t) PROVE IsTheList(s)'
  BY <1>6, <1>a, SameList DEF Take
<1>7. ASSUME NEW t \in Consumer, Unlink(t) PROVE \E q : Becomes(q)
  <2>1. PICK q : q = SubSeq(s, 1, Len(s) - 1)
    OBVIOUS
  <2>2. s # <<>> /\ q \in Seq(Node) /\ IsTheList(q)'
    BY <1>7, <2>1, UnlinkStep
  <2> QED  BY <2>1, <2>2 DEF Becomes
<1>8. ASSUME NEW t \in Consumer, Free(t) PROVE IsTheList(s)'
  BY <1>8, FreeStep
<1>9. CASE SpuriousWakeup
  <2>1. UNCHANGED heap /\ pc' = pc /\ p' = p /\ cond' \subseteq cond
    BY <1>9, <1>a DEF SpuriousWakeup, Spurious
  <2> QED  BY <1>0, <2>1, SameList
<1>10. CASE UNCHANGED vars
  <2>1. UNCHANGED heap /\ pc' = pc /\ p' = p /\ cond' \subseteq cond
    BY <1>10
  <2> QED  BY <1>0, <2>1, SameList
<1> QED
  BY <1>0, <1>1, <1>2, <1>3, <1>4, <1>5, <1>6, <1>7, <1>8, <1>9, <1>10
  DEF Next, produce, consume, OutOfNodes

\* One of the lemmas above for each part of the inductive invariant.
LEMMA StepInv == IInv /\ [Next]_vars => IInv'
<1> SUFFICES ASSUME IInv, [Next]_vars PROVE IInv'
  OBVIOUS
<1>1. PICK s \in Seq(Node) : IsTheList(s)
  BY DEF IInv, ListInv
<1>2. ListInv'
  BY <1>1, ListStep DEF ListInv
<1> QED  BY <1>2, TypeStep, PlaceStep, HandStep DEF IInv

\* The list as the properties see it: At walks along it, Length counts it, and read from
\* its end it is the stack.
ItemsAreTheList ==
  \A s \in Seq(Node) : TypeOK /\ Linked(s) =>
    /\ Len(s) <= MaxNodes /\ Length = Len(s)
    /\ At = [d \in 0 .. MaxNodes |-> IF d < Len(s) THEN s[Len(s) - d] ELSE NULL]
    /\ [d \in 1 .. Length |-> At[Length - d]] = s

\* What the recursive functions of the properties compute, for a list without a circle.
LEMMA TheList == ItemsAreTheList
<1> SUFFICES ASSUME NEW s \in Seq(Node), TypeOK, Linked(s)
             PROVE  /\ Len(s) <= MaxNodes /\ Length = Len(s)
                    /\ At = [d \in 0 .. MaxNodes |-> IF d < Len(s) THEN s[Len(s) - d] ELSE NULL]
                    /\ [d \in 1 .. Length |-> At[Length - d]] = s
  BY DEF ItemsAreTheList
<1> DEFINE n == Len(s)
<1>0. n \in Nat /\ MaxNodes \in Nat /\ NULL \notin Node
  BY CondStackAssumption DEF NULL, Node
<1>1. n <= MaxNodes
  BY <1>0, NoLongerThan DEF Linked, Node
<1>2. At = [d \in 0 .. MaxNodes |-> IF d < Len(s) THEN s[Len(s) - d] ELSE NULL]
  <2>1. At = CHOOSE f : IsWay(f, head, next, NULL, MaxNodes)
    BY DEF At, IsWay
  <2>2. PICK g : g = [d \in 0 .. n - 1 |-> s[n - d]]
    OBVIOUS
  <2>3. IsChain(g, n, head, next, NULL)
    <3>1. \A k \in 0 .. n - 1 : n - k \in 1 .. n /\ g[k] = s[n - k] /\ s[n - k] \in Node
      BY <2>2
    <3> QED  BY <1>0, <2>2, <3>1 DEF Linked, IsChain
  <2>4. /\ IsWay(Along(g, n, NULL, MaxNodes), head, next, NULL, MaxNodes)
        /\ \A f : IsWay(f, head, next, NULL, MaxNodes) => f = Along(g, n, NULL, MaxNodes)
    BY ONLY <1>0, <2>3, TheWay
  <2>5. Along(g, n, NULL, MaxNodes)
          = [d \in 0 .. MaxNodes |-> IF d < Len(s) THEN s[Len(s) - d] ELSE NULL]
    BY <2>2 DEF Along
  <2> QED  BY ONLY <2>1, <2>4, <2>5
<1>3. \A d \in 0 .. MaxNodes : At[d] = IF d < n THEN s[n - d] ELSE NULL
  BY ONLY <1>2
<1>4. Length = n
  <2>1. \A d \in 0 .. MaxNodes - 1 : At[d] # NULL <=> d < n
    BY <1>0, <1>3
  <2>2. {d \in 0 .. MaxNodes - 1 : At[d] # NULL} = 0 .. n - 1
    BY <1>0, <1>1, <2>1
  <2>3. Cardinality(0 .. n - 1) = n
    <3> HIDE DEF n
    <3>1. 0 \in Int /\ n - 1 \in Int
      BY <1>0
    <3>2. Cardinality(0 .. n - 1) = IF 0 > n - 1 THEN 0 ELSE (n - 1) - 0 + 1
      BY <3>1, FS_Interval, Zenon
    <3> QED  BY <1>0, <3>2
  <2> QED  BY <2>2, <2>3 DEF Length
<1>5. [d \in 1 .. Length |-> At[Length - d]] = s
  <2>1. \A d \in 1 .. n : At[n - d] = s[d]
    BY <1>0, <1>1, <1>3
  <2>2. s = [d \in 1 .. n |-> s[d]]
    OBVIOUS
  <2> HIDE DEF n
  <2> QED  BY <1>4, <2>1, <2>2
<1> QED  BY <1>1, <1>2, <1>4, <1>5

\* The nodes on the way from the head are the members of the list.
LEMMA ListedNodes ==
  ASSUME TypeOK, NEW s \in Seq(Node), Linked(s)
  PROVE  Listed = {s[k] : k \in 1 .. Len(s)}
<1>2. At = [d \in 0 .. MaxNodes |-> IF d < Len(s) THEN s[Len(s) - d] ELSE NULL]
  BY TheList, Zenon DEF ItemsAreTheList
<1>a. Len(s) <= MaxNodes
  BY TheList, Zenon DEF ItemsAreTheList
<1>b. NULL \notin Node
  BY DEF NULL, Node
<1>1. /\ Len(s) \in Nat /\ Len(s) <= MaxNodes /\ NULL \notin Node
      /\ \A k \in 1 .. Len(s) : s[k] \in Node
  BY <1>a, <1>b
<1>3. \A d \in 0 .. MaxNodes : At[d] = IF d < Len(s) THEN s[Len(s) - d] ELSE NULL
  BY ONLY <1>2
<1>4. ASSUME NEW k \in 1 .. Len(s) PROVE s[k] \in Listed
  <2>1. Len(s) - k \in 0 .. MaxNodes - 1 /\ At[Len(s) - k] = s[k] /\ s[k] # NULL
    BY <1>1, <1>3, CondStackAssumption
  <2> QED  BY <2>1 DEF Listed
<1>5. ASSUME NEW n \in Listed PROVE \E k \in 1 .. Len(s) : n = s[k]
  <2>1. PICK d \in 0 .. MaxNodes - 1 : n = At[d] /\ At[d] # NULL
    BY DEF Listed
  <2>2. d < Len(s) /\ At[d] = s[Len(s) - d]
    BY <1>1, <1>3, <2>1, CondStackAssumption
  <2> QED  BY <1>1, <2>1, <2>2
<1> QED  BY <1>4, <1>5

\* A node is on the list, or in one hand, or free.
LEMMA OneOwner == IInv => EveryNodeHasOneOwner
<1> SUFFICES ASSUME IInv PROVE EveryNodeHasOneOwner
  OBVIOUS
<1>1. PICK s \in Seq(Node) : IsTheList(s)
  BY DEF IInv, ListInv
<1>2. TypeOK /\ Linked(s) /\ Owned(s)
  BY <1>1 DEF IInv, IsTheList
<1>3. Listed = {s[k] : k \in 1 .. Len(s)}
  BY <1>2, ListedNodes
<1>4. At[MaxNodes] = NULL
  <2>1. At = [d \in 0 .. MaxNodes |-> IF d < Len(s) THEN s[Len(s) - d] ELSE NULL]
    BY <1>2, TheList, Zenon DEF ItemsAreTheList
  <2>2. Len(s) <= MaxNodes
    BY <1>2, TheList, Zenon DEF ItemsAreTheList
  <2> QED  BY ONLY <2>1, <2>2, s \in Seq(Node), CondStackAssumption
<1>5. Listed \subseteq allocated
  BY <1>2, <1>3 DEF Owned
<1> DEFINE Holders(n) == {t \in Thread : p[t] = n /\ pc[t] \in {"link", "free"}}
<1>6. ASSUME NEW n \in Node, n \in allocated
      PROVE  Cardinality(Holders(n)) + (IF n \in Listed THEN 1 ELSE 0) = 1
  <2>1. CASE n \in Listed
    <3>1. Holders(n) = {}
      BY <1>2, <1>3, <2>1 DEF Owned, InHands
    <3>2. Cardinality(Holders(n)) = 0
      BY ONLY <3>1, FS_EmptySet
    <3> QED  BY ONLY <2>1, <3>2
  <2>2. CASE n \notin Listed
    <3>1. PICK t \in Thread : pc[t] \in InHands /\ p[t] = n
      BY <1>2, <1>3, <1>6, <2>2 DEF Owned
    <3>2. Holders(n) = {t}
      BY <3>1 DEF IInv, HandInv, InHands
    <3>3. Cardinality(Holders(n)) = 1
      BY ONLY <3>2, FS_Singleton
    <3> QED  BY ONLY <2>2, <3>3
  <2> QED  BY <2>1, <2>2
<1> QED  BY <1>4, <1>5, <1>6 DEF EveryNodeHasOneOwner

\* The inductive invariant says more than the safety of the list.
LEMMA StackIsSound == IInv => StackInv
<1> SUFFICES ASSUME IInv PROVE StackInv
  OBVIOUS
<1>1. PICK s \in Seq(Node) : IsTheList(s)
  BY DEF IInv, ListInv
<1>2. NoNullNode
  BY <1>1, CondStackAssumption
  DEF IInv, TypeOK, HandInv, IsTheList, Owned, InHands, NoNullNode, Thread, Node, NULL
<1>3. EverySignalCounts
  <2>1. Length = Len(s)
    BY <1>1, TheList, Zenon DEF ItemsAreTheList, IInv, IsTheList
  <2> QED  BY <1>1, <2>1 DEF IsTheList, Announced, EverySignalCounts
<1> QED  BY <1>2, <1>3, OneOwner DEF IInv, StackInv

\* The steps of produce() and consume() keep the list linked, owned and announced.
THEOREM Invariance == Spec => []IInv
<1>1. IInv /\ [Next]_vars => IInv'
  BY StepInv
<1> QED  BY InitInv, <1>1, PTL DEF Spec

\* For any number of producers, consumers and nodes: a node of 02.c is on the list, in one
\* hand or free, nobody takes from an empty list, and every signal counts for the sleepers.
THEOREM ListIsSafe == Spec => []StackInv
  BY Invariance, StackIsSound, PTL

\* produce() and consume() push and pop: linking a node and unlinking the head are the two
\* steps of a stack, and all other steps leave the stack as it is.
THEOREM ImplementsStack == Spec => IsAStack
<1>1. Init => Abstract!Init
  <2> SUFFICES ASSUME Init PROVE Abstract!Init
    OBVIOUS
  <2>1. TypeOK /\ <<>> \in Seq(Node) /\ Linked(<<>>)
    BY InitInv DEF IInv, Init, Linked
  <2>2. [d \in 1 .. Length |-> At[Length - d]] = <<>>
    BY <2>1, TheList, Zenon DEF ItemsAreTheList
  <2> QED  BY <2>2 DEF Abstract!Init
<1>2. IInv /\ IInv' /\ ItemsAreTheList /\ ItemsAreTheList' /\ [Next]_vars
        => [Abstract!Push \/ Abstract!Pop]_([d \in 1 .. Length |-> At[Length - d]])
  <2> SUFFICES ASSUME IInv, IInv', ItemsAreTheList, ItemsAreTheList', [Next]_vars
               PROVE  [Abstract!Push \/ Abstract!Pop]_([d \in 1 .. Length |-> At[Length - d]])
    OBVIOUS
  <2>1. PICK s \in Seq(Node) : IsTheList(s)
    BY DEF IInv, ListInv
  <2>2. PICK q \in Seq(Node) :
          /\ IsTheList(q)'
          /\ \/ q = s
             \/ \E v \in Node : q = Append(s, v)
             \/ s # <<>> /\ q = SubSeq(s, 1, Len(s) - 1)
    BY <2>1, ListStep
  <2>3. [d \in 1 .. Length |-> At[Length - d]] = s
    BY <2>1, Zenon DEF ItemsAreTheList, IInv, IsTheList
  <2>4. [d \in 1 .. Length' |-> At'[Length' - d]] = q
    BY <2>2, Zenon DEF ItemsAreTheList, IInv, IsTheList
  <2> QED  BY <2>2, <2>3, <2>4 DEF Abstract!Push, Abstract!Pop
<1> QED
  BY <1>1, <1>2, TheList, Invariance, PTL DEF Spec, IsAStack, Abstract!Spec

(***************************************************************************)
(* Proofs about SemList, for any number of poppers and elements.           *)
(***************************************************************************)

\* s is the list from its head to the end, and all of it is allocated.
Chained(s) ==
  /\ \A k, m \in 1 .. Len(s) : s[k] = s[m] => k = m
  /\ lista = IF Len(s) = 0 THEN NoElement ELSE s[1]
  /\ \A k \in 1 .. Len(s) : slNext[s[k]] = IF k = Len(s) THEN NoElement ELSE s[k + 1]
  /\ \A k \in 1 .. Len(s) : s[k] \in slAllocated

\* A thread on its way is at an element of the list, with the one before it in prev.
Walking(s) ==
  \A t \in ListThread : slPc[t] \in {"malloc", "walk"} =>
    \/ Len(s) = 0 /\ cursor[t] = NoElement
    \/ \E k \in 1 .. Len(s) :
         cursor[t] = s[k] /\ prev[t] = IF k = 1 THEN NoElement ELSE s[k - 1]

\* The new element is not on the list yet.
Fresh(s) ==
  slPc["pusher"] = "walk" =>
    new \in slAllocated /\ slNext[new] = NoElement /\ \A k \in 1 .. Len(s) : s[k] # new

\* The semaphore counts the elements that nobody has been let in for; the one that
\* push_f() has added is counted when it posts.
Owed  == {t \in Popper : slPc[t] \in {"lock", "walk"}}
Extra == IF slPc["pusher"] \in {"unlock", "post"} THEN 1 ELSE 0

Counted(s) == Len(s) = sem + Cardinality(Owed) + Extra

IsTheChain(s) == Chained(s) /\ Walking(s) /\ Fresh(s) /\ Counted(s)

ChainInv == \E s \in Seq(Element) : IsTheChain(s)

\* The mutex belongs to whoever is between lock and unlock; only the pusher allocates.
SemPlaceInv ==
  /\ \A t \in ListThread : slMutex = t <=> slPc[t] \in {"malloc", "walk", "unlock"}
  /\ \A t \in Popper : slPc[t] \notin {"malloc", "post"}

SemIInv == SemTypeOK /\ SemPlaceInv /\ ChainInv
-----------------------------------------------------------------------------
\* The empty list is the list of the initial state, and the semaphore counts none.
LEMMA SemInitInv == SemInit => SemIInv
<1> SUFFICES ASSUME SemInit PROVE SemIInv
  OBVIOUS
<1> USE ListAssumption DEF SemInit
<1>1. SemTypeOK
  <2>1. value \in [Element -> Value]
    OBVIOUS
  <2> QED  BY <2>1 DEF SemTypeOK, ListThread, NoElement
<1>2. SemPlaceInv
  BY DEF SemPlaceInv, ListThread, NoThread
<1>3. <<>> \in Seq(Element) /\ Chained(<<>>) /\ Walking(<<>>) /\ Fresh(<<>>)
  BY DEF Chained, Walking, Fresh, ListThread
<1>4. Counted(<<>>)
  <2>1. Owed = {} /\ Extra = 0
    BY DEF Owed, Extra, ListThread
  <2>2. Cardinality(Owed) = 0
    BY <2>1, FS_EmptySet
  <2> QED  BY <2>1, <2>2 DEF Counted
<1> QED  BY <1>1, <1>2, <1>3, <1>4 DEF SemIInv, ChainInv, IsTheChain

\* The poppers that were let in and have no element yet can be counted.
LEMMA OwedIsFinite == IsFiniteSet(Owed) /\ Cardinality(Owed) \in Nat
<1>1. IsFiniteSet(Popper) /\ Owed \subseteq Popper
  BY ListAssumption DEF Owed
<1> QED  BY <1>1, FS_Subset, FS_CardinalityType

\* What has been counted is no more than there are elements.
LEMMA NoMoreThan ==
  ASSUME NEW s \in Seq(Element), Chained(s)
  PROVE  Len(s) <= MaxElements
  BY ListAssumption, NoLongerThan DEF Chained, Element

\* The pusher is no popper, and a free mutex belongs to none of them.
LEMMA NoThreadIsNoListThread == NoThread \notin ListThread /\ "pusher" \notin Popper
  BY ListAssumption DEF ListThread, NoThread

\* Every step of push_f() and pop_f() keeps the variables in their sets.
LEMMA SemTypeStep == SemIInv /\ [SemNext]_slVars => SemTypeOK'
<1> SUFFICES ASSUME SemIInv, [SemNext]_slVars PROVE SemTypeOK'
  OBVIOUS
<1> USE ListAssumption
    DEF SemIInv, SemTypeOK, SemGoto, Lock, Unlock, slHeap, slSync, slVars, ListThread, NoElement
<1>1. ASSUME NEW t \in ListThread, EnterList(t) PROVE SemTypeOK'
  BY <1>1 DEF EnterList
<1>2. ASSUME NEW t \in ListThread, Walk(t) PROVE SemTypeOK'
  BY <1>2 DEF Walk
<1>3. ASSUME NEW t \in ListThread, Leave(t) PROVE SemTypeOK'
  BY <1>3 DEF Leave
<1>4. CASE Draw
  BY <1>4 DEF Draw
<1>5. CASE MallocElement
  BY <1>5 DEF MallocElement
<1>6. CASE Append_
  BY <1>6 DEF Append_
<1>7. CASE Post
  <2>1. sem + 1 \in 0 .. MaxElements
    <3>1. PICK s \in Seq(Element) : Chained(s) /\ Counted(s)
      BY DEF ChainInv, IsTheChain
    <3>2. Len(s) <= MaxElements /\ Extra = 1 /\ Cardinality(Owed) \in Nat
      BY <1>7, <3>1, NoMoreThan, OwedIsFinite DEF Extra, Post
    <3> QED  BY <3>1, <3>2 DEF Counted
  <2> QED  BY <1>7, <2>1 DEF Post, SemPost
<1>8. ASSUME NEW t \in Popper, WaitElement(t) PROVE SemTypeOK'
  BY <1>8 DEF WaitElement, SemWait
<1>9. ASSUME NEW t \in Popper, PopEmpty(t) PROVE SemTypeOK'
  BY <1>9 DEF PopEmpty
<1>10. ASSUME NEW t \in Popper, Remove(t) PROVE SemTypeOK'
  BY <1>10 DEF Remove
<1>11. CASE UNCHANGED slVars
  BY <1>11
<1> QED
  BY <1>1, <1>2, <1>3, <1>4, <1>5, <1>6, <1>7, <1>8, <1>9, <1>10, <1>11
  DEF SemNext, pushThread, popThread, OutOfElements

\* A thread of zad_dom1.c is between lock and unlock exactly when it owns the mutex.
LEMMA SemPlaceStep == SemTypeOK /\ SemPlaceInv /\ [SemNext]_slVars => SemPlaceInv'
<1> SUFFICES ASSUME SemTypeOK, SemPlaceInv, [SemNext]_slVars PROVE SemPlaceInv'
  OBVIOUS
<1> USE ListAssumption
    DEF SemTypeOK, SemPlaceInv, SemGoto, Lock, Unlock, slHeap, slSync, slVars, ListThread,
        NoThread
<1>1. ASSUME NEW t \in ListThread, EnterList(t) PROVE SemPlaceInv'
  BY <1>1 DEF EnterList
<1>2. ASSUME NEW t \in ListThread, Walk(t) PROVE SemPlaceInv'
  BY <1>2 DEF Walk
<1>3. ASSUME NEW t \in ListThread, Leave(t) PROVE SemPlaceInv'
  BY <1>3 DEF Leave
<1>4. CASE Draw
  BY <1>4 DEF Draw
<1>5. CASE MallocElement
  BY <1>5 DEF MallocElement
<1>6. CASE Append_
  BY <1>6 DEF Append_
<1>7. CASE Post
  BY <1>7 DEF Post
<1>8. ASSUME NEW t \in Popper, WaitElement(t) PROVE SemPlaceInv'
  BY <1>8 DEF WaitElement
<1>9. ASSUME NEW t \in Popper, PopEmpty(t) PROVE SemPlaceInv'
  BY <1>9 DEF PopEmpty
<1>10. ASSUME NEW t \in Popper, Remove(t) PROVE SemPlaceInv'
  BY <1>10 DEF Remove
<1>11. CASE UNCHANGED slVars
  BY <1>11
<1> QED
  BY <1>1, <1>2, <1>3, <1>4, <1>5, <1>6, <1>7, <1>8, <1>9, <1>10, <1>11
  DEF SemNext, pushThread, popThread, OutOfElements

\* What is counted stays counted when the steps of a thread do not touch it.
LEMMA SameCount ==
  ASSUME NEW s \in Seq(Element), Counted(s), sem' = sem, Owed' = Owed, Extra' = Extra
  PROVE  Counted(s)'
  BY DEF Counted

\* One thread more that is owed an element, or one less.
LEMMA OneOwed ==
  ASSUME NEW t \in Popper
  PROVE  /\ t \notin Owed => Cardinality(Owed \cup {t}) = Cardinality(Owed) + 1
         /\ t \in Owed => Cardinality(Owed \ {t}) = Cardinality(Owed) - 1
  BY OwedIsFinite, FS_AddElement, FS_RemoveElement

\* push_f() puts its new element behind the last one, where the walk has ended.
LEMMA AppendStep ==
  ASSUME SemIInv, Append_, NEW s \in Seq(Element), IsTheChain(s), NEW q, q = Append(s, new)
  PROVE  q \in Seq(Element) /\ IsTheChain(q)'
<1> USE ListAssumption DEF SemIInv, SemTypeOK, SemPlaceInv, SemGoto, ListThread, slSync
<1>1. /\ new \in Element /\ new \in slAllocated /\ slNext[new] = NoElement
      /\ \A k \in 1 .. Len(s) : s[k] # new
  BY DEF Append_, IsTheChain, Fresh
<1>2. /\ q \in Seq(Element) /\ Len(q) = Len(s) + 1 /\ q[Len(q)] = new
      /\ \A k \in 1 .. Len(s) : q[k] = s[k]
  BY <1>1
<1>3. Chained(s) /\ slAllocated' = slAllocated /\ slPc["pusher"] = "walk"
  BY DEF Append_, IsTheChain
<1>4. /\ lista' = q[1]
      /\ \A k \in 1 .. Len(s) : slNext'[s[k]] = q[k + 1]
      /\ slNext'[new] = NoElement
  <2>1. CASE Len(s) = 0
    <3>1. lista' = new /\ slNext' = slNext
      BY <1>3, <2>1 DEF Append_, Chained
    <3> QED  BY <1>1, <1>2, <2>1, <3>1
  <2>2. CASE Len(s) # 0
    <3>1. 1 \in 1 .. Len(s) /\ lista = s[1] /\ lista # NoElement
      BY <1>3, <2>2 DEF Chained, Element, NoElement
    <3>2. /\ lista' = lista /\ slNext[cursor["pusher"]] = NoElement
          /\ slNext' = [slNext EXCEPT ![cursor["pusher"]] = new]
      BY <3>1 DEF Append_
    <3>3. PICK k \in 1 .. Len(s) : cursor["pusher"] = s[k]
      BY <1>3, <2>2 DEF IsTheChain, Walking
    <3>4. k = Len(s)
      <4>1. k # Len(s) => slNext[s[k]] = s[k + 1] /\ s[k + 1] \in Element
        BY <1>3 DEF Chained
      <4> QED  BY <3>2, <3>3, <4>1 DEF Element, NoElement
    <3>5. \A m \in 1 .. Len(s) : s[m] \in Element /\ (s[m] = s[k] => m = k)
      BY <1>3 DEF Chained
    <3>6. slNext'[s[k]] = new /\ \A m \in 1 .. Len(s) : m # k => slNext'[s[m]] = s[m + 1]
      BY <1>3, <3>2, <3>3, <3>4, <3>5 DEF Chained
    <3>7. slNext'[new] = NoElement
      BY <1>1, <3>2, <3>3
    <3>8. q[1] = s[1] /\ q[Len(s) + 1] = new /\ \A m \in 1 .. Len(s) : q[m] = s[m]
      BY <1>2, <3>1
    <3>9. \A m \in 1 .. Len(s) : slNext'[s[m]] = q[m + 1]
      BY <3>4, <3>6, <3>8
    <3> QED  BY <3>1, <3>2, <3>7, <3>8, <3>9
  <2> QED  BY <2>1, <2>2
<1>5. Chained(q)'
  <2>1. \A k, m \in 1 .. Len(q) : q[k] = q[m] => k = m
    BY <1>1, <1>2, <1>3 DEF Chained
  <2>2. \A k \in 1 .. Len(q) : q[k] \in slAllocated
    BY <1>1, <1>2, <1>3 DEF Chained
  <2>3. \A k \in 1 .. Len(q) : slNext'[q[k]] = IF k = Len(q) THEN NoElement ELSE q[k + 1]
    BY <1>2, <1>4
  <2> QED  BY <1>2, <1>3, <1>4, <2>1, <2>2, <2>3 DEF Chained
<1>6. Walking(q)' /\ Fresh(q)'
  BY <1>3, NoThreadIsNoListThread DEF Append_, Walking, Fresh
<1>7. Counted(q)'
  <2>1. Owed' = Owed /\ Extra' = 1 /\ Extra = 0 /\ sem' = sem
    BY <1>3 DEF Append_, Owed, Extra
  <2>2. Len(s) = sem + Cardinality(Owed) + Extra /\ sem \in Nat /\ Cardinality(Owed) \in Nat
    BY OwedIsFinite DEF IsTheChain, Counted
  <2> QED  BY <1>2, <2>1, <2>2 DEF Counted
<1> QED  BY <1>2, <1>5, <1>6, <1>7 DEF IsTheChain

\* pop_f() takes the last element, where the walk has ended, and leaves the one before it.
LEMMA RemoveStep ==
  ASSUME SemIInv, NEW t \in Popper, Remove(t), NEW s \in Seq(Element), IsTheChain(s),
         NEW q, q = SubSeq(s, 1, Len(s) - 1)
  PROVE  s # <<>> /\ q \in Seq(Element) /\ IsTheChain(q)'
<1> USE ListAssumption DEF SemIInv, SemTypeOK, SemPlaceInv, SemGoto, ListThread, slSync
<1>1. /\ Len(s) # 0 /\ cursor[t] = s[Len(s)]
      /\ prev[t] = IF Len(s) = 1 THEN NoElement ELSE s[Len(s) - 1]
  <2>1. PICK k \in 1 .. Len(s) :
          cursor[t] = s[k] /\ prev[t] = IF k = 1 THEN NoElement ELSE s[k - 1]
    BY DEF Remove, IsTheChain, Walking
  <2>2. k # Len(s) => slNext[s[k]] = s[k + 1] /\ s[k + 1] \in Element
    BY DEF IsTheChain, Chained
  <2>3. k = Len(s)
    BY <2>1, <2>2 DEF Remove, Element, NoElement
  <2> QED  BY <2>1, <2>3
<1>2. /\ q \in Seq(Element) /\ Len(q) = Len(s) - 1 /\ s # <<>>
      /\ \A k \in 1 .. Len(q) : q[k] = s[k]
  <2>1. Len(s) # 0
    BY <1>1
  <2> QED  BY ONLY s \in Seq(Element), q = SubSeq(s, 1, Len(s) - 1), <2>1, WithoutLast
<1>3. /\ Chained(s) /\ slPc[t] = "walk"
      /\ slAllocated' = slAllocated \ {s[Len(s)]}
      /\ \A k \in 1 .. Len(s) : s[k] \in Element /\ s[k] # NoElement
  BY <1>1 DEF Remove, IsTheChain, Element, NoElement
<1>4. /\ lista' = IF Len(q) = 0 THEN NoElement ELSE q[1]
      /\ \A k \in 1 .. Len(q) : slNext'[q[k]] = IF k = Len(q) THEN NoElement ELSE q[k + 1]
  <2>1. CASE Len(s) = 1
    BY <1>1, <1>2, <2>1 DEF Remove
  <2>2. CASE Len(s) # 1
    <3>1. Len(s) - 1 \in 1 .. Len(s) /\ prev[t] = s[Len(s) - 1] /\ prev[t] # NoElement
      <4>1. Len(s) - 1 \in 1 .. Len(s)
        <5>1. PICK n : n = Len(s)
          OBVIOUS
        <5>2. n \in Nat /\ n # 0 /\ n # 1
          BY <1>1, <2>2, <5>1
        <5>3. n - 1 \in 1 .. n
          BY ONLY <5>2
        <5> QED  BY ONLY <5>1, <5>3
      <4> QED  BY ONLY <1>1, <1>3, <2>2, <4>1
    <3>2. lista' = lista /\ slNext' = [slNext EXCEPT ![s[Len(s) - 1]] = NoElement]
      BY <3>1 DEF Remove
    <3>3. \A k \in 1 .. Len(s) : s[k] = s[Len(s) - 1] => k = Len(s) - 1
      BY <1>3, <3>1 DEF Chained
    <3>4. \A k \in 1 .. Len(q) :
            slNext'[s[k]] = IF k = Len(s) - 1 THEN NoElement ELSE s[k + 1]
      BY <1>2, <1>3, <3>2, <3>3 DEF Chained
    <3>5. lista = s[1]
      BY <1>1, <1>3 DEF Chained
    <3>6. Len(q) # 0 /\ 1 \in 1 .. Len(q)
      BY <1>2, <3>1
    <3> QED  BY <1>2, <3>2, <3>4, <3>5, <3>6
  <2> QED  BY <2>1, <2>2
<1>5. Chained(q)'
  <2>1. \A k, m \in 1 .. Len(q) : q[k] = q[m] => k = m
    BY <1>2, <1>3 DEF Chained
  <2>2. \A k \in 1 .. Len(q) : q[k] \in slAllocated /\ q[k] # s[Len(s)]
    BY <1>1, <1>2, <1>3 DEF Chained
  <2> QED  BY <1>3, <1>4, <2>1, <2>2 DEF Chained
<1>6. Walking(q)' /\ Fresh(q)'
  BY <1>3, NoThreadIsNoListThread DEF Remove, Walking, Fresh
<1>7. Counted(q)'
  <2>1. Owed' = Owed \ {t} /\ t \in Owed /\ Extra' = Extra /\ sem' = sem
    BY <1>3 DEF Remove, Owed, Extra
  <2>2. Cardinality(Owed \ {t}) = Cardinality(Owed) - 1
    BY <2>1, OneOwed
  <2>3. Len(s) = sem + Cardinality(Owed) + Extra /\ Cardinality(Owed) \in Nat /\ Extra \in Nat
    BY OwedIsFinite DEF IsTheChain, Counted, Extra
  <2> QED  BY <1>2, <2>1, <2>2, <2>3 DEF Counted
<1> QED  BY <1>2, <1>5, <1>6, <1>7 DEF IsTheChain

\* A new element is on no list, whatever value it gets.
LEMMA MallocElementStep ==
  ASSUME SemIInv, MallocElement, NEW s \in Seq(Element), IsTheChain(s)
  PROVE  IsTheChain(s)' /\ \A k \in 1 .. Len(s) : value'[s[k]] = value[s[k]]
<1> USE ListAssumption DEF SemIInv, SemTypeOK, SemPlaceInv, SemGoto, ListThread, slSync
<1>1. PICK n \in Element \ slAllocated, v \in Value :
        /\ new' = n /\ slAllocated' = slAllocated \cup {n}
        /\ value' = [value EXCEPT ![n] = v] /\ slNext' = [slNext EXCEPT ![n] = NoElement]
  BY DEF MallocElement
<1>2. Chained(s) /\ \A k \in 1 .. Len(s) : s[k] \in Element /\ s[k] # n
  BY <1>1 DEF IsTheChain, Chained
<1>3. \A k \in 1 .. Len(s) : slNext'[s[k]] = slNext[s[k]] /\ value'[s[k]] = value[s[k]]
  BY <1>1, <1>2
<1>4. lista' = lista /\ sem' = sem /\ cursor' = cursor /\ prev' = prev
      /\ slPc["pusher"] = "malloc" /\ slPc' = [slPc EXCEPT !["pusher"] = "walk"]
  BY DEF MallocElement
<1>5. Chained(s)'
  BY <1>1, <1>2, <1>3, <1>4 DEF Chained
<1>6. Walking(s)'
  BY <1>4 DEF IsTheChain, Walking
<1>7. Fresh(s)'
  BY <1>1, <1>2, <1>4 DEF Fresh
<1>8. Owed' = Owed /\ Extra' = Extra
  BY <1>4, NoThreadIsNoListThread DEF Owed, Extra
<1>9. Counted(s)'
  BY <1>4, <1>8, SameCount DEF IsTheChain
<1> QED  BY <1>3, <1>5, <1>6, <1>7, <1>9 DEF IsTheChain

\* A thread on its way goes on to the next element of the list.
LEMMA WalkStep ==
  ASSUME SemIInv, NEW t \in ListThread, Walk(t), NEW s \in Seq(Element), IsTheChain(s)
  PROVE  IsTheChain(s)'
<1> USE ListAssumption DEF SemIInv, SemTypeOK, SemPlaceInv, SemGoto, ListThread, slSync, slHeap
<1>1. PICK k \in 1 .. Len(s) : cursor[t] = s[k]
  BY DEF Walk, IsTheChain, Walking
<1>2. k + 1 \in 1 .. Len(s) /\ slNext[s[k]] = s[k + 1]
  BY <1>1 DEF Walk, IsTheChain, Chained
<1>3. \A u \in ListThread : u # t => slPc[u] \notin {"malloc", "walk"}
  BY DEF Walk
<1>4. Walking(s)'
  <2> SUFFICES ASSUME NEW u \in ListThread, slPc[u] \in {"malloc", "walk"}
               PROVE  \E m \in 1 .. Len(s) :
                        cursor'[u] = s[m] /\ prev'[u] = IF m = 1 THEN NoElement ELSE s[m - 1]
    BY DEF Walk, Walking
  <2>1. cursor'[t] = s[k + 1] /\ prev'[t] = s[k]
    BY <1>1, <1>2 DEF Walk
  <2>2. k + 1 # 1 /\ (k + 1) - 1 = k
    OBVIOUS
  <2> QED  BY <1>2, <1>3, <2>1, <2>2
<1>5. Chained(s)' /\ Fresh(s)'
  BY DEF Walk, IsTheChain, Chained, Fresh
<1>6. Owed' = Owed /\ Extra' = Extra
  BY DEF Walk, Owed, Extra
<1>7. Counted(s)'
  BY <1>6, SameCount DEF Walk, IsTheChain
<1> QED  BY <1>4, <1>5, <1>7 DEF IsTheChain

\* A thread that gets the mutex starts at the head.
LEMMA EnterListStep ==
  ASSUME SemIInv, NEW t \in ListThread, EnterList(t), NEW s \in Seq(Element), IsTheChain(s)
  PROVE  IsTheChain(s)'
<1> USE ListAssumption DEF SemIInv, SemTypeOK, SemPlaceInv, SemGoto, ListThread, slHeap
<1>1. /\ \A u \in ListThread : slPc[u] \notin {"malloc", "walk"}
      /\ slPc[t] = "lock"
      /\ slPc' = [slPc EXCEPT ![t] = IF t = "pusher" THEN "malloc" ELSE "walk"]
  BY NoThreadIsNoListThread DEF EnterList, Lock
<1>2. Walking(s)'
  <2>1. cursor'[t] = lista /\ prev'[t] = NoElement
    BY DEF EnterList
  <2>2. \A u \in ListThread : slPc'[u] \in {"malloc", "walk"} => u = t
    BY <1>1
  <2>3. \/ Len(s) = 0 /\ lista = NoElement
        \/ 1 \in 1 .. Len(s) /\ lista = s[1]
    BY DEF IsTheChain, Chained
  <2> QED  BY <2>1, <2>2, <2>3 DEF Walking
<1>3. Chained(s)'
  BY DEF EnterList, IsTheChain, Chained
<1>4. Fresh(s)'
  BY <1>1 DEF Fresh
<1>5. Owed' = Owed /\ Extra' = Extra /\ sem' = sem
  BY <1>1, NoThreadIsNoListThread DEF EnterList, Owed, Extra
<1>6. Counted(s)'
  BY <1>5, SameCount DEF IsTheChain
<1> QED  BY <1>2, <1>3, <1>4, <1>6 DEF IsTheChain

\* A step of a thread that is not on its way, before it and after it.
LEMMA SameChain ==
  ASSUME SemIInv, NEW s \in Seq(Element), IsTheChain(s), UNCHANGED <<slHeap, new>>,
         NEW t \in ListThread, SemTypeOK',
         \A u \in ListThread : u # t =>
           slPc'[u] = slPc[u] /\ cursor'[u] = cursor[u] /\ prev'[u] = prev[u],
         slPc'[t] \notin {"malloc", "walk"}
  PROVE  Chained(s)' /\ Walking(s)' /\ Fresh(s)'
<1> USE DEF slHeap, ListThread, IsTheChain
<1>1. Chained(s)'
  BY DEF Chained
<1>2. Walking(s)'
  BY DEF Walking
<1>3. Fresh(s)'
  BY DEF Fresh
<1> QED  BY <1>1, <1>2, <1>3

\* Whoever the semaphore has let pass finds an element.
LEMMA EveryPopperFindsOne ==
  ASSUME SemIInv, NEW s \in Seq(Element), IsTheChain(s), NEW t \in Popper, slPc[t] = "walk"
  PROVE  Len(s) # 0 /\ cursor[t] # NoElement
<1>1. t \in Owed
  BY DEF Owed
<1>2. Cardinality(Owed) # 0
  BY <1>1, OwedIsFinite, FS_EmptySet
<1>3. sem \in Nat /\ Extra \in Nat /\ Cardinality(Owed) \in Nat
  BY OwedIsFinite DEF SemIInv, SemTypeOK, Extra
<1>4. Len(s) # 0
  BY <1>2, <1>3 DEF IsTheChain, Counted
<1>5. PICK k \in 1 .. Len(s) : cursor[t] = s[k]
  BY <1>4 DEF IsTheChain, Walking, ListThread
<1>6. s[k] \in Element
  OBVIOUS
<1> QED  BY <1>4, <1>5, <1>6 DEF Element, NoElement

\* What a step does to the list.
LEMMA ChainStep ==
  ASSUME SemIInv, SemTypeOK', [SemNext]_slVars, NEW s \in Seq(Element), IsTheChain(s)
  PROVE  \E q \in Seq(Element) :
           /\ IsTheChain(q)'
           /\ \/ q = s /\ \A k \in 1 .. Len(s) : value'[s[k]] = value[s[k]]
              \/ q = Append(s, new) /\ new \in Element /\ value' = value
              \/ s # <<>> /\ q = SubSeq(s, 1, Len(s) - 1) /\ value' = value
<1> DEFINE Becomes(q) == /\ q \in Seq(Element) /\ IsTheChain(q)'
                         /\ \/ q = s /\ \A k \in 1 .. Len(s) : value'[s[k]] = value[s[k]]
                            \/ q = Append(s, new) /\ new \in Element /\ value' = value
                            \/ s # <<>> /\ q = SubSeq(s, 1, Len(s) - 1) /\ value' = value
<1> SUFFICES \E q : Becomes(q)
  OBVIOUS
<1>0. IsTheChain(s)' /\ value' = value => Becomes(s)
  OBVIOUS
<1>a. SemTypeOK /\ SemPlaceInv /\ Counted(s)
  BY DEF SemIInv, IsTheChain
<1> USE DEF SemGoto, ListThread, slSync
<1>1. ASSUME NEW t \in ListThread, EnterList(t) PROVE \E q : Becomes(q)
  BY <1>0, <1>1, EnterListStep DEF EnterList, slHeap
<1>2. ASSUME NEW t \in ListThread, Walk(t) PROVE \E q : Becomes(q)
  BY <1>0, <1>2, WalkStep DEF Walk, slHeap
<1>3. ASSUME NEW t \in ListThread, Leave(t) PROVE \E q : Becomes(q)
  <2>1. Chained(s)' /\ Walking(s)' /\ Fresh(s)'
    <3>1. /\ UNCHANGED <<slHeap, new>> /\ slPc'[t] \notin {"malloc", "walk"}
          /\ \A u \in ListThread : u # t =>
               slPc'[u] = slPc[u] /\ cursor'[u] = cursor[u] /\ prev'[u] = prev[u]
      BY <1>3, <1>a DEF Leave, SemTypeOK
    <3> QED  BY <3>1, SameChain
  <2>2. Owed' = Owed /\ Extra' = Extra /\ sem' = sem
    BY <1>3, <1>a, NoThreadIsNoListThread DEF Leave, Owed, Extra, SemTypeOK
  <2>3. Counted(s)'
    BY <1>a, <2>2, SameCount
  <2> QED  BY <1>0, <1>3, <2>1, <2>3 DEF IsTheChain, Leave, slHeap
<1>4. CASE Draw
  <2>1. Chained(s)' /\ Walking(s)' /\ Fresh(s)'
    <3>1. /\ UNCHANGED <<slHeap, new>> /\ slPc'["pusher"] \notin {"malloc", "walk"}
          /\ \A u \in ListThread : u # "pusher" =>
               slPc'[u] = slPc[u] /\ cursor'[u] = cursor[u] /\ prev'[u] = prev[u]
      BY <1>4, <1>a DEF Draw, SemTypeOK
    <3>2. "pusher" \in ListThread
      OBVIOUS
    <3> QED  BY <3>1, <3>2, SameChain
  <2>2. Owed' = Owed /\ Extra' = Extra /\ sem' = sem
    BY <1>4, <1>a, NoThreadIsNoListThread DEF Draw, Owed, Extra, SemTypeOK
  <2>3. Counted(s)'
    BY <1>a, <2>2, SameCount
  <2> QED  BY <1>0, <1>4, <2>1, <2>3 DEF IsTheChain, Draw, slHeap
<1>5. CASE MallocElement
  <2>1. IsTheChain(s)' /\ \A k \in 1 .. Len(s) : value'[s[k]] = value[s[k]]
    BY <1>5, MallocElementStep
  <2> QED  BY <2>1
<1>6. CASE Append_
  <2>1. PICK q : q = Append(s, new)
    OBVIOUS
  <2>2. q \in Seq(Element) /\ IsTheChain(q)' /\ value' = value /\ new \in Element
    BY <1>6, <2>1, AppendStep DEF Append_, IsTheChain, Fresh, SemIInv, SemTypeOK
  <2> QED  BY <2>1, <2>2
<1>7. CASE Post
  <2>1. Chained(s)' /\ Walking(s)' /\ Fresh(s)'
    <3>1. /\ UNCHANGED <<slHeap, new>> /\ slPc'["pusher"] \notin {"malloc", "walk"}
          /\ \A u \in ListThread : u # "pusher" =>
               slPc'[u] = slPc[u] /\ cursor'[u] = cursor[u] /\ prev'[u] = prev[u]
      BY <1>7, <1>a DEF Post, SemTypeOK
    <3>2. "pusher" \in ListThread
      OBVIOUS
    <3> QED  BY <3>1, <3>2, SameChain
  <2>2. Owed' = Owed /\ Extra' = 0 /\ Extra = 1 /\ sem' = sem + 1
    BY <1>7, <1>a, NoThreadIsNoListThread DEF Post, SemPost, Owed, Extra, SemTypeOK
  <2>3. Counted(s)'
    BY <1>a, <2>2, OwedIsFinite DEF Counted, SemTypeOK
  <2> QED  BY <1>0, <1>7, <2>1, <2>3 DEF IsTheChain, Post, slHeap
<1>8. ASSUME NEW t \in Popper, WaitElement(t) PROVE \E q : Becomes(q)
  <2>1. Chained(s)' /\ Walking(s)' /\ Fresh(s)'
    <3>1. /\ UNCHANGED <<slHeap, new>> /\ slPc'[t] \notin {"malloc", "walk"}
          /\ \A u \in ListThread : u # t =>
               slPc'[u] = slPc[u] /\ cursor'[u] = cursor[u] /\ prev'[u] = prev[u]
      BY <1>8, <1>a DEF WaitElement, SemTypeOK
    <3> QED  BY <3>1, SameChain
  <2>2. Owed' = Owed \cup {t} /\ t \notin Owed /\ Extra' = Extra /\ sem' = sem - 1
    BY <1>8, <1>a, NoThreadIsNoListThread DEF WaitElement, SemWait, Owed, Extra, SemTypeOK
  <2>3. Cardinality(Owed \cup {t}) = Cardinality(Owed) + 1
    BY <2>2, OneOwed
  <2>4. sem \in Int /\ Extra \in Int /\ Cardinality(Owed) \in Int
    BY <1>a, OwedIsFinite DEF SemTypeOK, Extra
  <2>5. Counted(s)'
    BY <1>a, <2>2, <2>3, <2>4 DEF Counted
  <2> QED  BY <1>0, <1>8, <2>1, <2>5 DEF IsTheChain, WaitElement, slHeap
<1>9. ASSUME NEW t \in Popper, PopEmpty(t) PROVE \E q : Becomes(q)
  BY <1>9, EveryPopperFindsOne DEF PopEmpty
<1>10. ASSUME NEW t \in Popper, Remove(t) PROVE \E q : Becomes(q)
  <2>1. PICK q : q = SubSeq(s, 1, Len(s) - 1)
    OBVIOUS
  <2>2. s # <<>> /\ q \in Seq(Element) /\ IsTheChain(q)' /\ value' = value
    BY <1>10, <2>1, RemoveStep DEF Remove
  <2> QED  BY <2>1, <2>2
<1>11. CASE UNCHANGED slVars
  <2>1. IsTheChain(s)' /\ value' = value
    BY <1>11
    DEF slVars, slHeap, IsTheChain, Chained, Walking, Fresh, Counted, Owed, Extra
  <2> QED  BY <1>0, <2>1
<1> QED
  BY <1>1, <1>2, <1>3, <1>4, <1>5, <1>6, <1>7, <1>8, <1>9, <1>10, <1>11
  DEF SemNext, pushThread, popThread, OutOfElements

\* One of the lemmas above for each part of the inductive invariant.
LEMMA SemStepInv == SemIInv /\ [SemNext]_slVars => SemIInv'
<1> SUFFICES ASSUME SemIInv, [SemNext]_slVars PROVE SemIInv'
  OBVIOUS
<1>1. SemTypeOK'
  BY SemTypeStep
<1>2. PICK s \in Seq(Element) : IsTheChain(s)
  BY DEF SemIInv, ChainInv
<1>3. ChainInv'
  BY <1>1, <1>2, ChainStep DEF ChainInv
<1> QED  BY <1>1, <1>3, SemPlaceStep DEF SemIInv
-----------------------------------------------------------------------------
\* The values of the elements of a list.
Values(s) == [d \in 1 .. Len(s) |-> value[s[d]]]

\* The list as the properties see it, read from its head.
ItemsAreTheChain ==
  \A s \in Seq(Element) : SemTypeOK /\ Chained(s) =>
    /\ Len(s) <= MaxElements /\ ListLength = Len(s)
    /\ \A d \in 0 .. MaxElements :
         ElementAt[d] = IF d < Len(s) THEN s[d + 1] ELSE NoElement
    /\ Items = Values(s)

\* What the recursive functions of the properties compute, for a list without a circle.
LEMMA TheChain == ItemsAreTheChain
<1> SUFFICES ASSUME NEW s \in Seq(Element), SemTypeOK, Chained(s)
             PROVE  /\ Len(s) <= MaxElements /\ ListLength = Len(s)
                    /\ \A d \in 0 .. MaxElements :
                         ElementAt[d] = IF d < Len(s) THEN s[d + 1] ELSE NoElement
                    /\ Items = Values(s)
  BY DEF ItemsAreTheChain
<1> DEFINE n == Len(s)
<1>0. n \in Nat /\ MaxElements \in Nat /\ NoElement \notin Element
  BY ListAssumption DEF NoElement, Element
<1>1. n <= MaxElements
  BY NoMoreThan
<1>2. ElementAt = [d \in 0 .. MaxElements |-> IF d < Len(s) THEN s[d + 1] ELSE NoElement]
  <2>1. ElementAt = CHOOSE f : IsWay(f, lista, slNext, NoElement, MaxElements)
    BY DEF ElementAt, IsWay
  <2>2. PICK g : g = [d \in 0 .. n - 1 |-> s[d + 1]]
    OBVIOUS
  <2>3. IsChain(g, n, lista, slNext, NoElement)
    <3>1. \A k \in 0 .. n - 1 : k + 1 \in 1 .. n /\ g[k] = s[k + 1] /\ s[k + 1] \in Element
      BY <2>2
    <3> QED  BY <1>0, <2>2, <3>1 DEF Chained, IsChain
  <2>4. /\ IsWay(Along(g, n, NoElement, MaxElements), lista, slNext, NoElement, MaxElements)
        /\ \A f : IsWay(f, lista, slNext, NoElement, MaxElements)
                    => f = Along(g, n, NoElement, MaxElements)
    BY ONLY <1>0, <2>3, TheWay
  <2>5. Along(g, n, NoElement, MaxElements)
          = [d \in 0 .. MaxElements |-> IF d < Len(s) THEN s[d + 1] ELSE NoElement]
    BY <2>2 DEF Along
  <2> QED  BY ONLY <2>1, <2>4, <2>5
<1>3. \A d \in 0 .. MaxElements : ElementAt[d] = IF d < n THEN s[d + 1] ELSE NoElement
  BY ONLY <1>2
<1>4. ListLength = n
  <2>1. \A d \in 0 .. MaxElements - 1 : ElementAt[d] # NoElement <=> d < n
    BY <1>0, <1>3
  <2>2. {d \in 0 .. MaxElements - 1 : ElementAt[d] # NoElement} = 0 .. n - 1
    BY <1>0, <1>1, <2>1
  <2>3. Cardinality(0 .. n - 1) = n
    <3> HIDE DEF n
    <3>1. 0 \in Int /\ n - 1 \in Int
      BY <1>0
    <3>2. Cardinality(0 .. n - 1) = IF 0 > n - 1 THEN 0 ELSE (n - 1) - 0 + 1
      BY <3>1, FS_Interval, Zenon
    <3> QED  BY <1>0, <3>2
  <2> QED  BY <2>2, <2>3 DEF ListLength
<1>5. Items = [d \in 1 .. n |-> value[s[d]]]
  <2>1. \A d \in 1 .. n : ElementAt[d - 1] = s[d]
    BY <1>0, <1>1, <1>3
  <2> HIDE DEF n
  <2> QED  BY <1>4, <2>1 DEF Items
<1> QED  BY <1>1, <1>3, <1>4, <1>5 DEF Values

\* The inductive invariant says more than the safety of the list.
LEMMA ListIsCounted == SemIInv => SemListInv
<1> SUFFICES ASSUME SemIInv PROVE SemListInv
  OBVIOUS
<1>1. PICK s \in Seq(Element) : IsTheChain(s)
  BY DEF SemIInv, ChainInv
<1>2. SemTypeOK /\ Chained(s) /\ Counted(s)
  BY <1>1 DEF SemIInv, IsTheChain
<1>3. /\ Len(s) <= MaxElements /\ ListLength = Len(s)
      /\ \A d \in 0 .. MaxElements :
           ElementAt[d] = IF d < Len(s) THEN s[d + 1] ELSE NoElement
  BY <1>2, TheChain, Zenon DEF ItemsAreTheChain
<1>4. ListIsSound
  <2>1. MaxElements \in Nat /\ Len(s) \in Nat
    BY ListAssumption
  <2>2. ElementAt[MaxElements] = NoElement
    BY ONLY <1>3, <2>1
  <2>3. ASSUME NEW d \in 0 .. MaxElements - 1
        PROVE  ElementAt[d] \in slAllocated \cup {NoElement}
    <3>1. ElementAt[d] = IF d < Len(s) THEN s[d + 1] ELSE NoElement
      BY <1>3, <2>1
    <3>2. d < Len(s) => d + 1 \in 1 .. Len(s)
      BY <2>1
    <3> QED  BY <1>2, <3>1, <3>2 DEF Chained
  <2> QED  BY <2>2, <2>3 DEF ListIsSound
<1>5. SemaphoreCountsElements
  BY <1>2, <1>3 DEF SemaphoreCountsElements, Counted, Owed, Extra
<1>6. NeverEmpty
  BY <1>1, EveryPopperFindsOne DEF NeverEmpty
<1> QED  BY <1>2, <1>4, <1>5, <1>6 DEF SemListInv

\* The steps of push_f() and pop_f() keep the list linked, and counted by the semaphore.
THEOREM SemInvariance == SemSpec => []SemIInv
<1>1. SemIInv /\ [SemNext]_slVars => SemIInv'
  BY SemStepInv
<1> QED  BY SemInitInv, <1>1, PTL DEF SemSpec

\* For any number of poppers and elements: the list of zad_dom1.c holds no free element, the
\* semaphore never promises more than it holds, and pop_f() never walks along an empty list.
THEOREM SemListIsSafe == SemSpec => []SemListInv
  BY SemInvariance, ListIsCounted, PTL

\* What a step does to the values.
LEMMA ItemsStep ==
  ASSUME NEW s, NEW q, s \in Seq(Element), q \in Seq(Element), value \in [Element -> Value],
         \/ q = s /\ \A k \in 1 .. Len(s) : value'[s[k]] = value[s[k]]
         \/ q = Append(s, new) /\ new \in Element /\ value' = value
         \/ s # <<>> /\ q = SubSeq(s, 1, Len(s) - 1) /\ value' = value
  PROVE  \/ Values(q)' = Values(s)
         \/ \E v \in Value : Values(q)' = Append(Values(s), v)
         \/ Values(s) # <<>> /\ Values(q)' = SubSeq(Values(s), 1, Len(Values(s)) - 1)
<1>i. PICK i : i = Values(s) /\ i = [d \in 1 .. Len(s) |-> value[s[d]]]
  BY DEF Values
<1>j. PICK j : j = Values(q)' /\ j = [d \in 1 .. Len(q) |-> value'[q[d]]]
  BY DEF Values
<1> SUFFICES \/ j = i
             \/ \E v \in Value : j = Append(i, v)
             \/ i # <<>> /\ j = SubSeq(i, 1, Len(i) - 1)
  BY <1>i, <1>j
<1>0. i \in Seq(Value) /\ Len(i) = Len(s) /\ \A k \in 1 .. Len(s) : i[k] = value[s[k]]
  BY <1>i
<1>1. CASE q = s /\ \A k \in 1 .. Len(s) : value'[s[k]] = value[s[k]]
  BY <1>1, <1>i, <1>j
<1>2. CASE q = Append(s, new) /\ new \in Element /\ value' = value
  <2> DEFINE v == value[new]
             a == Append(i, v)
  <2>1. Len(q) = Len(s) + 1 /\ q[Len(q)] = new /\ \A k \in 1 .. Len(s) : q[k] = s[k]
    BY <1>2
  <2>2. v \in Value
    BY <1>2
  <2>3. /\ a \in Seq(Value) /\ Len(a) = Len(s) + 1 /\ a[Len(s) + 1] = v
        /\ \A k \in 1 .. Len(s) : a[k] = value[s[k]]
    BY <1>0, <2>2
  <2>4. a = [k \in 1 .. Len(s) + 1 |-> a[k]]
    BY <2>3
  <2>5. \A k \in 1 .. Len(s) + 1 : value[q[k]] = a[k]
    BY <1>2, <2>1, <2>3
  <2>6. j = [k \in 1 .. Len(s) + 1 |-> value[q[k]]]
    BY <1>2, <1>j, <2>1
  <2> HIDE DEF a
  <2>7. j = a
    BY ONLY <2>4, <2>5, <2>6
  <2> QED  BY <2>2, <2>7 DEF a
<1>3. CASE s # <<>> /\ q = SubSeq(s, 1, Len(s) - 1) /\ value' = value
  <2>1. Len(s) # 0
    BY <1>3, EmptySeq
  <2>2. Len(q) = Len(s) - 1 /\ \A k \in 1 .. Len(q) : q[k] = s[k]
    BY ONLY s \in Seq(Element), <1>3, <2>1, WithoutLast
  <2>3. PICK b : b = SubSeq(i, 1, Len(i) - 1)
    OBVIOUS
  <2>4. /\ b \in Seq(Value) /\ Len(b) = Len(i) - 1 /\ i # <<>>
        /\ \A k \in 1 .. Len(b) : b[k] = i[k]
    BY ONLY <1>0, <2>1, <2>3, WithoutLast
  <2>5. b = [k \in 1 .. Len(q) |-> b[k]]
    BY ONLY <1>0, <2>2, <2>4
  <2>6. \A k \in 1 .. Len(q) : value[q[k]] = b[k]
    <3>1. Len(s) \in Nat
      OBVIOUS
    <3> QED  BY ONLY <1>0, <2>2, <2>4, <3>1
  <2>7. j = [k \in 1 .. Len(q) |-> value[q[k]]]
    BY <1>3, <1>j
  <2>8. j = b
    BY ONLY <2>5, <2>6, <2>7
  <2> QED  BY <2>3, <2>4, <2>8
<1> QED  BY <1>1, <1>2, <1>3

\* push_f() and pop_f() push and pop: both work at the end of the list, where the walk of a
\* thread has brought it, and what they do to the values are the two steps of a stack.
THEOREM SemImplementsStack == SemSpec => SemIsAStack
<1>1. SemInit => SemAbstract!Init
  <2> SUFFICES ASSUME SemInit PROVE Items = <<>>
    BY DEF SemAbstract!Init
  <2>1. SemTypeOK /\ <<>> \in Seq(Element) /\ Chained(<<>>)
    BY SemInitInv DEF SemIInv, SemInit, Chained
  <2>2. Items = Values(<<>>)
    BY <2>1, TheChain, Zenon DEF ItemsAreTheChain
  <2> QED  BY <2>2 DEF Values
<1>2. SemIInv /\ SemIInv' /\ ItemsAreTheChain /\ ItemsAreTheChain' /\ [SemNext]_slVars
        => [SemAbstract!Push \/ SemAbstract!Pop]_Items
  <2> SUFFICES ASSUME SemIInv, SemIInv', ItemsAreTheChain, ItemsAreTheChain', [SemNext]_slVars
               PROVE  [SemAbstract!Push \/ SemAbstract!Pop]_Items
    OBVIOUS
  <2>1. PICK s \in Seq(Element) : IsTheChain(s)
    BY DEF SemIInv, ChainInv
  <2>2. PICK q \in Seq(Element) :
          /\ IsTheChain(q)'
          /\ \/ q = s /\ \A k \in 1 .. Len(s) : value'[s[k]] = value[s[k]]
             \/ q = Append(s, new) /\ new \in Element /\ value' = value
             \/ s # <<>> /\ q = SubSeq(s, 1, Len(s) - 1) /\ value' = value
    BY <2>1, ChainStep DEF SemIInv
  <2>3. Items = Values(s)
    BY <2>1, Zenon DEF ItemsAreTheChain, SemIInv, IsTheChain
  <2>4. Items' = Values(q)'
    BY <2>2, Zenon DEF ItemsAreTheChain, SemIInv, IsTheChain
  <2>5. value \in [Element -> Value]
    BY DEF SemIInv, SemTypeOK
  <2>6. \/ Values(q)' = Values(s)
        \/ \E v \in Value : Values(q)' = Append(Values(s), v)
        \/ Values(s) # <<>> /\ Values(q)' = SubSeq(Values(s), 1, Len(Values(s)) - 1)
    BY <2>2, <2>5, ItemsStep
  <2> QED  BY ONLY <2>3, <2>4, <2>6 DEF SemAbstract!Push, SemAbstract!Pop
<1> QED
  BY <1>1, <1>2, TheChain, SemInvariance, PTL DEF SemSpec, SemIsAStack, SemAbstract!Spec

-----------------------------------------------------------------------------

\* Where the threads of 02_condition_modify.c are, and what that says of the mutex, of the
\* condition and of what they loaded.
ModifiedPlaceInv ==
  /\ mlPc \in [producer : {"malloc", "load", "store", "signal"},
               consumer : {"lock", "if", "wait", "take", "load", "store", "crashed"}]
  /\ mlValue \in [producer : Int, consumer : Int]
  /\ mlPc.producer = "store" => mlValue.producer \in -MaxListed .. MaxListed - 1
  /\ mlPc.consumer = "store" => mlValue.consumer \in -MaxListed + 1 .. MaxListed
  /\ mlMutex = IF mlPc.consumer \in {"if", "take", "load", "store", "crashed"}
               THEN "consumer" ELSE NoThread
  /\ mlCond # {} => mlPc.consumer = "wait"

\* Whoever takes a node after a wait finds one, unless it was woken for nothing.
WokenInv ==
  mlPc.consumer = "take" \/ (mlPc.consumer = "wait" /\ mlCond = {})
    => listed > 0 \/ spurious \/ late

ModifiedIInv == ModifiedListInv /\ ModifiedPlaceInv /\ WokenInv

\* The beginning of 02_condition_modify.c.
LEMMA ModifiedStart == ModifiedInit => ModifiedIInv
<1> SUFFICES ASSUME ModifiedInit PROVE ModifiedIInv
  OBVIOUS
<1>1. /\ listed = 0 /\ produced_num = 0 /\ mlMutex = NoThread /\ mlCond = {}
      /\ lost = FALSE /\ spurious = FALSE /\ late = FALSE
      /\ mlPc.producer = "malloc" /\ mlPc.consumer = "lock"
      /\ mlPc \in [producer : {"malloc", "load", "store", "signal"},
                   consumer : {"lock", "if", "wait", "take", "load", "store", "crashed"}]
      /\ mlValue.producer = 0 /\ mlValue.consumer = 0
      /\ mlValue \in [producer : Int, consumer : Int]
  BY DEF ModifiedInit
<1>2. ModifiedListInv
  BY <1>1, ModifiedListAssumption
     DEF ModifiedListInv, ModifiedTypeOK, CountFollows, SleepIsShort, Crashed
<1> QED  BY <1>1, <1>2 DEF ModifiedIInv, ModifiedPlaceInv, WokenInv

\* A step of the producer of 02_condition_modify.c.
LEMMA ProducerKeepsModified ==
  ASSUME ModifiedIInv, th_producer PROVE ModifiedIInv'
<1> USE ModifiedListAssumption
        DEF ModifiedIInv, ModifiedListInv, ModifiedTypeOK, CountFollows, SleepIsShort, Crashed,
            ModifiedPlaceInv, WokenInv
<1>1. CASE LinkNode
  BY <1>1 DEF LinkNode, ModifiedGo
<1>2. CASE ProducerLoad
  BY <1>2 DEF ProducerLoad, LoadCount, ModifiedGo
<1>3. CASE ProducerStore
  <2>1. /\ mlPc.producer = "store" /\ mlPc' = [mlPc EXCEPT !.producer = mlPc'.producer]
        /\ mlPc'.producer = (IF mlValue.producer + 1 = 3 THEN "signal" ELSE "malloc")
        /\ produced_num' = mlValue.producer + 1
        /\ (~ lost') => ~ lost /\ produced_num = mlValue.producer
        /\ UNCHANGED <<listed, mlMutex, mlCond, mlValue, spurious, late>>
    BY <1>3 DEF ProducerStore, StoreCount, ModifiedGo
  <2>2. ModifiedPlaceInv' /\ WokenInv' /\ ModifiedTypeOK'
    BY <2>1
  <2>3. CountFollows'
    BY <2>1
  <2>4. SleepIsShort'
    BY <2>1
  <2> QED  BY <2>2, <2>3, <2>4
<1>4. CASE Signal
  <2>1. /\ mlPc.producer = "signal" /\ mlPc' = [mlPc EXCEPT !.producer = "malloc"]
        /\ mlCond' = {} /\ (mlCond # {} /\ listed = 0 => late') /\ (late => late')
        /\ UNCHANGED <<listed, produced_num, mlMutex, mlValue, lost, spurious>>
    BY <1>4 DEF Signal, CondSignal, ModifiedGo
  <2>2. ModifiedPlaceInv' /\ WokenInv' /\ ModifiedTypeOK'
    BY <2>1
  <2>3. CountFollows' /\ SleepIsShort'
    BY <2>1
  <2> QED  BY <2>2, <2>3
<1> QED  BY <1>1, <1>2, <1>3, <1>4 DEF th_producer

\* A step of the consumer.
LEMMA ConsumerKeepsModified ==
  ASSUME ModifiedIInv, th_consumer PROVE ModifiedIInv'
<1> USE ModifiedListAssumption
        DEF ModifiedIInv, ModifiedListInv, ModifiedTypeOK, CountFollows, SleepIsShort, Crashed,
            ModifiedPlaceInv, WokenInv
<1>1. CASE ConsumerLock
  BY <1>1 DEF ConsumerLock, Lock, ModifiedGo
<1>2. CASE ConsumerWait
  BY <1>2 DEF ConsumerWait, CondWait, ModifiedGo
<1>3. CASE ConsumerResume
  BY <1>3 DEF ConsumerResume, CondResume, ModifiedGo
<1>4. CASE TakeNode
  BY <1>4 DEF TakeNode, ModifiedGo
<1>5. CASE ConsumerLoad
  BY <1>5 DEF ConsumerLoad, LoadCount, ModifiedGo
<1>6. CASE ConsumerStore
  <2>1. /\ mlPc.consumer = "store" /\ mlPc' = [mlPc EXCEPT !.consumer = "lock"]
        /\ produced_num' = mlValue.consumer - 1
        /\ (~ lost') => ~ lost /\ produced_num = mlValue.consumer
        /\ mlMutex' = NoThread
        /\ UNCHANGED <<listed, mlCond, mlValue, spurious, late>>
    BY <1>6 DEF ConsumerStore, StoreCount, Unlock, ModifiedGo
  <2>2. ModifiedPlaceInv' /\ WokenInv' /\ ModifiedTypeOK'
    BY <2>1
  <2>3. CountFollows'
    BY <2>1
  <2>4. SleepIsShort'
    BY <2>1
  <2> QED  BY <2>2, <2>3, <2>4
<1> QED  BY <1>1, <1>2, <1>3, <1>4, <1>5, <1>6 DEF th_consumer

\* Every step of it.
LEMMA ModifiedStep == ModifiedIInv /\ [ModifiedNext]_listVars => ModifiedIInv'
<1> SUFFICES ASSUME ModifiedIInv, [ModifiedNext]_listVars PROVE ModifiedIInv'
  OBVIOUS
<1>1. CASE UNCHANGED listVars
  BY <1>1 DEF listVars, ModifiedIInv, ModifiedListInv, ModifiedTypeOK, CountFollows, SleepIsShort,
              Crashed, ModifiedPlaceInv, WokenInv
<1>2. CASE ModifiedSpurious
  BY <1>2 DEF ModifiedSpurious, Spurious, ModifiedIInv, ModifiedListInv, ModifiedTypeOK,
              CountFollows, SleepIsShort, Crashed, ModifiedPlaceInv, WokenInv
<1> QED  BY <1>1, <1>2, ProducerKeepsModified, ConsumerKeepsModified DEF ModifiedNext, Stopped

\* The count of 02_condition_modify.c is right as long as no update is lost, its
\* consumer sleeps only before fewer than three counted nodes, and it finds a node when it
\* is woken unless it was woken for nothing.
THEOREM ModifiedIsSafe == ModifiedSpec => []ModifiedListInv
<1>1. ModifiedIInv => ModifiedListInv
  BY DEF ModifiedIInv
<1> QED  BY <1>1, ModifiedStart, ModifiedStep, PTL DEF ModifiedSpec

-----------------------------------------------------------------------------

\* The nodes that the pointers nx reach from f, and the sets those pointers do not leave.
ClosedUnder(S, f, nx) == (f # 0 => f \in S) /\ \A n \in S : nx[n] # 0 => nx[n] \in S
Reached(f, nx, N) == {n \in 1 .. N : \A S \in SUBSET (1 .. N) : ClosedUnder(S, f, nx) => n \in S}

\* Pointers among N nodes; and pointers that lead to higher values only.
ArePointers(f, nx, N) == N \in Nat /\ f \in 0 .. N /\ \A n \in 1 .. N : nx[n] \in 0 .. N
Ascend(nx, dt, N) == \A n \in 1 .. N : dt[n] \in Int /\ (nx[n] # 0 => dt[n] < dt[nx[n]])

\* What is reached is the least set that the pointers do not leave.
LEMMA ReachedIsLeast ==
  ASSUME NEW N, NEW f, NEW nx, ArePointers(f, nx, N)
  PROVE  /\ Reached(f, nx, N) \subseteq 1 .. N /\ ClosedUnder(Reached(f, nx, N), f, nx)
         /\ \A S \in SUBSET (1 .. N) : ClosedUnder(S, f, nx) => Reached(f, nx, N) \subseteq S
         /\ \A S : ClosedUnder(S, f, nx) => Reached(f, nx, N) \subseteq S
<1> DEFINE L == Reached(f, nx, N)
<1>1. L \subseteq 1 .. N
  BY DEF Reached
<1>2. \A S \in SUBSET (1 .. N) : ClosedUnder(S, f, nx) => L \subseteq S
  BY DEF Reached
<1>3. ASSUME f # 0 PROVE f \in L
  BY <1>3 DEF Reached, ClosedUnder, ArePointers
<1>4. ASSUME NEW n \in L, nx[n] # 0 PROVE nx[n] \in L
  <2>1. nx[n] \in 1 .. N
    BY <1>1, <1>4 DEF ArePointers
  <2>2. ASSUME NEW S \in SUBSET (1 .. N), ClosedUnder(S, f, nx) PROVE nx[n] \in S
    BY <1>2, <1>4, <2>2 DEF ClosedUnder
  <2> QED  BY <2>1, <2>2 DEF Reached
<1>5. ASSUME NEW S, ClosedUnder(S, f, nx) PROVE L \subseteq S
  <2>1. ClosedUnder(S \cap (1 .. N), f, nx)
    BY <1>5 DEF ClosedUnder, ArePointers
  <2> QED  BY <1>2, <2>1
<1> QED  BY <1>1, <1>2, <1>3, <1>4, <1>5 DEF ClosedUnder

\* In an ascending list the first node has the least value, and no other has it.
LEMMA FirstIsLeast ==
  ASSUME NEW N, NEW f, NEW nx, NEW dt, ArePointers(f, nx, N), Ascend(nx, dt, N)
  PROVE  \A n \in Reached(f, nx, N) : f # 0 /\ (n = f \/ dt[f] < dt[n])
<1> DEFINE L == Reached(f, nx, N)
           S == {n \in L : f # 0 /\ (n = f \/ dt[f] < dt[n])}
<1>1. ClosedUnder(S, f, nx)
  <2>0. L \subseteq 1 .. N /\ ClosedUnder(L, f, nx)
    BY ReachedIsLeast
  <2> HIDE DEF L
  <2> QED  BY <2>0 DEF ClosedUnder, ArePointers, Ascend
<1>2. L \subseteq S
  BY <1>1, ReachedIsLeast
<1> QED  BY <1>2

\* Between a node and the next one there is no value, and no value is there twice.
NoneBetween(L, nx, dt, n) ==
  \A k \in L : /\ dt[k] < dt[n] => nx[k] # 0 /\ dt[nx[k]] <= dt[n]
               /\ dt[k] = dt[n] => k = n

\* So it is in an ascending list: every node stands between its neighbours.
LEMMA AscendingList ==
  ASSUME NEW N, NEW f, NEW nx, NEW dt, ArePointers(f, nx, N), Ascend(nx, dt, N)
  PROVE  \A n \in Reached(f, nx, N) : NoneBetween(Reached(f, nx, N), nx, dt, n)
<1> DEFINE L == Reached(f, nx, N)
           S == {n \in L : NoneBetween(L, nx, dt, n)}
<1>0. L \subseteq 1 .. N /\ ClosedUnder(L, f, nx) /\ \A T : ClosedUnder(T, f, nx) => L \subseteq T
  BY ReachedIsLeast
<1>1. \A n \in L : f # 0 /\ (n = f \/ dt[f] < dt[n])
  BY FirstIsLeast
<1> HIDE DEF L
<1>2. ASSUME f # 0 PROVE f \in S
  <2>1. f \in L /\ \A k \in L : dt[k] \in Int
    BY <1>0, <1>2 DEF ClosedUnder, Ascend
  <2>2. \A k \in L : ~ (dt[k] < dt[f]) /\ (dt[k] = dt[f] => k = f)
    BY <1>1, <2>1
  <2> QED  BY <2>1, <2>2 DEF NoneBetween
<1>3. ASSUME NEW n \in S, nx[n] # 0 PROVE nx[n] \in S
  <2> DEFINE m == nx[n]
             T == {k \in L : dt[k] <= dt[n] \/ k = m \/ dt[m] < dt[k]}
  <2>1. n \in L /\ m \in L /\ dt[n] < dt[m] /\ m # 0 /\ dt[n] \in Int /\ dt[m] \in Int
    BY <1>0, <1>3 DEF ClosedUnder, Ascend
  <2>2. \A k \in L : dt[k] \in Int /\ (nx[k] # 0 => nx[k] \in L /\ dt[k] < dt[nx[k]])
    BY <1>0 DEF ClosedUnder, Ascend
  <2>3. \A k \in L : /\ dt[k] < dt[n] => nx[k] # 0 /\ dt[nx[k]] <= dt[n]
                     /\ dt[k] = dt[n] => k = n
    BY <1>3 DEF NoneBetween
  <2>4. nx[n] = m
    OBVIOUS
  <2> HIDE DEF m
  <2>5. f # 0 => f \in T
    <3>1. f # 0 => f \in L /\ dt[f] \in Int
      BY <1>0, <2>2 DEF ClosedUnder
    <3> QED  BY <1>1, <2>1, <3>1
  <2>6. ASSUME NEW k \in T, nx[k] # 0 PROVE nx[k] \in T
    <3>1. k \in L /\ nx[k] \in L /\ dt[k] < dt[nx[k]] /\ dt[k] \in Int /\ dt[nx[k]] \in Int
      BY <2>2, <2>6
    <3>2. CASE dt[k] < dt[n]
      BY <2>3, <3>1, <3>2
    <3>3. CASE dt[k] = dt[n]
      BY <2>3, <2>4, <3>1, <3>3
    <3>4. CASE k = m \/ dt[m] < dt[k]
      BY <2>1, <3>1, <3>4
    <3> QED  BY <2>1, <2>6, <3>1, <3>2, <3>3, <3>4
  <2>7. L \subseteq T
    BY <1>0, <2>5, <2>6 DEF ClosedUnder
  <2>8. ASSUME NEW k \in L, dt[k] < dt[m] PROVE nx[k] # 0 /\ dt[nx[k]] <= dt[m]
    <3>1. dt[k] <= dt[n] /\ dt[k] \in Int
      BY <2>1, <2>2, <2>7, <2>8
    <3>2. CASE dt[k] < dt[n]
      BY <2>1, <2>2, <2>3, <3>2
    <3>3. CASE dt[k] = dt[n]
      BY <1>3, <2>1, <2>3, <2>4, <3>3
    <3> QED  BY <2>1, <3>1, <3>2, <3>3
  <2>9. ASSUME NEW k \in L, dt[k] = dt[m] PROVE k = m
    BY <2>1, <2>2, <2>7, <2>9
  <2>10. NoneBetween(L, nx, dt, m)
    BY <2>8, <2>9 DEF NoneBetween
  <2> QED  BY <2>1, <2>4, <2>10
<1> HIDE DEF S
<1>4. L \subseteq S
  BY <1>0, <1>2, <1>3 DEF ClosedUnder
<1> QED  BY <1>4 DEF L, S

\* Only the node before points to a node of the list.
LEMMA OneBefore ==
  ASSUME NEW N, NEW f, NEW nx, NEW dt, ArePointers(f, nx, N), Ascend(nx, dt, N),
         NEW pr \in Reached(f, nx, N), NEW n \in Reached(f, nx, N), nx[pr] = nx[n], nx[pr] # 0
  PROVE  n = pr
<1> DEFINE L == Reached(f, nx, N)
<1>1. \A k \in L : NoneBetween(L, nx, dt, k)
  BY AscendingList
<1>2. \A k \in L : dt[k] \in Int /\ (nx[k] # 0 => nx[k] \in L /\ dt[k] < dt[nx[k]])
  BY ReachedIsLeast DEF ClosedUnder, Ascend
<1> HIDE DEF L
<1>3. pr \in L /\ n \in L
  BY DEF L
<1>4. dt[pr] < dt[n] => dt[nx[pr]] <= dt[n]
  BY <1>1, <1>3 DEF NoneBetween
<1>5. dt[n] < dt[pr] => dt[nx[n]] <= dt[pr]
  BY <1>1, <1>3 DEF NoneBetween
<1>6. dt[pr] = dt[n]
  BY <1>2, <1>3, <1>4, <1>5
<1> QED  BY <1>1, <1>3, <1>6 DEF NoneBetween

\* A node more that nothing points to changes nothing.
LEMMA UnlinkedNode ==
  ASSUME NEW N, NEW f, NEW nx, NEW nx2, ArePointers(f, nx, N), ArePointers(f, nx2, N + 1),
         \A n \in 1 .. N : nx2[n] = nx[n]
  PROVE  Reached(f, nx2, N + 1) = Reached(f, nx, N)
<1> DEFINE L == Reached(f, nx, N)
           M == Reached(f, nx2, N + 1)
<1>1. L \subseteq 1 .. N /\ ClosedUnder(L, f, nx) /\ \A T : ClosedUnder(T, f, nx) => L \subseteq T
  BY ReachedIsLeast
<1>2. M \subseteq 1 .. N + 1 /\ ClosedUnder(M, f, nx2)
      /\ \A T : ClosedUnder(T, f, nx2) => M \subseteq T
  BY ReachedIsLeast
<1> HIDE DEF L, M
<1>3. M \subseteq L
  <2>1. ClosedUnder(L, f, nx2)
    BY <1>1 DEF ClosedUnder
  <2> QED  BY <1>2, <2>1
<1>4. L \subseteq M
  <2>1. ClosedUnder(M, f, nx)
    BY <1>1, <1>2, <1>3 DEF ClosedUnder
  <2> QED  BY <1>1, <2>1
<1> QED  BY <1>3, <1>4 DEF L, M

\* The pointer from p, or the first one when p is 0, leads to q from now on.
Redirected(f, nx, f2, nx2, N, pr, q) ==
  /\ f2 = IF pr = 0 THEN q ELSE f
  /\ \A n \in 1 .. N : nx2[n] = IF n = pr THEN q ELSE nx[n]

\* c comes after p in the list, or first when p is 0.
After(f, nx, N, pr, c) == IF pr = 0 THEN f = c ELSE pr \in Reached(f, nx, N) /\ nx[pr] = c

\* A node linked between p and c joins the list.
LEMMA NodeJoins ==
  ASSUME NEW N, NEW f, NEW nx, NEW f2, NEW nx2, NEW pr \in 0 .. N, NEW q \in 1 .. N, NEW c,
         ArePointers(f, nx, N), ArePointers(f2, nx2, N), Redirected(f, nx, f2, nx2, N, pr, q),
         After(f, nx, N, pr, c), nx[q] = c, q \notin Reached(f, nx, N)
  PROVE  Reached(f2, nx2, N) = Reached(f, nx, N) \cup {q}
<1> DEFINE L == Reached(f, nx, N)
           M == Reached(f2, nx2, N)
<1>1. L \subseteq 1 .. N /\ ClosedUnder(L, f, nx) /\ \A T : ClosedUnder(T, f, nx) => L \subseteq T
  BY ReachedIsLeast
<1>2. M \subseteq 1 .. N /\ ClosedUnder(M, f2, nx2)
      /\ \A T : ClosedUnder(T, f2, nx2) => M \subseteq T
  BY ReachedIsLeast
<1>3. /\ q \notin L /\ IF pr = 0 THEN f = c ELSE pr \in L /\ nx[pr] = c
      /\ f2 = IF pr = 0 THEN q ELSE f
      /\ \A n \in 1 .. N : nx2[n] = IF n = pr THEN q ELSE nx[n]
  BY DEF After, Redirected
<1> HIDE DEF L, M
<1>4. M \subseteq L \cup {q}
  <2>1. ClosedUnder(L \cup {q}, f2, nx2)
    BY <1>1, <1>3 DEF ClosedUnder
  <2> QED  BY <1>2, <2>1
<1>5. L \subseteq M
  <2>1. ClosedUnder(M, f, nx)
    BY <1>1, <1>2, <1>3 DEF ClosedUnder
  <2> QED  BY <1>1, <2>1
<1>6. q \in M
  BY <1>2, <1>3, <1>5 DEF ClosedUnder
<1> QED  BY <1>4, <1>5, <1>6 DEF L, M

\* A node whose place is given to the node after it leaves the list.
LEMMA NodeLeaves ==
  ASSUME NEW N, NEW f, NEW nx, NEW dt, NEW f2, NEW nx2, NEW pr \in 0 .. N, NEW q \in 0 .. N, NEW c,
         ArePointers(f, nx, N), ArePointers(f2, nx2, N), Redirected(f, nx, f2, nx2, N, pr, q),
         Ascend(nx, dt, N), After(f, nx, N, pr, c), c \in Reached(f, nx, N), nx[c] = q
  PROVE  Reached(f2, nx2, N) = Reached(f, nx, N) \ {c}
<1> DEFINE L == Reached(f, nx, N)
           M == Reached(f2, nx2, N)
<1>1. L \subseteq 1 .. N /\ ClosedUnder(L, f, nx) /\ \A T : ClosedUnder(T, f, nx) => L \subseteq T
  BY ReachedIsLeast
<1>2. M \subseteq 1 .. N /\ ClosedUnder(M, f2, nx2)
      /\ \A T : ClosedUnder(T, f2, nx2) => M \subseteq T
  BY ReachedIsLeast
<1>3. /\ c \in L /\ IF pr = 0 THEN f = c ELSE pr \in L /\ nx[pr] = c
      /\ f2 = IF pr = 0 THEN q ELSE f
      /\ \A n \in 1 .. N : nx2[n] = IF n = pr THEN q ELSE nx[n]
  BY DEF After, Redirected
<1>4. \A k \in L : dt[k] \in Int /\ (nx[k] # 0 => nx[k] \in L /\ dt[k] < dt[nx[k]])
  BY <1>1 DEF ClosedUnder, Ascend
<1>5. \A k \in L : nx[k] = c => k = pr
  <2>1. \A k \in L : f # 0 /\ (k = f \/ dt[f] < dt[k])
    BY FirstIsLeast
  <2>2. ASSUME NEW k \in L, nx[k] = c PROVE k = pr
    <3>1. c # 0 /\ dt[k] < dt[c] /\ dt[k] \in Int /\ dt[c] \in Int
      BY <1>1, <1>3, <1>4, <2>2
    <3>2. CASE pr = 0
      BY <1>3, <2>1, <3>1, <3>2
    <3>3. CASE pr # 0
      <4>1. pr \in Reached(f, nx, N) /\ k \in Reached(f, nx, N) /\ nx[pr] = nx[k] /\ nx[pr] # 0
        BY <1>3, <2>2, <3>1, <3>3
      <4> QED  BY <4>1, OneBefore
    <3> QED  BY <3>2, <3>3
  <2> QED  BY <2>2
<1> HIDE DEF L, M
<1>6. c # 0 /\ c \in 1 .. N /\ nx[c] = q /\ q # c /\ (q # 0 => q \in L) /\ pr # c
  BY <1>1, <1>3, <1>4
<1>7. M \subseteq L \ {c}
  <2>1. ClosedUnder(L \ {c}, f2, nx2)
    <3>1. pr # 0 => f # c
      <4>1. \A k \in Reached(f, nx, N) : f # 0 /\ (k = f \/ dt[f] < dt[k])
        BY FirstIsLeast
      <4>2. pr # 0 => pr \in L /\ dt[pr] < dt[c] /\ dt[pr] \in Int /\ dt[c] \in Int
        BY <1>3, <1>4, <1>6
      <4>3. pr # 0 => pr = f \/ dt[f] < dt[pr]
        BY <4>1, <4>2 DEF L
      <4> QED  BY <4>2, <4>3
    <3>2. f2 # 0 => f2 \in L \ {c}
      BY <1>1, <1>3, <1>6, <3>1 DEF ClosedUnder
    <3>3. ASSUME NEW k \in L \ {c}, nx2[k] # 0 PROVE nx2[k] \in L \ {c}
      BY <1>1, <1>3, <1>5, <1>6, <3>3 DEF ClosedUnder
    <3> QED  BY <3>2, <3>3 DEF ClosedUnder
  <2> QED  BY <1>2, <2>1
<1>8. pr # 0 => pr \in M
  <2> DEFINE T == {k \in L : dt[k] < dt[c] => k \in M}
  <2>1. f # 0 => f \in T
    BY <1>1, <1>2, <1>3, <1>4 DEF ClosedUnder
  <2>2. ASSUME NEW k \in T, nx[k] # 0 PROVE nx[k] \in T
    <3>1. k \in L /\ nx[k] \in L /\ dt[k] < dt[nx[k]] /\ dt[k] \in Int /\ dt[nx[k]] \in Int
      BY <1>4, <2>2
    <3>2. ASSUME dt[nx[k]] < dt[c] PROVE nx[k] \in M
      <4>1. k \in M /\ k # pr
        <5>1. dt[c] \in Int
          BY <1>3, <1>4
        <5>2. dt[k] < dt[c]
          BY <3>1, <3>2, <5>1
        <5>3. k # pr
          BY <1>1, <1>3, <3>1, <3>2, <5>1
        <5> QED  BY <2>2, <5>2, <5>3
      <4>2. nx2[k] = nx[k]
        BY <1>1, <1>3, <3>1, <4>1
      <4> QED  BY <1>2, <2>2, <4>1, <4>2 DEF ClosedUnder
    <3> QED  BY <3>1, <3>2
  <2>3. L \subseteq T
    BY <1>1, <2>1, <2>2 DEF ClosedUnder
  <2> QED  BY <1>3, <1>4, <1>6, <2>3
<1>9. q # 0 => q \in M
  BY <1>1, <1>2, <1>3, <1>8 DEF ClosedUnder
<1>10. L \subseteq M \cup {c}
  <2>1. f # 0 => f \in M \cup {c}
    BY <1>2, <1>3 DEF ClosedUnder
  <2>2. ASSUME NEW k \in M \cup {c}, nx[k] # 0 PROVE nx[k] \in M \cup {c}
    BY <1>2, <1>3, <1>6, <1>9, <2>2 DEF ClosedUnder
  <2>3. ClosedUnder(M \cup {c}, f, nx)
    BY <2>1, <2>2 DEF ClosedUnder
  <2> QED  BY <1>1, <2>3
<1> QED  BY <1>7, <1>10 DEF L, M

NextOf == [n \in 1 .. Len(nodes) |-> nodes[n].next]
DataOf == [n \in 1 .. Len(nodes) |-> nodes[n].data]

SortedPlaceOK ==
  /\ nodes \in Seq([data : Int, next : Int]) /\ first \in Int
  /\ ArePointers(first, NextOf, Len(nodes)) /\ Ascend(NextOf, DataOf, Len(nodes))
  /\ released \subseteq 1 .. Len(nodes)
  /\ opPc \in [Operator -> {"idle", "walk", "link", "unlink", "free"}]
  /\ op \in [Operator -> {"Member", "Insert", "Delete"}]
  /\ opValue \in [Operator -> Int] /\ performed \in [Operator -> Nat]
  /\ opPrev \in [Operator -> Int] /\ opCurr \in [Operator -> Int] /\ temp \in [Operator -> Int]

\* What each operation has in hand, whoever else is at work.
InHandInv(t) ==
  /\ {opPrev[t], opCurr[t], temp[t]} \subseteq 0 .. Len(nodes)
  /\ opPc[t] # "idle" => performed[t] > 0
  /\ opPc[t] \in {"walk", "link", "unlink"} /\ opPrev[t] # 0 => nodes[opPrev[t]].data < opValue[t]
  /\ opPc[t] = "link" => op[t] = "Insert" /\ temp[t] # 0 /\ nodes[temp[t]].data = opValue[t]
  /\ opPc[t] = "unlink" =>
       /\ op[t] = "Delete" /\ opCurr[t] # 0 /\ nodes[opCurr[t]].data = opValue[t]
       /\ temp[t] # 0 => opValue[t] < nodes[temp[t]].data
  /\ opPc[t] = "free" => op[t] = "Delete" /\ opCurr[t] # 0

\* What it has in hand when nobody else changes the list.
AloneInv(t) ==
  /\ \A u \in Operator : Updating(u) => u = t
  /\ opPc[t] # "free" => After(first, NextOf, Len(nodes), opPrev[t], opCurr[t])
  /\ opPc[t] = "link" => /\ temp[t] \notin InList /\ temp[t] \notin released
                         /\ nodes[temp[t]].next = opCurr[t]
  /\ opPc[t] = "unlink" => opCurr[t] \in InList /\ nodes[opCurr[t]].next = temp[t]
  /\ opPc[t] = "free" => opCurr[t] \notin InList /\ opCurr[t] \notin released

UpdatesAloneInv == ~ mixed /\ ~ wild => \A t \in Operator : Updating(t) => AloneInv(t)

SortedIInv ==
  /\ SortedPlaceOK /\ \A t \in Operator : InHandInv(t)
  /\ UpdatesAloneInv /\ UpdatesAreThere /\ OnlyReadersMeetFreed

\* The list of the model is what the pointers reach.
LEMMA ListIsReached ==
  /\ SortedPlaceOK => InList = Reached(first, NextOf, Len(nodes))
  /\ (SortedPlaceOK => InList = Reached(first, NextOf, Len(nodes)))'
<1>1. ASSUME SortedPlaceOK PROVE InList = Reached(first, NextOf, Len(nodes))
  <2>1. ASSUME NEW S \in SUBSET (1 .. Len(nodes))
        PROVE  Closed(S) <=> ClosedUnder(S, first, NextOf)
    BY DEF Closed, ClosedUnder, NextOf, NoNode
  <2> QED  BY <2>1 DEF InList, Reached
<1>2. SortedPlaceOK => InList = Reached(first, NextOf, Len(nodes))
  BY <1>1
<1> QED  BY <1>2, PTL

\* The inductive invariant says what the property says.
LEMMA SortedIsSafe == SortedIInv => SortedListInv
<1> SUFFICES ASSUME SortedIInv PROVE SortedListInv
  OBVIOUS
<1>1. SortedTypeOK
  BY DEF SortedIInv, SortedPlaceOK, SortedTypeOK, ArePointers, NextOf
<1>2. InList \subseteq 1 .. Len(nodes)
  BY DEF InList
<1>3. ListStaysSorted
  <2>1. /\ \A n \in 1 .. Len(nodes) : nodes[n].next \in 0 .. Len(nodes)
        /\ \A n \in 1 .. Len(nodes) : NextOf[n] # 0 => DataOf[n] < DataOf[NextOf[n]]
    BY <1>1 DEF SortedTypeOK, SortedIInv, SortedPlaceOK, Ascend
  <2> SUFFICES ASSUME NEW n \in InList, nodes[n].next # 0
               PROVE  nodes[n].data < nodes[nodes[n].next].data
    BY DEF ListStaysSorted, NoNode
  <2>2. n \in 1 .. Len(nodes) /\ nodes[n].next \in 1 .. Len(nodes)
    BY <1>2, <2>1
  <2> QED  BY <2>1, <2>2 DEF NextOf, DataOf
<1> QED  BY <1>1, <1>3 DEF SortedIInv, SortedListInv

\* A step that leaves the nodes alone leaves the list alone.
LEMMA ListIsUnchanged ==
  ASSUME UNCHANGED <<first, nodes>>
  PROVE  /\ InList' = InList /\ NextOf' = NextOf /\ DataOf' = DataOf
         /\ UNCHANGED ArePointers(first, NextOf, Len(nodes))
         /\ UNCHANGED Ascend(NextOf, DataOf, Len(nodes))
         /\ \A pr, c : UNCHANGED After(first, NextOf, Len(nodes), pr, c)
<1>1. NextOf' = NextOf /\ DataOf' = DataOf
  BY DEF NextOf, DataOf
<1> QED  BY <1>1 DEF InList, Closed

\* What somebody who changes the list alone looks at is not freed.
LEMMA HeldIsThere ==
  ASSUME SortedIInv, ~ mixed, ~ wild, NEW t \in Operator, Updating(t)
  PROVE  /\ opPc[t] # "free" => opPrev[t] \notin released
         /\ opCurr[t] \notin released
<1>1. AloneInv(t) /\ InList \cap released = {} /\ released \subseteq 1 .. Len(nodes)
  BY DEF SortedIInv, UpdatesAloneInv, UpdatesAreThere, SortedPlaceOK
<1>2. InList = Reached(first, NextOf, Len(nodes)) /\ ClosedUnder(InList, first, NextOf)
      /\ InList \subseteq 1 .. Len(nodes)
  BY ListIsReached, ReachedIsLeast DEF SortedIInv, SortedPlaceOK
<1>3. ASSUME opPc[t] # "free"
      PROVE  opPrev[t] \in InList \cup {0} /\ opCurr[t] \in InList \cup {0}
  BY <1>1, <1>2, <1>3 DEF AloneInv, After, ClosedUnder
<1>4. opPc[t] = "free" => opCurr[t] \notin released
  BY <1>1 DEF AloneInv
<1> QED  BY <1>1, <1>3, <1>4

\* Only somebody who looks up touches a node that was freed, as long as one at a time
\* changes the list.
LEMMA ReadersTouch ==
  ASSUME SortedIInv, ~ wild, NEW t \in Operator, opPc[t] # "idle", NEW n, Touch(n),
         UNCHANGED <<op, performed, mixed>>, Updating(t) /\ ~ mixed => n \notin released
  PROVE  OnlyReadersMeetFreed'
<1>1. performed[t] > 0
  BY DEF SortedIInv, InHandInv
<1>2. wild' /\ ~ mixed' => op[t] = "Member"
  BY DEF Touch, Updating
<1> QED  BY <1>1, <1>2 DEF OnlyReadersMeetFreed

\* A thread begins an operation.
LEMMA CallIsSafe ==
  ASSUME SortedIInv, ~ wild, NEW t \in Operator, Call(t)
  PROVE  SortedIInv'
<1>1. PICK o \in {"Member", "Insert", "Delete"}, v \in 1 .. MaxValue :
        /\ op' = [op EXCEPT ![t] = o] /\ opValue' = [opValue EXCEPT ![t] = v]
        /\ mixed' = (mixed \/ (o # "Member" /\ \E u \in Operator : Updating(u)))
  BY DEF Call
<1>2. /\ opPc[t] = "idle" /\ opPc' = [opPc EXCEPT ![t] = "walk"]
      /\ opPrev' = [opPrev EXCEPT ![t] = 0] /\ opCurr' = [opCurr EXCEPT ![t] = first]
      /\ performed' = [performed EXCEPT ![t] = @ + 1]
      /\ UNCHANGED <<first, nodes, released, temp, wild, content>>
  BY DEF Call, SortedGo, NoNode
<1>3. SortedPlaceOK /\ \A u \in Operator : InHandInv(u)
  BY DEF SortedIInv
<1>4. SortedPlaceOK'
  <2>1. ArePointers(first, NextOf, Len(nodes))' /\ Ascend(NextOf, DataOf, Len(nodes))'
    BY <1>2, <1>3, ListIsUnchanged DEF SortedPlaceOK
  <2>2. v \in Int /\ first \in Int /\ performed[t] + 1 \in Nat
    BY <1>3, SortedListAssumption DEF SortedPlaceOK
  <2>3. /\ opPc' \in [Operator -> {"idle", "walk", "link", "unlink", "free"}]
        /\ op' \in [Operator -> {"Member", "Insert", "Delete"}]
        /\ opValue' \in [Operator -> Int] /\ performed' \in [Operator -> Nat]
        /\ opPrev' \in [Operator -> Int] /\ opCurr' \in [Operator -> Int]
    BY SMTT(30), <1>1, <1>2, <1>3, <2>2 DEF SortedPlaceOK
  <2> QED  BY <1>2, <1>3, <2>1, <2>3 DEF SortedPlaceOK
<1>5. ASSUME NEW u \in Operator PROVE InHandInv(u)'
  <2>1. first \in 0 .. Len(nodes) /\ performed[t] \in Nat /\ InHandInv(u)
    BY <1>3 DEF SortedPlaceOK, ArePointers
  <2>2. CASE u = t
    BY <1>1, <1>2, <1>3, <2>1, <2>2 DEF InHandInv, SortedPlaceOK
  <2>3. CASE u # t
    BY <1>1, <1>2, <1>3, <2>1, <2>3 DEF InHandInv, SortedPlaceOK
  <2> QED  BY <2>2, <2>3
<1>6. UpdatesAloneInv'
  <2> SUFFICES ASSUME ~ mixed', ~ wild', NEW u \in Operator, Updating(u)' PROVE AloneInv(u)'
    BY DEF UpdatesAloneInv
  <2>1. ~ mixed /\ (o # "Member" => \A w \in Operator : ~ Updating(w))
    BY <1>1
  <2>2. \A w \in Operator \ {t} : Updating(w)' <=> Updating(w)
    BY <1>1, <1>2, <1>3 DEF Updating, SortedPlaceOK
  <2>3. Updating(t)' => o # "Member"
    BY <1>1, <1>3 DEF Updating, SortedPlaceOK
  <2>4. ~ Updating(t)
    BY <1>2 DEF Updating
  <2>5. InList' = InList /\ \A pr, c : UNCHANGED After(first, NextOf, Len(nodes), pr, c)
    BY <1>2, ListIsUnchanged
  <2>6. CASE u = t
    <3>1. \A w \in Operator : Updating(w)' => w = t
      BY <2>1, <2>2, <2>3, <2>6
    <3>2. opPc'[t] = "walk" /\ opPrev'[t] = 0 /\ opCurr'[t] = first'
      BY <1>2, <1>3 DEF SortedPlaceOK
    <3>3. After(first, NextOf, Len(nodes), opPrev[t], opCurr[t])'
      BY <3>2 DEF After
    <3> QED  BY <2>6, <3>1, <3>2, <3>3 DEF AloneInv
  <2>7. CASE u # t
    <3>1. Updating(u) /\ AloneInv(u)
      BY <2>1, <2>2, <2>7, <1>2 DEF SortedIInv, UpdatesAloneInv
    <3>2. \A w \in Operator : Updating(w)' => w = u
      BY <2>1, <2>2, <2>3, <3>1 DEF AloneInv
    <3>3. /\ opPc'[u] = opPc[u] /\ opPrev'[u] = opPrev[u]
          /\ opCurr'[u] = opCurr[u] /\ temp'[u] = temp[u]
      BY <1>2, <1>3, <2>7 DEF SortedPlaceOK
    <3>4. After(first, NextOf, Len(nodes), opPrev[u], opCurr[u])'
          <=> After(first, NextOf, Len(nodes), opPrev[u], opCurr[u])
      BY <2>5, <3>3, <1>2 DEF After, NextOf, Reached, ClosedUnder
    <3> QED  BY <1>2, <2>5, <3>1, <3>2, <3>3, <3>4 DEF AloneInv
  <2> QED  BY <2>6, <2>7
<1>7. UpdatesAreThere' /\ OnlyReadersMeetFreed'
  <2>1. InList' = InList
    BY <1>2, ListIsUnchanged
  <2> QED  BY <1>1, <1>2, <2>1 DEF SortedIInv, UpdatesAreThere, OnlyReadersMeetFreed
<1> QED  BY <1>4, <1>5, <1>6, <1>7 DEF SortedIInv

\* A thread goes on to the next node.
LEMMA WalkIsSafe ==
  ASSUME SortedIInv, ~ wild, NEW t \in Operator, WalkOn(t)
  PROVE  SortedIInv'
<1> DEFINE c == opCurr[t]
<1>1. SortedPlaceOK /\ \A u \in Operator : InHandInv(u)
  BY DEF SortedIInv
<1>2. /\ opPc[t] = "walk" /\ c # 0 /\ nodes[c].data < opValue[t] /\ Touch(c)
      /\ opPrev' = [opPrev EXCEPT ![t] = c] /\ opCurr' = [opCurr EXCEPT ![t] = nodes[c].next]
      /\ UNCHANGED <<first, nodes, released, opPc, op, opValue, temp, performed, mixed, content>>
  BY DEF WalkOn, IsBefore, Data, NoNode
<1>3. c \in 1 .. Len(nodes)
  BY <1>1, <1>2 DEF InHandInv
<1>4. nodes[c].next \in 0 .. Len(nodes)
  BY <1>1, <1>3 DEF SortedPlaceOK, ArePointers, NextOf
<1> HIDE DEF c
<1>5. SortedPlaceOK'
  <2>1. ArePointers(first, NextOf, Len(nodes))' /\ Ascend(NextOf, DataOf, Len(nodes))'
    BY <1>1, <1>2, ListIsUnchanged DEF SortedPlaceOK
  <2>2. opPrev' \in [Operator -> Int] /\ opCurr' \in [Operator -> Int]
    BY <1>1, <1>2, <1>3, <1>4 DEF SortedPlaceOK
  <2> QED  BY <1>1, <1>2, <2>1, <2>2 DEF SortedPlaceOK
<1>6. ASSUME NEW u \in Operator PROVE InHandInv(u)'
  <2>1. InHandInv(u)
    BY <1>1
  <2>2. CASE u = t
    BY <1>1, <1>2, <1>3, <1>4, <2>1, <2>2 DEF InHandInv, SortedPlaceOK
  <2>3. CASE u # t
    BY <1>1, <1>2, <2>1, <2>3 DEF InHandInv, SortedPlaceOK
  <2> QED  BY <2>2, <2>3
<1>7. InList' = InList /\ NextOf' = NextOf
  BY <1>2, ListIsUnchanged
<1>8. UpdatesAloneInv'
  <2> SUFFICES ASSUME ~ mixed', ~ wild', NEW u \in Operator, Updating(u)' PROVE AloneInv(u)'
    BY DEF UpdatesAloneInv
  <2>1. /\ ~ mixed /\ \A w \in Operator : Updating(w)' <=> Updating(w)
        /\ AloneInv(u) /\ \A w \in Operator : Updating(w)' => w = u
    BY <1>2 DEF Updating, SortedIInv, UpdatesAloneInv, AloneInv
  <2>2. CASE u = t
    <3>1. opPrev'[t] = c /\ opCurr'[t] = nodes[c].next /\ opPc'[t] = "walk"
      BY <1>1, <1>2 DEF SortedPlaceOK
    <3>2. c \in Reached(first, NextOf, Len(nodes))
      <4>1. ClosedUnder(Reached(first, NextOf, Len(nodes)), first, NextOf)
        BY <1>1, ReachedIsLeast DEF SortedPlaceOK
      <4>2. After(first, NextOf, Len(nodes), opPrev[t], c)
        BY <1>2, <2>1, <2>2 DEF AloneInv, c
      <4> QED  BY <1>2, <4>1, <4>2 DEF After, ClosedUnder
    <3>3. After(first, NextOf, Len(nodes), opPrev[t], opCurr[t])'
      BY <1>2, <1>3, <1>7, <3>1, <3>2 DEF After, NextOf
    <3> QED  BY <2>1, <2>2, <3>1, <3>3 DEF AloneInv
  <2>3. CASE u # t
    <3>1. opPrev'[u] = opPrev[u] /\ opCurr'[u] = opCurr[u]
      BY <1>1, <1>2, <2>3 DEF SortedPlaceOK
    <3>2. opPc[u] # "free" => After(first, NextOf, Len(nodes), opPrev[u], opCurr[u])'
      BY <1>2, <1>7, <2>1, <3>1 DEF After, AloneInv
    <3> QED  BY <1>2, <1>7, <2>1, <3>1, <3>2 DEF AloneInv
  <2> QED  BY <2>2, <2>3
<1>9. OnlyReadersMeetFreed'
  <2>1. Updating(t) /\ ~ mixed => c \notin released
    BY HeldIsThere DEF c
  <2>2. opPc[t] # "idle" /\ Touch(c) /\ UNCHANGED <<op, performed, mixed>>
    BY <1>2
  <2> QED  BY <2>1, <2>2, ReadersTouch
<1>10. UpdatesAreThere'
  <2>1. wild' = FALSE => wild = FALSE
    OBVIOUS
  <2> QED  BY <1>2, <1>7 DEF SortedIInv, UpdatesAreThere
<1> QED  BY <1>5, <1>6, <1>8, <1>9, <1>10 DEF SortedIInv

\* The search ends: the parts that do not depend on what it was for.
LEMMA ArriveTouches ==
  ASSUME SortedIInv, ~ wild, NEW t \in Operator, Arrive(t)
  PROVE  OnlyReadersMeetFreed'
<1>1. Updating(t) /\ ~ mixed => opCurr[t] \notin released
  BY HeldIsThere
<1>2. opPc[t] # "idle" /\ Touch(opCurr[t]) /\ UNCHANGED <<op, performed, mixed>>
  BY DEF Arrive
<1> QED  BY <1>1, <1>2, ReadersTouch

\* The search ends and nothing is to be done.
LEMMA EndIsSafe ==
  ASSUME SortedIInv, ~ wild, NEW t \in Operator, Arrive(t), SortedGo(t, "idle"),
         UNCHANGED <<nodes, temp>>
  PROVE  SortedIInv'
<1>1. SortedPlaceOK /\ \A u \in Operator : InHandInv(u)
  BY DEF SortedIInv
<1>2. /\ opPc[t] = "walk" /\ opPc' = [opPc EXCEPT ![t] = "idle"]
      /\ UNCHANGED <<first, nodes, released, op, opValue, opPrev, opCurr, temp, performed, mixed,
                     content>>
  BY DEF Arrive, SortedGo
<1>3. SortedPlaceOK'
  <2>1. ArePointers(first, NextOf, Len(nodes))' /\ Ascend(NextOf, DataOf, Len(nodes))'
    BY <1>1, <1>2, ListIsUnchanged DEF SortedPlaceOK
  <2>2. opPc' \in [Operator -> {"idle", "walk", "link", "unlink", "free"}]
    BY <1>1, <1>2 DEF SortedPlaceOK
  <2> QED  BY <1>1, <1>2, <2>1, <2>2 DEF SortedPlaceOK
<1>4. ASSUME NEW u \in Operator PROVE InHandInv(u)'
  <2>1. InHandInv(u) /\ (opPc'[u] = opPc[u] \/ opPc'[u] = "idle")
    BY <1>1, <1>2 DEF SortedPlaceOK
  <2> QED  BY <1>1, <1>2, <2>1 DEF InHandInv
<1>5. InList' = InList /\ NextOf' = NextOf
  BY <1>2, ListIsUnchanged
<1>6. UpdatesAloneInv'
  <2> SUFFICES ASSUME ~ mixed', ~ wild', NEW u \in Operator, Updating(u)' PROVE AloneInv(u)'
    BY DEF UpdatesAloneInv
  <2>1. ~ mixed /\ opPc'[u] = opPc[u] /\ \A w \in Operator : Updating(w)' => Updating(w)
    BY <1>1, <1>2 DEF Updating, SortedPlaceOK
  <2>2. AloneInv(u)
    BY <2>1 DEF SortedIInv, UpdatesAloneInv
  <2>3. opPc[u] # "free" => After(first, NextOf, Len(nodes), opPrev[u], opCurr[u])'
    BY <1>2, <1>5, <2>2 DEF After, AloneInv
  <2> QED  BY <1>2, <1>5, <2>1, <2>2, <2>3 DEF AloneInv
<1>7. UpdatesAreThere'
  BY <1>2, <1>5 DEF SortedIInv, UpdatesAreThere
<1> QED  BY <1>3, <1>4, <1>6, <1>7, ArriveTouches DEF SortedIInv

\* The search for a value to delete ends at its node.
LEMMA FindIsSafe ==
  ASSUME SortedIInv, ~ wild, NEW t \in Operator, Arrive(t), op[t] = "Delete", Finds(t),
         SortedGo(t, "unlink"), temp' = [temp EXCEPT ![t] = nodes[opCurr[t]].next], UNCHANGED nodes
  PROVE  SortedIInv'
<1> DEFINE c == opCurr[t]
<1>1. SortedPlaceOK /\ \A u \in Operator : InHandInv(u)
  BY DEF SortedIInv
<1>2. /\ opPc[t] = "walk" /\ opPc' = [opPc EXCEPT ![t] = "unlink"]
      /\ c # 0 /\ nodes[c].data = opValue[t] /\ temp' = [temp EXCEPT ![t] = nodes[c].next]
      /\ UNCHANGED <<first, nodes, released, op, opValue, opPrev, opCurr, performed, mixed,
                     content>>
  BY DEF Arrive, SortedGo, Finds, Data, NoNode
<1>3. c \in 1 .. Len(nodes)
  BY <1>1, <1>2 DEF InHandInv
<1>4. /\ nodes[c].next \in 0 .. Len(nodes)
      /\ nodes[c].next # 0 => nodes[c].data < nodes[nodes[c].next].data
  <2>1. nodes[c].next \in 0 .. Len(nodes)
    BY <1>1, <1>3 DEF SortedPlaceOK, ArePointers, NextOf
  <2>2. NextOf[c] = nodes[c].next /\ DataOf[c] = nodes[c].data
        /\ (nodes[c].next # 0 => DataOf[nodes[c].next] = nodes[nodes[c].next].data)
    BY <1>3, <2>1 DEF NextOf, DataOf
  <2>3. NextOf[c] # 0 => DataOf[c] < DataOf[NextOf[c]]
    BY <1>1, <1>3 DEF SortedPlaceOK, Ascend
  <2> QED  BY <2>1, <2>2, <2>3
<1>5. SortedPlaceOK'
  <2>1. ArePointers(first, NextOf, Len(nodes))' /\ Ascend(NextOf, DataOf, Len(nodes))'
    BY <1>1, <1>2, ListIsUnchanged DEF SortedPlaceOK
  <2>2. /\ opPc' \in [Operator -> {"idle", "walk", "link", "unlink", "free"}]
        /\ temp' \in [Operator -> Int]
    BY <1>1, <1>2, <1>4 DEF SortedPlaceOK
  <2> QED  BY <1>1, <1>2, <2>1, <2>2 DEF SortedPlaceOK
<1>6. ASSUME NEW u \in Operator PROVE InHandInv(u)'
  <2>1. InHandInv(u)
    BY <1>1
  <2>2. CASE u = t
    <3>1. opPc'[t] = "unlink" /\ temp'[t] = nodes[c].next
      BY <1>1, <1>2 DEF SortedPlaceOK
    <3> QED  BY <1>2, <1>3, <1>4, <2>1, <2>2, <3>1 DEF InHandInv
  <2>3. CASE u # t
    BY <1>1, <1>2, <2>1, <2>3 DEF InHandInv, SortedPlaceOK
  <2> QED  BY <2>2, <2>3
<1>7. InList' = InList /\ NextOf' = NextOf
  BY <1>2, ListIsUnchanged
<1>8. UpdatesAloneInv'
  <2> SUFFICES ASSUME ~ mixed', ~ wild', NEW u \in Operator, Updating(u)' PROVE AloneInv(u)'
    BY DEF UpdatesAloneInv
  <2>1. ~ mixed /\ \A w \in Operator : Updating(w)' <=> Updating(w)
    BY <1>1, <1>2 DEF Updating, SortedPlaceOK
  <2>2. AloneInv(u) /\ Updating(t)
    BY <1>2, <2>1 DEF SortedIInv, UpdatesAloneInv, Updating
  <2>3. u = t
    BY <2>1, <2>2 DEF AloneInv
  <2>4. opPc'[t] = "unlink" /\ temp'[t] = nodes[c].next
    BY <1>1, <1>2 DEF SortedPlaceOK
  <2>5. After(first, NextOf, Len(nodes), opPrev[t], c)
    BY <1>2, <2>2, <2>3 DEF AloneInv, c
  <2>6. c \in InList
    <3>1. ClosedUnder(Reached(first, NextOf, Len(nodes)), first, NextOf)
          /\ InList = Reached(first, NextOf, Len(nodes))
      BY <1>1, ReachedIsLeast, ListIsReached DEF SortedPlaceOK
    <3> QED  BY <1>2, <2>5, <3>1 DEF After, ClosedUnder
  <2>7. After(first, NextOf, Len(nodes), opPrev[t], opCurr[t])'
    BY <1>2, <1>7, <2>5 DEF After
  <2> QED  BY <1>2, <1>7, <2>1, <2>2, <2>3, <2>4, <2>6, <2>7 DEF AloneInv
<1>9. UpdatesAreThere'
  BY <1>2, <1>7 DEF SortedIInv, UpdatesAreThere
<1> QED  BY <1>5, <1>6, <1>8, <1>9, ArriveTouches DEF SortedIInv

\* The search for the place of a new value ends, and a node is made for it.
LEMMA NewNodeIsSafe ==
  ASSUME SortedIInv, ~ wild, NEW t \in Operator, Arrive(t), op[t] = "Insert", ~ Finds(t),
         SortedGo(t, "link"), nodes' = Append(nodes, [data |-> opValue[t], next |-> opCurr[t]]),
         temp' = [temp EXCEPT ![t] = Len(nodes')]
  PROVE  SortedIInv'
<1> DEFINE c == opCurr[t]
           N == Len(nodes)
           fresh == [data |-> opValue[t], next |-> c]
<1>1. SortedPlaceOK /\ \A u \in Operator : InHandInv(u)
  BY DEF SortedIInv
<1>2. /\ opPc[t] = "walk" /\ opPc' = [opPc EXCEPT ![t] = "link"]
      /\ nodes' = Append(nodes, fresh) /\ temp' = [temp EXCEPT ![t] = Len(nodes')]
      /\ c # 0 => ~ (nodes[c].data < opValue[t]) /\ nodes[c].data # opValue[t]
      /\ UNCHANGED <<first, released, op, opValue, opPrev, opCurr, performed, mixed, content>>
  BY DEF Arrive, SortedGo, Finds, IsBefore, Data, NoNode
<1>3. c \in 0 .. N /\ N \in Nat /\ opValue[t] \in Int
  BY <1>1 DEF InHandInv, SortedPlaceOK, ArePointers
<1>4. /\ Len(nodes') = N + 1 /\ nodes'[N + 1] = fresh /\ nodes' \in Seq([data : Int, next : Int])
      /\ \A n \in 1 .. N : nodes'[n] = nodes[n] /\ nodes[n] \in [data : Int, next : Int]
  <2>1. fresh \in [data : Int, next : Int] /\ nodes \in Seq([data : Int, next : Int])
    BY <1>1, <1>3 DEF SortedPlaceOK
  <2>2. nodes' = Append(nodes, fresh)
    BY <1>2
  <2> HIDE DEF fresh
  <2>3. /\ nodes' \in Seq([data : Int, next : Int]) /\ Len(nodes') = N + 1 /\ nodes'[N + 1] = fresh
        /\ \A n \in 1 .. N : nodes'[n] = nodes[n]
    BY ONLY <2>1, <2>2, AppendProperties
  <2>4. \A n \in 1 .. N : nodes[n] \in [data : Int, next : Int]
    BY ONLY <2>1, ElementOfSeq
  <2> QED  BY <2>3, <2>4
<1> DEFINE nx2 == NextOf'
           dt2 == DataOf'
<1>5. /\ \A n \in 1 .. N : nx2[n] = NextOf[n] /\ dt2[n] = DataOf[n]
      /\ nx2[N + 1] = c /\ dt2[N + 1] = opValue[t]
  BY <1>3, <1>4 DEF NextOf, DataOf
<1>6. \A n \in 1 .. N : NextOf[n] \in 0 .. N /\ DataOf[n] \in Int
                        /\ (NextOf[n] # 0 => DataOf[n] < DataOf[NextOf[n]])
  BY <1>1 DEF SortedPlaceOK, ArePointers, Ascend
<1>7. c # 0 => opValue[t] < DataOf[c]
  <2> SUFFICES ASSUME c # 0 PROVE opValue[t] < DataOf[c]
    OBVIOUS
  <2>1. c \in 1 .. N
    BY <1>3
  <2>2. DataOf[c] = nodes[c].data /\ DataOf[c] \in Int
    BY <1>6, <2>1 DEF DataOf
  <2>3. ~ (nodes[c].data < opValue[t]) /\ nodes[c].data # opValue[t]
    BY <1>2
  <2> HIDE DEF c
  <2> QED  BY <1>3, <2>2, <2>3
<1>8. first \in 0 .. N /\ first \in Int
  BY <1>1 DEF SortedPlaceOK, ArePointers
<1> HIDE DEF nx2, dt2, c, N, fresh
<1>9. ArePointers(first, nx2, N + 1) /\ Ascend(nx2, dt2, N + 1)
  <2>1. ASSUME NEW n \in 1 .. N + 1
        PROVE  nx2[n] \in 0 .. N + 1 /\ dt2[n] \in Int /\ (nx2[n] # 0 => dt2[n] < dt2[nx2[n]])
    <3>1. CASE n = N + 1
      BY <1>3, <1>5, <1>7, <3>1
    <3>2. CASE n # N + 1
      <4>1. n \in 1 .. N
        BY <1>3, <3>2
      <4>2. nx2[n] = NextOf[n] /\ dt2[n] = DataOf[n]
        BY <1>5, <4>1
      <4>3. /\ NextOf[n] \in 0 .. N /\ DataOf[n] \in Int
            /\ NextOf[n] # 0 => DataOf[n] < DataOf[NextOf[n]]
        BY <1>6, <4>1
      <4>4. NextOf[n] # 0 => dt2[NextOf[n]] = DataOf[NextOf[n]]
        <5>1. NextOf[n] # 0 => NextOf[n] \in 1 .. N
          BY <1>3, <4>3
        <5> QED  BY <1>5, <5>1
      <4> HIDE DEF NextOf, DataOf
      <4> QED  BY <1>3, <4>2, <4>3, <4>4
    <3> QED  BY <3>1, <3>2
  <2> QED  BY <1>3, <1>8, <2>1 DEF ArePointers, Ascend
<1>10. SortedPlaceOK'
  <2>1. ArePointers(first, NextOf, Len(nodes))' /\ Ascend(NextOf, DataOf, Len(nodes))'
    BY <1>2, <1>4, <1>9 DEF nx2, dt2
  <2>2. /\ opPc' \in [Operator -> {"idle", "walk", "link", "unlink", "free"}]
        /\ temp' \in [Operator -> Int] /\ released' \subseteq 1 .. Len(nodes')
    BY <1>1, <1>2, <1>3, <1>4 DEF SortedPlaceOK, N
  <2> QED  BY <1>1, <1>2, <1>4, <2>1, <2>2 DEF SortedPlaceOK
<1>11. opPc'[t] = "link" /\ temp'[t] = N + 1
  BY <1>1, <1>2, <1>4 DEF SortedPlaceOK
<1>12. ASSUME NEW u \in Operator, u # t PROVE opPc'[u] = opPc[u] /\ temp'[u] = temp[u]
  BY <1>1, <1>2, <1>12 DEF SortedPlaceOK
<1>13. ASSUME NEW u \in Operator PROVE InHandInv(u)'
  <2>1. InHandInv(u)
    BY <1>1
  <2>2. {opPrev[u], opCurr[u], temp[u]} \subseteq 0 .. N
    BY <2>1 DEF InHandInv, N
  <2>3. CASE u = t
    <3>1. opPrev[t] # 0 => nodes[opPrev[t]].data < opValue[t]
      BY <1>2, <2>1, <2>3 DEF InHandInv
    <3>2. opPrev[t] # 0 => nodes'[opPrev[t]].data < opValue[t]
      BY <1>3, <1>4, <2>2, <2>3, <3>1
    <3>3. nodes'[temp'[t]].data = opValue[t]
      BY <1>4, <1>11 DEF fresh
    <3>4. performed[t] > 0
      BY <1>2, <2>1, <2>3 DEF InHandInv
    <3>5. {opPrev[t], opCurr[t], temp'[t]} \subseteq 0 .. Len(nodes')
      BY <1>3, <1>4, <1>11, <2>2, <2>3
    <3> QED  BY <1>2, <1>3, <1>11, <2>3, <3>2, <3>3, <3>4, <3>5 DEF InHandInv
  <2>4. CASE u # t
    <3>1. opPc'[u] = opPc[u] /\ temp'[u] = temp[u]
      BY <1>12, <2>4
    <3>2. {opPrev[u], opCurr[u], temp[u]} \subseteq 0 .. Len(nodes')
      BY <1>3, <1>4, <2>2
    <3>3. \A n \in {opPrev[u], opCurr[u], temp[u]} : n # 0 => nodes'[n] = nodes[n]
      BY <1>3, <1>4, <2>2
    <3> QED  BY <1>2, <2>1, <3>1, <3>2, <3>3 DEF InHandInv
  <2> QED  BY <2>3, <2>4
<1>14. InList' = InList
  <2>1. Reached(first, nx2, N + 1) = Reached(first, NextOf, N)
    BY <1>1, <1>5, <1>9, UnlinkedNode DEF SortedPlaceOK, N
  <2>2. InList = Reached(first, NextOf, N)
    BY <1>1, ListIsReached DEF N
  <2>3. InList' = Reached(first', NextOf', Len(nodes'))
    BY <1>10, ListIsReached
  <2> QED  BY <1>2, <1>4, <2>1, <2>2, <2>3 DEF nx2
<1>15. InList \subseteq 1 .. N /\ released \subseteq 1 .. N
  BY <1>1 DEF InList, SortedPlaceOK, N
<1>16. UpdatesAloneInv'
  <2> SUFFICES ASSUME ~ mixed', ~ wild', NEW u \in Operator, Updating(u)' PROVE AloneInv(u)'
    BY DEF UpdatesAloneInv
  <2>1. ~ mixed /\ \A w \in Operator : Updating(w)' <=> Updating(w)
    BY <1>2, <1>11, <1>12 DEF Updating
  <2>2. AloneInv(u) /\ Updating(t)
    BY <1>2, <2>1 DEF SortedIInv, UpdatesAloneInv, Updating
  <2>3. u = t
    BY <2>1, <2>2 DEF AloneInv
  <2>4. After(first, NextOf, N, opPrev[t], c)
    BY <1>2, <2>2, <2>3 DEF AloneInv, c, N
  <2>5. After(first, NextOf, Len(nodes), opPrev[t], opCurr[t])'
    <3>1. Reached(first, NextOf, Len(nodes))' = Reached(first, NextOf, N)
      BY <1>1, <1>10, <1>14, ListIsReached DEF N
    <3>2. Reached(first, NextOf, N) \subseteq 1 .. N
      BY DEF Reached
    <3> QED  BY <1>2, <1>5, <2>4, <3>1, <3>2 DEF After, nx2, c
  <2>6. temp'[t] \notin InList' /\ temp'[t] \notin released' /\ nodes'[temp'[t]].next = opCurr'[t]
    BY <1>2, <1>3, <1>4, <1>11, <1>14, <1>15 DEF fresh, c
  <2> QED  BY <1>11, <2>1, <2>2, <2>3, <2>5, <2>6 DEF AloneInv
<1>17. UpdatesAreThere'
  <2>1. \A n \in InList : nodes'[n] = nodes[n]
    BY <1>4, <1>15
  <2> QED  BY ZenonT(60), <1>2, <1>14, <2>1 DEF SortedIInv, UpdatesAreThere
<1> QED  BY <1>10, <1>13, <1>16, <1>17, ArriveTouches DEF SortedIInv

\* The three ends of a search.
LEMMA ArriveIsSafe ==
  ASSUME SortedIInv, ~ wild, NEW t \in Operator, Arrive(t)
  PROVE  SortedIInv'
<1>1. CASE /\ op[t] = "Insert" /\ ~Finds(t) /\ SortedGo(t, "link")
           /\ nodes' = Append(nodes, [data |-> opValue[t], next |-> opCurr[t]])
           /\ temp' = [temp EXCEPT ![t] = Len(nodes')]
  BY <1>1, NewNodeIsSafe
<1>2. CASE /\ op[t] = "Delete" /\ Finds(t) /\ SortedGo(t, "unlink")
           /\ temp' = [temp EXCEPT ![t] = nodes[opCurr[t]].next] /\ UNCHANGED nodes
  BY <1>2, FindIsSafe
<1>3. CASE SortedGo(t, "idle") /\ UNCHANGED <<nodes, temp>>
  BY <1>3, EndIsSafe
<1> QED  BY <1>1, <1>2, <1>3 DEF Arrive

\* A node that was taken out is freed.
LEMMA FreeIsSafe ==
  ASSUME SortedIInv, ~ wild, NEW t \in Operator, FreeNode(t)
  PROVE  SortedIInv'
<1> DEFINE c == opCurr[t]
<1>1. SortedPlaceOK /\ \A u \in Operator : InHandInv(u)
  BY DEF SortedIInv
<1>2. /\ opPc[t] = "free" /\ Touch(c) /\ released' = released \cup {c}
      /\ opPc' = [opPc EXCEPT ![t] = "idle"]
      /\ UNCHANGED <<first, nodes, op, opValue, opPrev, opCurr, temp, performed, mixed, content>>
  BY DEF FreeNode, SortedGo
<1>3. c \in 1 .. Len(nodes) /\ Updating(t)
  BY <1>1, <1>2 DEF InHandInv, Updating
<1>4. SortedPlaceOK'
  <2>1. ArePointers(first, NextOf, Len(nodes))' /\ Ascend(NextOf, DataOf, Len(nodes))'
    BY <1>1, <1>2, ListIsUnchanged DEF SortedPlaceOK
  <2>2. opPc' \in [Operator -> {"idle", "walk", "link", "unlink", "free"}]
    BY <1>1, <1>2 DEF SortedPlaceOK
  <2> QED  BY <1>1, <1>2, <1>3, <2>1, <2>2 DEF SortedPlaceOK
<1>5. ASSUME NEW u \in Operator PROVE InHandInv(u)'
  <2>1. InHandInv(u) /\ (opPc'[u] = opPc[u] \/ opPc'[u] = "idle")
    BY <1>1, <1>2 DEF SortedPlaceOK
  <2> QED  BY <1>1, <1>2, <2>1 DEF InHandInv
<1>6. InList' = InList
  BY <1>2, ListIsUnchanged
<1>7. UpdatesAloneInv'
  <2> SUFFICES ASSUME ~ mixed', ~ wild', NEW u \in Operator, Updating(u)' PROVE FALSE
    BY DEF UpdatesAloneInv
  <2>1. ~ mixed /\ Updating(u) /\ u # t
    BY <1>1, <1>2 DEF Updating, SortedPlaceOK
  <2> QED  BY <1>3, <2>1 DEF SortedIInv, UpdatesAloneInv, AloneInv
<1>8. UpdatesAreThere'
  <2>1. ~ mixed => c \notin InList
    BY <1>2, <1>3 DEF SortedIInv, UpdatesAloneInv, AloneInv
  <2> QED  BY <1>2, <1>6, <2>1 DEF SortedIInv, UpdatesAreThere
<1>9. OnlyReadersMeetFreed'
  <2>1. Updating(t) /\ ~ mixed => c \notin released
    BY HeldIsThere
  <2> QED  BY <1>2, <2>1, ReadersTouch
<1> QED  BY <1>4, <1>5, <1>7, <1>8, <1>9 DEF SortedIInv

\* The pointer is set: what holds of the nodes whatever the others do.
LEMMA PointerIsSet ==
  ASSUME SortedIInv, ~ wild, NEW t \in Operator, SetNext(t)
  PROVE  /\ SortedPlaceOK' /\ Len(nodes') = Len(nodes)
         /\ \A n \in 1 .. Len(nodes) : nodes'[n].data = nodes[n].data
         /\ \A n \in 1 .. Len(nodes) : n # opPrev[t] => nodes'[n] = nodes[n]
         /\ opPrev[t] \in 0 .. Len(nodes) /\ temp[t] \in 0 .. Len(nodes)
         /\ Redirected(first, NextOf, first', NextOf', Len(nodes), opPrev[t], temp[t])
<1> DEFINE pr == opPrev[t]
           q == temp[t]
           N == Len(nodes)
<1>1. SortedPlaceOK /\ InHandInv(t) /\ N \in Nat
  BY DEF SortedIInv, SortedPlaceOK, ArePointers
<1>2. /\ opPc[t] \in {"link", "unlink"}
      /\ pr = 0 => first' = q /\ nodes' = nodes
      /\ pr # 0 => nodes' = [nodes EXCEPT ![pr].next = q] /\ first' = first
      /\ opPc' = [opPc EXCEPT ![t] = IF op[t] = "Insert" THEN "idle" ELSE "free"]
      /\ UNCHANGED <<released, op, opValue, opPrev, opCurr, temp, performed, mixed>>
  BY DEF SetNext, SortedGo, NoNode
<1>3. /\ pr \in 0 .. N /\ q \in 0 .. N
      /\ pr # 0 => nodes[pr].data < opValue[t]
      /\ q # 0 => opValue[t] \in Int /\ nodes[q].data >= opValue[t]
  <2>1. /\ pr \in 0 .. N /\ q \in 0 .. N /\ opValue[t] \in Int
        /\ pr # 0 => nodes[pr].data < opValue[t]
    BY <1>1, <1>2 DEF InHandInv, SortedPlaceOK
  <2>2. q # 0 => nodes[q].data = opValue[t] \/ opValue[t] < nodes[q].data
    BY <1>1, <1>2 DEF InHandInv
  <2>3. q # 0 => DataOf[q] = nodes[q].data /\ DataOf[q] \in Int
    <3>1. q # 0 => q \in 1 .. N
      BY <2>1
    <3> QED  BY <1>1, <3>1 DEF SortedPlaceOK, Ascend, DataOf
  <2> QED  BY <2>1, <2>2, <2>3
<1>4. \A n \in 1 .. N : nodes[n] \in [data : Int, next : Int]
  <2>1. nodes \in Seq([data : Int, next : Int])
    BY <1>1 DEF SortedPlaceOK
  <2> QED  BY ONLY <2>1, ElementOfSeq
<1>5. /\ nodes' \in Seq([data : Int, next : Int]) /\ Len(nodes') = N
      /\ \A n \in 1 .. N : nodes'[n] = IF n = pr THEN [nodes[n] EXCEPT !.next = q] ELSE nodes[n]
  <2>1. nodes \in Seq([data : Int, next : Int]) /\ q \in Int
    BY <1>1, <1>3 DEF SortedPlaceOK
  <2>2. CASE pr = 0
    BY <1>2, <2>1, <2>2
  <2>3. CASE pr # 0
    <3>1. nodes' = [nodes EXCEPT ![pr] = [nodes[pr] EXCEPT !.next = q]] /\ pr \in 1 .. N
      BY <1>2, <1>3, <2>3
    <3>2. [nodes[pr] EXCEPT !.next = q] \in [data : Int, next : Int]
      BY <1>4, <2>1, <3>1
    <3> DEFINE r == [nodes[pr] EXCEPT !.next = q]
    <3> HIDE DEF r, pr
    <3>3. nodes' \in Seq([data : Int, next : Int]) /\ Len(nodes') = N
          /\ \A n \in 1 .. N : nodes'[n] = IF n = pr THEN r ELSE nodes[n]
      BY ONLY <2>1, <3>1, <3>2, ExceptSeq DEF r
    <3> QED  BY <3>3 DEF r
  <2> QED  BY <2>2, <2>3
<1>6. \A n \in 1 .. N : /\ nodes'[n].data = nodes[n].data /\ nodes[n].data \in Int
                        /\ nodes'[n].next = IF n = pr THEN q ELSE nodes[n].next
  BY <1>4, <1>5
<1>7. /\ DataOf' = DataOf /\ \A n \in 1 .. N : DataOf[n] = nodes[n].data
      /\ \A n \in 1 .. N : NextOf'[n] = IF n = pr THEN q ELSE NextOf[n]
  BY <1>5, <1>6 DEF DataOf, NextOf
<1>8. Redirected(first, NextOf, first', NextOf', N, pr, q)
  BY <1>2, <1>7 DEF Redirected
<1> DEFINE nx2 == NextOf'
<1> HIDE DEF pr, q, N, nx2
<1>9. ArePointers(first', nx2, N)
  <2>1. ArePointers(first, NextOf, N)
    BY <1>1 DEF SortedPlaceOK, N
  <2> QED  BY <1>2, <1>3, <1>7, <2>1 DEF ArePointers, nx2
<1>10. Ascend(nx2, DataOf, N)
  <2>1. Ascend(NextOf, DataOf, N) /\ opValue[t] \in Int
    BY <1>1 DEF SortedPlaceOK, N
  <2>2. ASSUME NEW n \in 1 .. N
        PROVE  DataOf[n] \in Int /\ (nx2[n] # 0 => DataOf[n] < DataOf[nx2[n]])
    <3>1. CASE n = pr
      <4>1. nx2[n] = q /\ DataOf[n] = nodes[pr].data /\ pr # 0
        BY <1>7, <2>2, <3>1 DEF nx2
      <4>2. q # 0 => DataOf[q] = nodes[q].data /\ DataOf[q] \in Int
        BY <1>3, <1>7, <2>1 DEF Ascend
      <4> QED  BY <1>3, <2>1, <2>2, <4>1, <4>2 DEF Ascend
    <3>2. CASE n # pr
      BY <1>7, <2>1, <2>2, <3>2 DEF Ascend, nx2
    <3> QED  BY <3>1, <3>2
  <2> QED  BY <2>2 DEF Ascend
<1>11. SortedPlaceOK'
  <2>1. ArePointers(first, NextOf, Len(nodes))' /\ Ascend(NextOf, DataOf, Len(nodes))'
    BY <1>5, <1>7, <1>9, <1>10 DEF nx2
  <2>2. opPc' \in [Operator -> {"idle", "walk", "link", "unlink", "free"}] /\ first' \in Int
    BY <1>1, <1>2, <1>3 DEF SortedPlaceOK
  <2> QED  BY <1>1, <1>2, <1>5, <2>1, <2>2 DEF SortedPlaceOK, N
<1> QED  BY <1>3, <1>5, <1>6, <1>8, <1>11 DEF pr, q, N

\* The store that links or unlinks a node.
LEMMA SetNextIsSafe ==
  ASSUME SortedIInv, ~ wild, NEW t \in Operator, SetNext(t)
  PROVE  SortedIInv'
<1> DEFINE pr == opPrev[t]
           q == temp[t]
           c == opCurr[t]
           N == Len(nodes)
<1>1. SortedPlaceOK /\ \A u \in Operator : InHandInv(u)
  BY DEF SortedIInv
<1>2. /\ opPc[t] \in {"link", "unlink"} /\ Touch(pr)
      /\ content' = (IF op[t] = "Insert" THEN content \cup {opValue[t]} ELSE content \ {opValue[t]})
      /\ opPc' = [opPc EXCEPT ![t] = IF op[t] = "Insert" THEN "idle" ELSE "free"]
      /\ UNCHANGED <<released, op, opValue, opPrev, opCurr, temp, performed, mixed>>
  BY DEF SetNext, SortedGo
<1>3. /\ SortedPlaceOK' /\ Len(nodes') = N /\ pr \in 0 .. N /\ q \in 0 .. N
      /\ \A n \in 1 .. N : nodes'[n].data = nodes[n].data
      /\ \A n \in 1 .. N : n # pr => nodes'[n] = nodes[n]
      /\ Redirected(first, NextOf, first', NextOf', N, pr, q)
  BY PointerIsSet
<1>4. InHandInv(t)
  BY <1>1
<1>5. /\ opPc[t] = "link" => op[t] = "Insert" /\ q # 0 /\ nodes[q].data = opValue[t]
      /\ opPc[t] = "unlink" => op[t] = "Delete" /\ c # 0 /\ nodes[c].data = opValue[t]
      /\ c \in 0 .. N
  BY <1>2, <1>4 DEF InHandInv
<1>6. /\ opPc'[t] = IF op[t] = "Insert" THEN "idle" ELSE "free"
      /\ \A u \in Operator : u # t => opPc'[u] = opPc[u]
  BY <1>1, <1>2 DEF SortedPlaceOK
<1>7. ASSUME NEW u \in Operator PROVE InHandInv(u)'
  <2>1. InHandInv(u)
    BY <1>1
  <2>2. {opPrev[u], opCurr[u], temp[u]} \subseteq 0 .. N
    BY <2>1 DEF InHandInv
  <2>3. \A n \in {opPrev[u], opCurr[u], temp[u]} : n # 0 => nodes'[n].data = nodes[n].data
    BY <1>3, <2>2
  <2>4. CASE u = t
    BY <1>2, <1>3, <1>5, <1>6, <2>1, <2>2, <2>4 DEF InHandInv
  <2>5. CASE u # t
    <3>1. opPc'[u] = opPc[u]
      BY <1>6, <2>5
    <3> QED  BY <1>2, <1>3, <2>1, <2>2, <2>3, <3>1 DEF InHandInv
  <2> QED  BY <2>4, <2>5
<1>8. Updating(t)
  BY <1>2, <1>5 DEF Updating
<1>9. InList = Reached(first, NextOf, N) /\ InList' = Reached(first', NextOf', N)
      /\ InList \subseteq 1 .. N
  <2>1. InList' = Reached(first', NextOf', Len(nodes'))
    BY <1>3, ListIsReached
  <2> QED  BY <1>1, <1>3, <2>1, ListIsReached DEF InList
<1>10. /\ ArePointers(first, NextOf, N) /\ Ascend(NextOf, DataOf, N)
       /\ ArePointers(first', NextOf', N)
       /\ \A n \in 1 .. N : NextOf[n] = nodes[n].next /\ DataOf[n] = nodes[n].data
  <2>1. ArePointers(first', NextOf', Len(nodes'))
    BY <1>3 DEF SortedPlaceOK
  <2> QED  BY <1>1, <1>3, <2>1 DEF SortedPlaceOK, NextOf, DataOf
<1>11. ~ mixed => AloneInv(t)
  BY <1>8 DEF SortedIInv, UpdatesAloneInv
<1>12. ASSUME ~ mixed
       PROVE  /\ opPc[t] = "link" => InList' = InList \cup {q} /\ q \notin released
              /\ opPc[t] = "unlink" => InList' = InList \ {c} /\ c \in InList
  <2>1. AloneInv(t)
    BY <1>11, <1>12
  <2>2. After(first, NextOf, N, pr, c)
    BY <1>2, <2>1 DEF AloneInv
  <2>3. CASE opPc[t] = "link"
    <3>1. q \notin InList /\ q \notin released /\ nodes[q].next = c /\ q \in 1 .. N
      BY <1>3, <1>5, <2>1, <2>3 DEF AloneInv
    <3>2. NextOf[q] = c /\ q \notin Reached(first, NextOf, N)
      BY <1>9, <1>10, <3>1
    <3> HIDE DEF pr, q, c, N
    <3>3. Reached(first', NextOf', N) = Reached(first, NextOf, N) \cup {q}
      BY <1>3, <1>10, <2>2, <3>1, <3>2, NodeJoins
    <3> QED  BY <1>9, <2>3, <3>1, <3>3
  <2>4. CASE opPc[t] = "unlink"
    <3>1. c \in InList /\ nodes[c].next = q /\ c \in 1 .. N
      BY <1>9, <2>1, <2>4 DEF AloneInv
    <3>2. NextOf[c] = q /\ c \in Reached(first, NextOf, N)
      BY <1>9, <1>10, <3>1
    <3> HIDE DEF pr, q, c, N
    <3>3. Reached(first', NextOf', N) = Reached(first, NextOf, N) \ {c}
      BY <1>3, <1>10, <2>2, <3>2, NodeLeaves
    <3> QED  BY <1>9, <2>4, <3>1, <3>3
  <2> QED  BY <2>3, <2>4, <1>2
<1>13. UpdatesAloneInv'
  <2> SUFFICES ASSUME ~ mixed', ~ wild', NEW u \in Operator, Updating(u)' PROVE AloneInv(u)'
    BY DEF UpdatesAloneInv
  <2>1. ~ mixed /\ \A w \in Operator : Updating(w)' => Updating(w)
    BY <1>2, <1>6, <1>8 DEF Updating
  <2>2. u = t /\ opPc'[t] = "free" /\ opPc[t] = "unlink"
    BY <1>2, <1>5, <1>6, <1>11, <2>1 DEF AloneInv, Updating
  <2>3. c \in InList /\ c \notin InList' /\ InList \cap released = {}
    BY <1>12, <2>1, <2>2 DEF SortedIInv, UpdatesAreThere
  <2>4. \A w \in Operator : Updating(w)' => w = t
    BY <1>11, <2>1 DEF AloneInv
  <2> QED  BY <1>2, <2>2, <2>3, <2>4 DEF AloneInv
<1>14. UpdatesAreThere'
  <2> SUFFICES ASSUME ~ mixed', ~ wild'
               PROVE  /\ {nodes'[n].data : n \in InList'} = content'
                      /\ InList' \cap released' = {}
    BY DEF UpdatesAreThere
  <2>1. ~ mixed /\ {nodes[n].data : n \in InList} = content /\ InList \cap released = {}
    BY <1>2 DEF SortedIInv, UpdatesAreThere
  <2>2. \A n \in InList : nodes'[n].data = nodes[n].data
    BY <1>3, <1>9
  <2>3. CASE opPc[t] = "link"
    <3>1. nodes'[q].data = opValue[t] /\ content' = content \cup {opValue[t]}
      BY <1>2, <1>3, <1>5, <2>3
    <3>2. InList' = InList \cup {q} /\ q \notin released
      BY <1>12, <2>1, <2>3
    <3> HIDE DEF q
    <3> QED  BY <1>2, <2>1, <2>2, <3>1, <3>2
  <2>4. CASE opPc[t] = "unlink"
    <3>1. nodes[c].data = opValue[t] /\ content' = content \ {opValue[t]}
      BY <1>2, <1>5, <2>4
    <3>2. InList' = InList \ {c} /\ c \in InList
      BY <1>12, <2>1, <2>4
    <3>3. ASSUME NEW n \in InList, nodes[n].data = opValue[t] PROVE n = c
      <4>1. NoneBetween(InList, NextOf, DataOf, c)
        BY <1>9, <1>10, <3>2, AscendingList
      <4>2. DataOf[n] = DataOf[c]
        BY <1>9, <1>10, <3>1, <3>2, <3>3
      <4> QED  BY <4>1, <4>2 DEF NoneBetween
    <3> HIDE DEF c
    <3> QED  BY <1>2, <2>1, <2>2, <3>1, <3>2, <3>3
  <2> QED  BY <2>3, <2>4, <1>2
<1>15. OnlyReadersMeetFreed'
  <2>1. Updating(t) /\ ~ mixed => pr \notin released
    BY <1>2, HeldIsThere
  <2>2. opPc[t] # "idle"
    BY <1>2
  <2> QED  BY <1>2, <2>1, <2>2, ReadersTouch
<1> QED  BY <1>3, <1>7, <1>13, <1>14, <1>15 DEF SortedIInv

\* The place of a value among those of a set.
RankIn(S, v) == Cardinality({w \in S : w <= v})

\* The places are 1, 2, and so on, and each belongs to one value.
LEMMA Ranks ==
  ASSUME NEW m \in Nat, NEW S \in SUBSET (1 .. m)
  PROVE  /\ Cardinality(S) \in Nat /\ (S # {} => Cardinality(S) > 0)
         /\ \A v \in S : RankIn(S, v) \in 1 .. Cardinality(S)
         /\ \A v, w \in S : v < w => RankIn(S, v) < RankIn(S, w)
         /\ \A n \in 1 .. Cardinality(S) : \E v \in S : RankIn(S, v) = n
<1> DEFINE Upto(v) == {w \in S : w <= v}
<1>1. IsFiniteSet(S) /\ Cardinality(S) \in Nat /\ (S # {} => Cardinality(S) > 0)
  <2>1. IsFiniteSet(1 .. m)
    BY FS_Interval
  <2>2. IsFiniteSet(S)
    BY <2>1, FS_Subset
  <2> QED  BY <2>2, FS_CardinalityType, FS_EmptySet
<1>2. ASSUME NEW v \in S
      PROVE  /\ IsFiniteSet(Upto(v)) /\ Cardinality(Upto(v)) \in Nat
             /\ Cardinality(Upto(v)) <= Cardinality(S) /\ Cardinality(Upto(v)) > 0
  <2>1. Upto(v) \subseteq S /\ v \in Upto(v)
    OBVIOUS
  <2> HIDE DEF Upto
  <2>2. IsFiniteSet(Upto(v)) /\ Cardinality(Upto(v)) <= Cardinality(S)
    BY <1>1, <2>1, FS_Subset
  <2> QED  BY <2>1, <2>2, FS_CardinalityType, FS_EmptySet
<1>3. ASSUME NEW v \in S, NEW w \in S, v < w PROVE RankIn(S, v) < RankIn(S, w)
  <2>0. v \in Int /\ w \in Int /\ \A k \in S : k \in Int
    OBVIOUS
  <2>1. Upto(v) \subseteq Upto(w) /\ w \in Upto(w) /\ w \notin Upto(v)
    <3>1. \A k \in S : k <= v => k <= w
      BY <1>3, <2>0
    <3>2. w <= w /\ ~ (w <= v)
      BY <1>3, <2>0
    <3> QED  BY <3>1, <3>2
  <2>2. RankIn(S, v) = Cardinality(Upto(v)) /\ RankIn(S, w) = Cardinality(Upto(w))
    BY DEF RankIn
  <2> HIDE DEF Upto
  <2>3. Cardinality(Upto(v)) <= Cardinality(Upto(w)) /\ Cardinality(Upto(v)) # Cardinality(Upto(w))
    BY <1>2, <2>1, FS_Subset
  <2> QED  BY <1>2, <2>2, <2>3
<1>4. \A v \in S : RankIn(S, v) \in 1 .. Cardinality(S)
  <2>1. \A v \in S : RankIn(S, v) = Cardinality(Upto(v))
    BY DEF RankIn
  <2> HIDE DEF Upto
  <2> QED  BY <1>1, <1>2, <2>1
<1>5. ASSUME NEW n \in 1 .. Cardinality(S) PROVE \E v \in S : RankIn(S, v) = n
  <2> DEFINE f == [v \in S |-> RankIn(S, v)]
             T == 1 .. Cardinality(S)
  <2>1. f \in [S -> T] /\ \A v, w \in S : f[v] = f[w] => v = w
    BY <1>3, <1>4
  <2>2. IsFiniteSet(T) /\ Cardinality(T) = Cardinality(S)
    BY <1>1, FS_Interval
  <2> HIDE DEF f, T
  <2>3. f \in Injection(S, T)
    BY <2>1 DEF Injection, IsInjective
  <2>4. f \in Surjection(S, T)
    BY <1>1, <2>2, <2>3, FS_Injection
  <2>5. n \in T
    BY DEF T
  <2>6. PICK v \in S : f[v] = n
    BY <2>4, <2>5 DEF Surjection
  <2> QED  BY <2>6 DEF f
<1> QED  BY <1>1, <1>3, <1>4, <1>5

\* Nodes that point each to the one with the next number are all reached.
LEMMA RowIsReached ==
  ASSUME NEW N \in Nat, NEW nx, \A n \in 1 .. N : nx[n] = IF n = N THEN 0 ELSE n + 1
  PROVE  Reached(1, nx, N) = 1 .. N
<1> DEFINE T == {n \in 1 .. N : n \notin Reached(1, nx, N)}
<1>1. SUFFICES ASSUME T # {} PROVE FALSE
  BY DEF Reached
<1>2. PICK n \in T : \A k \in T : n <= k
  <2>1. T \subseteq Nat
    OBVIOUS
  <2> HIDE DEF T
  <2> QED  BY <1>1, <2>1, Least
<1>3. PICK S \in SUBSET (1 .. N) : ClosedUnder(S, 1, nx) /\ n \notin S
  BY <1>2 DEF Reached
<1>4. n # 1
  BY <1>3 DEF ClosedUnder
<1>5. n - 1 \in 1 .. N /\ n - 1 \in Reached(1, nx, N) /\ nx[n - 1] = n
  BY <1>2, <1>4
<1>6. n - 1 \in S
  BY <1>3, <1>5 DEF Reached
<1> QED  BY <1>3, <1>5, <1>6 DEF ClosedUnder

\* The list that Populate_list() leaves is in order and holds its values.
LEMMA SortedStart == SortedInit => SortedIInv
<1> SUFFICES ASSUME SortedInit PROVE SortedIInv
  OBVIOUS
<1> DEFINE N == Cardinality(content)
<1>1. /\ content \subseteq 1 .. MaxValue /\ content # {} /\ first = 1 /\ released = {}
      /\ nodes = [n \in 1 .. N |-> [data |-> CHOOSE v \in content : RankIn(content, v) = n,
                                    next |-> IF n = N THEN 0 ELSE n + 1]]
  <2>1. PICK S \in (SUBSET (1 .. MaxValue)) \ {{}} :
          /\ content = S /\ first = 1
          /\ nodes = LET rank(v) == Cardinality({w \in S : w <= v}) IN
                     [n \in 1 .. Cardinality(S) |->
                        [data |-> CHOOSE v \in S : rank(v) = n,
                         next |-> IF n = Cardinality(S) THEN NoNode ELSE n + 1]]
    BY DEF SortedInit
  <2>2. S \subseteq 1 .. MaxValue /\ S # {}
    OBVIOUS
  <2>3. S = content
    BY ONLY <2>1
  <2>4. released = {}
    BY DEF SortedInit
  <2> QED  BY <2>1, <2>2, <2>3, <2>4 DEF RankIn, NoNode
<1>2. /\ opPc = [t \in Operator |-> "idle"] /\ op = [t \in Operator |-> "Member"]
      /\ opValue = [t \in Operator |-> 0] /\ opPrev = [t \in Operator |-> 0]
      /\ opCurr = [t \in Operator |-> 0] /\ temp = [t \in Operator |-> 0]
      /\ performed = [t \in Operator |-> 0] /\ wild = FALSE /\ mixed = FALSE
  BY DEF SortedInit
<1>3. /\ N \in Nat /\ N > 0
      /\ \A v \in content : RankIn(content, v) \in 1 .. N
      /\ \A v, w \in content : v < w => RankIn(content, v) < RankIn(content, w)
      /\ \A n \in 1 .. N : \E v \in content : RankIn(content, v) = n
  <2>1. MaxValue \in Nat
    BY SortedListAssumption
  <2>2. content \in SUBSET (1 .. MaxValue) /\ content # {}
    BY <1>1
  <2>3. Cardinality(content) = N
    OBVIOUS
  <2> QED  BY ONLY <2>1, <2>2, <2>3, Ranks
<1> HIDE DEF N
<1>0. \A v \in content : v \in Int
  BY <1>1, SortedListAssumption
<1>4. \A n \in 1 .. N : /\ nodes[n].data \in content /\ RankIn(content, nodes[n].data) = n
                        /\ nodes[n].next = (IF n = N THEN 0 ELSE n + 1)
                        /\ nodes[n] \in [data : Int, next : Int]
  <2> SUFFICES ASSUME NEW n \in 1 .. N
               PROVE  /\ nodes[n].data \in content /\ RankIn(content, nodes[n].data) = n
                      /\ nodes[n].next = (IF n = N THEN 0 ELSE n + 1)
                      /\ nodes[n] \in [data : Int, next : Int]
    OBVIOUS
  <2> DEFINE d == CHOOSE v \in content : RankIn(content, v) = n
  <2>1. d \in content /\ RankIn(content, d) = n
    BY <1>3
  <2>2. nodes[n] = [data |-> d, next |-> IF n = N THEN 0 ELSE n + 1]
    BY <1>1
  <2>3. d \in Int
    BY <1>0, <2>1
  <2> HIDE DEF d
  <2> QED  BY <1>3, <2>1, <2>2, <2>3
<1>5. nodes \in Seq([data : Int, next : Int]) /\ Len(nodes) = N
  <2>1. DOMAIN nodes = 1 .. N
    BY <1>1
  <2>2. nodes \in [1 .. N -> [data : Int, next : Int]]
    BY <1>1, <1>4, <2>1
  <2> DEFINE R == [data : Int, next : Int]
  <2> HIDE DEF R
  <2>3. nodes \in [1 .. N -> R]
    BY <2>2 DEF R
  <2>4. nodes \in Seq(R) /\ Len(nodes) = N
    BY ONLY <1>3, <2>1, <2>3
  <2> QED  BY <2>4 DEF R
<1>6. \A n \in 1 .. N : NextOf[n] = (IF n = N THEN 0 ELSE n + 1) /\ DataOf[n] = nodes[n].data
  BY <1>4, <1>5 DEF NextOf, DataOf
<1>7. ArePointers(first, NextOf, N)
  <2>1. \A n \in 1 .. N : NextOf[n] \in 0 .. N
    BY <1>3, <1>6
  <2> QED  BY <1>1, <1>3, <2>1 DEF ArePointers
<1>8. Ascend(NextOf, DataOf, N)
  <2>1. ASSUME NEW n \in 1 .. N
        PROVE  DataOf[n] \in Int /\ (NextOf[n] # 0 => DataOf[n] < DataOf[NextOf[n]])
    <3>1. DataOf[n] \in content /\ RankIn(content, DataOf[n]) = n /\ DataOf[n] \in Int
      BY <1>1, <1>4, <1>6, SortedListAssumption
    <3>2. ASSUME NextOf[n] # 0 PROVE DataOf[n] < DataOf[NextOf[n]]
      <4>1. NextOf[n] = n + 1 /\ n + 1 \in 1 .. N
        BY <1>3, <1>6, <3>2
      <4>2. /\ DataOf[n + 1] \in content /\ RankIn(content, DataOf[n + 1]) = n + 1
            /\ DataOf[n + 1] \in Int
        BY <1>1, <1>4, <1>6, <4>1, SortedListAssumption
      <4>3. DataOf[n + 1] # DataOf[n]
        BY <3>1, <4>2
      <4>4. ~ (DataOf[n + 1] < DataOf[n])
        <5>1. DataOf[n + 1] < DataOf[n] => n + 1 < n
          BY <1>3, <3>1, <4>2
        <5> QED  BY <5>1
      <4> QED  BY <3>1, <4>1, <4>2, <4>3, <4>4
    <3> QED  BY <3>1, <3>2
  <2> QED  BY <2>1 DEF Ascend
<1>9. SortedPlaceOK
  <2>1. first \in Int /\ released \subseteq 1 .. Len(nodes)
    BY <1>1
  <2> QED  BY <1>2, <1>5, <1>7, <1>8, <2>1 DEF SortedPlaceOK
<1>10. InList = 1 .. N
  <2>1. Reached(1, NextOf, N) = 1 .. N
    BY <1>3, <1>6, RowIsReached
  <2> QED  BY <1>1, <1>5, <1>9, <2>1, ListIsReached
<1>11. {nodes[n].data : n \in InList} = content
  <2>1. ASSUME NEW v \in content PROVE \E n \in 1 .. N : nodes[n].data = v
    <3> DEFINE n == RankIn(content, v)
    <3>1. n \in 1 .. N /\ n = RankIn(content, v)
      BY <1>3
    <3> HIDE DEF n
    <3>2. nodes[n].data \in content /\ RankIn(content, nodes[n].data) = n
      BY <1>4, <3>1
    <3>3. nodes[n].data \in Int /\ v \in Int
      BY <1>0, <3>2
    <3>4. ~ (nodes[n].data < v) /\ ~ (v < nodes[n].data)
      <4>1. nodes[n].data < v => n < n
        BY <1>3, <3>1, <3>2
      <4>2. v < nodes[n].data => n < n
        BY <1>3, <3>1, <3>2
      <4> QED  BY <3>1, <4>1, <4>2
    <3> QED  BY <3>1, <3>3, <3>4
  <2> QED  BY <1>4, <1>10, <2>1
<1>12. \A t \in Operator : InHandInv(t) /\ ~ Updating(t)
  BY <1>2, <1>3, <1>5 DEF InHandInv, Updating
<1>13. UpdatesAreThere /\ OnlyReadersMeetFreed /\ UpdatesAloneInv
  BY <1>1, <1>2, <1>11, <1>12 DEF UpdatesAreThere, OnlyReadersMeetFreed, UpdatesAloneInv
<1> QED  BY <1>9, <1>12, <1>13 DEF SortedIInv

\* Every step of mutex_linked_list.c.
LEMMA SortedStep == SortedIInv /\ [SortedNext]_sortedVars => SortedIInv'
<1> SUFFICES ASSUME SortedIInv, [SortedNext]_sortedVars PROVE SortedIInv'
  OBVIOUS
<1>1. CASE UNCHANGED sortedVars
  <2>1. /\ UNCHANGED <<first, nodes, released, opPc, op, opValue, opPrev, opCurr, temp, performed>>
        /\ UNCHANGED <<wild, mixed, content>>
    BY <1>1 DEF sortedVars
  <2>2. InList' = InList /\ NextOf' = NextOf /\ DataOf' = DataOf
    BY <2>1, ListIsUnchanged
  <2>3. SortedPlaceOK'
    BY <2>1, <2>2 DEF SortedIInv, SortedPlaceOK
  <2>4. \A t \in Operator : InHandInv(t)'
    BY <2>1 DEF SortedIInv, InHandInv
  <2>5. UpdatesAloneInv'
    BY <2>1, <2>2 DEF SortedIInv, UpdatesAloneInv, AloneInv, After, Updating
  <2>6. UpdatesAreThere' /\ OnlyReadersMeetFreed'
    BY <2>1, <2>2 DEF SortedIInv, UpdatesAreThere, OnlyReadersMeetFreed
  <2> QED  BY <2>3, <2>4, <2>5, <2>6 DEF SortedIInv
<1>2. CASE ~ wild /\ \E t \in Operator : Thread_operation(t)
  BY <1>2, CallIsSafe, WalkIsSafe, ArriveIsSafe, SetNextIsSafe, FreeIsSafe DEF Thread_operation
<1> QED  BY <1>1, <1>2 DEF SortedNext, SortedTerminated

\* The list of mutex_linked_list.c stays sorted however its threads race, until a freed
\* node is used; updates that do not overlap are all there; and only a thread that looks up
\* can meet a freed node unless two updates overlap.
THEOREM SortedListIsSafe == SortedSpec => []SortedListInv
BY SortedStart, SortedStep, SortedIsSafe, PTL DEF SortedSpec

-----------------------------------------------------------------------------

\* Where main() and the threads of assignment2question2.c are.
JobsPlaceInv ==
  /\ main = "read" => /\ Len(jobs) < Jobs /\ summary = <<>> /\ tempDisplay = 0
                      /\ \A t \in Displayer : placeholder[t] = 1 /\ myTime[t] = 0
  /\ main # "join" => \A t \in Displayer : jsPc[t] \in {"job", "ended"}
  /\ main \in {"join", "summary"} => Len(jobs) = Jobs
  /\ main = "summary" => \A t \in Displayer : jsPc[t] = "ended"
  /\ main = "read" => \A t \in Displayer : jsPc[t] = "job"
  /\ Displayer = {} => summary = <<>>

\* The mutex of the summary, and what its owner has found.
SummaryLockInv ==
  \A t \in Displayer :
    /\ m2 = t <=> jsPc[t] \in {"look", "write"}
    /\ jsPc[t] = "write" => IF tempDisplay = 0 THEN EntryOf(user(t)) = {}
                                               ELSE tempDisplay \in EntryOf(user(t))

\* The time of each thread, at its place in the list.
TimeInv ==
  \A t \in Displayer :
    /\ jsPc[t] = "ended" <=> placeholder[t] = Jobs + 1
    /\ jsPc[t] = "job" => myTime[t] = Completion[placeholder[t] - 1]
    /\ jsPc[t] \in {"lock", "look", "write"} => myTime[t] = Completion[placeholder[t]]

\* Each entry has the time of the last job of its user, or somebody will still change it.
EntryInv ==
  \A n \in DOMAIN summary : \E k \in JobsOf(summary[n].user) :
    /\ summary[n].timeLastCalculated = Completion[k]
    /\ \/ \A l \in JobsOf(summary[n].user) : l <= k
       \/ \E t \in Displayer, l \in JobsOf(summary[n].user) : placeholder[t] <= l

\* Whoever has done a job has entered its user.
EnteredInv ==
  main \in {"join", "summary"} =>
    \A t \in Displayer, k \in DOMAIN jobs : k < placeholder[t] => EntryOf(jobs[k].user) # {}

JobsIInv ==
  /\ JobsTypeOK /\ ListIsSorted /\ OneEntryPerUser /\ JobsPlaceInv /\ SummaryLockInv
  /\ TimeInv /\ EntryInv /\ EnteredInv

\* A set of numbers below N with all that is below each of them is an interval.
LEMMA DownwardClosed ==
  ASSUME NEW N \in Nat, NEW D \in SUBSET (1 .. N), \A k \in D, l \in 1 .. N : l < k => l \in D
  PROVE  Cardinality(D) \in 0 .. N /\ D = 1 .. Cardinality(D)
<1> DEFINE T == {k \in 1 .. N : k \notin D}
<1>1. CASE T = {}
  <2>1. D = 1 .. N
    BY <1>1
  <2>2. Cardinality(1 .. N) = IF 1 > N THEN 0 ELSE N - 1 + 1
    BY FS_Interval
  <2>3. Cardinality(1 .. N) = N
    BY <2>2
  <2> QED  BY <2>1, <2>3
<1>2. CASE T # {}
  <2>1. T \subseteq Nat
    OBVIOUS
  <2>2. PICK m \in T : \A k \in T : m <= k
    <3> HIDE DEF T
    <3> QED  BY <1>2, <2>1, Least
  <2>3. D = 1 .. m - 1
    <3>1. \A k \in 1 .. m - 1 : k \in D
      BY <2>2
    <3>2. \A k \in D : k \in 1 .. m - 1
      <4> SUFFICES ASSUME NEW k \in D, ~ (k < m) PROVE FALSE
        BY <2>2
      <4>1. m < k \/ m = k
        BY <2>2
      <4> QED  BY <2>2, <4>1
    <3> QED  BY <3>1, <3>2
  <2>4. m - 1 \in 0 .. N /\ 1 \in Int /\ m - 1 \in Int
    BY <2>2
  <2>5. Cardinality(1 .. m - 1) = m - 1
    BY <2>4, FS_Interval
  <2> QED  BY <2>3, <2>4, <2>5
<1> QED  BY <1>1, <1>2

\* An element put behind the first n of a sequence.
Behind(s, e, n) == SubSeq(s, 1, n) \o <<e>> \o SubSeq(s, n + 1, Len(s))
IsPut(q, s, e, n) ==
  \A k \in 1 .. Len(s) + 1 : q[k] = IF k <= n THEN s[k] ELSE IF k = n + 1 THEN e ELSE s[k - 1]

\* What it holds.
LEMMA PutBehind ==
  ASSUME NEW S, NEW s \in Seq(S), NEW e \in S, NEW n \in 0 .. Len(s), NEW q, q = Behind(s, e, n)
  PROVE  q \in Seq(S) /\ Len(q) = Len(s) + 1 /\ IsPut(q, s, e, n)
<1> DEFINE a == SubSeq(s, 1, n)
           b == SubSeq(s, n + 1, Len(s))
           c == a \o <<e>>
<1>0. n \in Nat /\ Len(s) \in Nat
  OBVIOUS
<1>1. a \in Seq(S) /\ Len(a) = n /\ \A k \in 1 .. n : a[k] = s[k]
  <2>1. 1 \in Int /\ n \in Int /\ \A k \in 1 .. n : s[k] \in S
    BY ElementOfSeq
  <2>2. /\ a \in Seq(S) /\ Len(a) = (IF 1 <= n THEN n - 1 + 1 ELSE 0)
        /\ \A k \in 1 .. n - 1 + 1 : a[k] = s[1 + k - 1]
    BY <2>1, SubSeqProperties
  <2> HIDE DEF a
  <2>3. Len(a) = n /\ n - 1 + 1 = n
    BY <1>0, <2>2
  <2>4. ASSUME NEW k \in 1 .. n PROVE a[k] = s[k]
    <3>1. a[k] = s[1 + k - 1] /\ 1 + k - 1 = k
      BY <2>2, <2>3
    <3> QED  BY <3>1
  <2> QED  BY <2>2, <2>3, <2>4
<1>2. b \in Seq(S) /\ Len(b) = Len(s) - n /\ \A k \in 1 .. Len(s) - n : b[k] = s[n + k]
  <2>1. n + 1 \in Int /\ Len(s) \in Int /\ \A k \in n + 1 .. Len(s) : s[k] \in S
    BY ElementOfSeq
  <2>2. /\ b \in Seq(S)
        /\ Len(b) = (IF n + 1 <= Len(s) THEN Len(s) - (n + 1) + 1 ELSE 0)
        /\ \A k \in 1 .. Len(s) - (n + 1) + 1 : b[k] = s[n + 1 + k - 1]
    BY <2>1, SubSeqProperties
  <2> HIDE DEF b
  <2>3. Len(b) = Len(s) - n /\ Len(s) - (n + 1) + 1 = Len(s) - n
    BY <1>0, <2>2
  <2>4. ASSUME NEW k \in 1 .. Len(s) - n PROVE b[k] = s[n + k]
    <3>1. b[k] = s[n + 1 + k - 1] /\ n + 1 + k - 1 = n + k
      BY <1>0, <2>2, <2>3
    <3> QED  BY <3>1
  <2> QED  BY <2>2, <2>3, <2>4
<1> HIDE DEF a, b
<1>3. /\ c \in Seq(S) /\ Len(c) = n + 1
      /\ \A k \in 1 .. n + 1 : c[k] = IF k <= n THEN s[k] ELSE e
  <2>1. <<e>> \in Seq(S) /\ Len(<<e>>) = 1 /\ <<e>>[1] = e
    OBVIOUS
  <2> DEFINE x == <<e>>
  <2> HIDE DEF x
  <2>2. x \in Seq(S) /\ Len(x) = 1 /\ x[1] = e
    BY <2>1 DEF x
  <2>3. /\ a \o x \in Seq(S) /\ Len(a \o x) = Len(a) + Len(x)
        /\ \A k \in 1 .. Len(a) + Len(x) : (a \o x)[k] = IF k <= Len(a) THEN a[k] ELSE x[k - Len(a)]
    BY <1>1, <2>2, ConcatProperties
  <2>4. c = a \o x
    BY DEF x
  <2> HIDE DEF c
  <2>5. c \in Seq(S) /\ Len(c) = n + 1
    BY <1>0, <1>1, <2>2, <2>3, <2>4
  <2>6. ASSUME NEW k \in 1 .. n + 1 PROVE c[k] = IF k <= n THEN s[k] ELSE e
    <3>1. c[k] = IF k <= n THEN a[k] ELSE x[k - n]
      BY <1>1, <2>2, <2>3, <2>4
    <3>2. ~ (k <= n) => k - n = 1
      BY <1>0
    <3> QED  BY <1>0, <1>1, <2>2, <3>1, <3>2
  <2> QED  BY <2>5, <2>6
<1> HIDE DEF c
<1>4. q = c \o b
  BY DEF a, b, c, Behind
<1>5. /\ q \in Seq(S) /\ Len(q) = Len(s) + 1
      /\ \A k \in 1 .. Len(s) + 1 : q[k] = IF k <= n + 1 THEN c[k] ELSE b[k - (n + 1)]
  <2>1. /\ c \o b \in Seq(S) /\ Len(c \o b) = Len(c) + Len(b)
        /\ \A k \in 1 .. Len(c) + Len(b) : (c \o b)[k] = IF k <= Len(c) THEN c[k] ELSE b[k - Len(c)]
    BY <1>2, <1>3, ConcatProperties
  <2>2. Len(c) = n + 1 /\ Len(c) + Len(b) = Len(s) + 1
    BY <1>0, <1>2, <1>3
  <2> QED  BY <1>4, <2>1, <2>2
<1>6. ASSUME NEW k \in 1 .. Len(s) + 1
      PROVE  q[k] = IF k <= n THEN s[k] ELSE IF k = n + 1 THEN e ELSE s[k - 1]
  <2>0. q[k] = IF k <= n + 1 THEN c[k] ELSE b[k - (n + 1)]
    BY <1>5
  <2> HIDE DEF a
  <2>1. CASE k <= n + 1
    <3>1. k \in 1 .. n + 1 /\ q[k] = c[k] /\ (k <= n \/ k = n + 1)
      BY <1>0, <2>0, <2>1
    <3> QED  BY <1>0, <1>3, <3>1
  <2>2. CASE ~ (k <= n + 1)
    <3>1. k - (n + 1) \in 1 .. Len(s) - n /\ n + (k - (n + 1)) = k - 1
      BY <1>0, <2>2
    <3>2. b[k - (n + 1)] = s[k - 1] /\ q[k] = b[k - (n + 1)] /\ ~ (k <= n) /\ k # n + 1
      <4>1. b[k - (n + 1)] = s[n + (k - (n + 1))]
        BY <1>2, <3>1
      <4>2. q[k] = b[k - (n + 1)]
        BY <2>0, <2>2
      <4>3. ~ (k <= n) /\ k # n + 1
        BY <1>0, <2>2
      <4>4. s[n + (k - (n + 1))] = s[k - 1]
        BY <3>1
      <4> QED  BY <4>1, <4>2, <4>3, <4>4
    <3> QED  BY <3>2
  <2> QED  BY <2>1, <2>2
<1> QED  BY <1>5, <1>6 DEF IsPut

\* A job is put where the list stays sorted.
LEMMA InsertKeepsOrder ==
  ASSUME NEW job \in Job, jobs \in Seq(Job), ListIsSorted, insert(job)
  PROVE  jobs' \in Seq(Job) /\ Len(jobs') = Len(jobs) + 1 /\ ListIsSorted'
<1> DEFINE N == Len(jobs)
           D == {k \in DOMAIN jobs : End(jobs[k]) < End(job)}
           P == Place(job)
<1>0. N \in Nat /\ DOMAIN jobs = 1 .. N
  OBVIOUS
<1>1. End(job) \in Int /\ \A k \in 1 .. N : End(jobs[k]) \in Int
  <2>0. Arrival \subseteq Nat /\ Duration \subseteq Nat
    BY JobAssumption
  <2>1. ASSUME NEW j \in Job PROVE End(j) \in Int
    <3>1. j.arrival \in Nat /\ j.duration \in Nat
      BY <2>0 DEF Job
    <3> QED  BY <3>1 DEF End
  <2>2. \A k \in 1 .. N : jobs[k] \in Job
    BY ElementOfSeq
  <2> QED  BY <2>1, <2>2
<1>2. P \in 0 .. N /\ D = 1 .. P
  <2>1. D \in SUBSET (1 .. N) /\ P = Cardinality(D)
    BY <1>0 DEF Place, Before
  <2>2. \A k \in D, l \in 1 .. N : l < k => l \in D
    BY <1>0, <1>1 DEF ListIsSorted
  <2> HIDE DEF D, P, N
  <2> QED  BY <1>0, <2>1, <2>2, DownwardClosed
<1>3. \A k \in 1 .. N : k <= P <=> End(jobs[k]) < End(job)
  <2>1. \A k \in 1 .. N : k \in D <=> End(jobs[k]) < End(job)
    BY <1>0
  <2> HIDE DEF D, P, N
  <2> QED  BY <1>0, <1>2, <2>1
<1>4. /\ jobs' \in Seq(Job) /\ Len(jobs') = N + 1
      /\ \A k \in 1 .. N + 1 :
           jobs'[k] = IF k <= P THEN jobs[k] ELSE IF k = P + 1 THEN job ELSE jobs[k - 1]
  <2>1. jobs' = Behind(jobs, job, P)
    BY DEF insert, Behind
  <2>2. P \in 0 .. Len(jobs)
    BY <1>2
  <2> HIDE DEF P, D
  <2>3. jobs' \in Seq(Job) /\ Len(jobs') = Len(jobs) + 1 /\ IsPut(jobs', jobs, job, P)
    BY <2>1, <2>2, PutBehind
  <2> QED  BY <2>3 DEF IsPut
<1>5. \A k, l \in 1 .. N : k < l => End(jobs[k]) <= End(jobs[l])
  BY <1>0 DEF ListIsSorted
<1> HIDE DEF P, D, N
<1>6. ASSUME NEW k \in 1 .. N + 1, NEW l \in 1 .. N + 1, k < l
      PROVE  End(jobs'[k]) <= End(jobs'[l])
  <2>1. CASE l <= P
    BY <1>0, <1>2, <1>4, <1>5, <1>6, <2>1
  <2>2. CASE l = P + 1
    <3>1. k <= P /\ k \in 1 .. N /\ jobs'[k] = jobs[k] /\ jobs'[l] = job
      BY <1>0, <1>2, <1>4, <1>6, <2>2
    <3> QED  BY <1>1, <1>3, <3>1
  <2>3. CASE l > P + 1
    <3>1. l - 1 \in 1 .. N /\ jobs'[l] = jobs[l - 1] /\ ~ (l - 1 <= P)
      BY <1>0, <1>2, <1>4, <2>3
    <3>2. End(job) <= End(jobs[l - 1])
      BY <1>1, <1>3, <3>1
    <3>3. CASE k <= P
      <4>1. k \in 1 .. N /\ jobs'[k] = jobs[k]
        BY <1>0, <1>2, <1>4, <3>3
      <4> QED  BY <1>1, <1>3, <3>1, <3>2, <3>3, <4>1
    <3>4. CASE k = P + 1
      BY <1>0, <1>2, <1>4, <3>1, <3>2, <3>4
    <3>5. CASE k > P + 1
      <4>1. k - 1 \in 1 .. N /\ jobs'[k] = jobs[k - 1] /\ k - 1 < l - 1
        BY <1>0, <1>2, <1>4, <1>6, <3>5
      <4> QED  BY <1>5, <3>1, <4>1
    <3> QED  BY <1>0, <1>2, <3>3, <3>4, <3>5
  <2> QED  BY <1>0, <1>2, <2>1, <2>2, <2>3
<1>7. DOMAIN jobs' = 1 .. N + 1
  BY <1>4
<1> QED  BY <1>4, <1>6, <1>7 DEF ListIsSorted, N

\* The recursion for the times has a solution, whatever the jobs are.
TimeAt(f, js, k) == IF k = 0 THEN 0 ELSE Later(f[k - 1], js[k].arrival) + js[k].duration
AreTimes(f, js, n) == f = [k \in 0 .. n |-> TimeAt(f, js, k)]

\* Were there a first number of jobs without a solution, the one before would extend to it.
LEMMA TimesExist ==
  ASSUME NEW js, NEW N \in Nat
  PROVE  \E f : AreTimes(f, js, N)
<1> DEFINE Bad == {n \in Nat : ~ \E f : AreTimes(f, js, n)}
<1> SUFFICES ASSUME Bad # {} PROVE FALSE
  OBVIOUS
<1>1. PICK n \in Bad : \A k \in Bad : n <= k
  <2>1. Bad \subseteq Nat
    OBVIOUS
  <2> HIDE DEF Bad
  <2> QED  BY <2>1, Least
<1>2. n \in Nat /\ ~ \E f : AreTimes(f, js, n)
  OBVIOUS
<1>3. CASE n = 0
  <2> DEFINE f == [k \in 0 .. 0 |-> 0]
  <2>1. \A k \in 0 .. 0 : TimeAt(f, js, k) = 0
    BY DEF TimeAt
  <2>2. f = [k \in 0 .. 0 |-> TimeAt(f, js, k)]
    BY <2>1
  <2> QED  BY <1>2, <1>3, <2>2 DEF AreTimes
<1>4. CASE n # 0
  <2>1. n - 1 \in Nat /\ n - 1 \notin Bad
    BY <1>1, <1>2, <1>4
  <2>2. PICK g : AreTimes(g, js, n - 1)
    BY <2>1
  <2> DEFINE last == Later(g[n - 1], js[n].arrival) + js[n].duration
             f == [k \in 0 .. n |-> IF k = n THEN last ELSE g[k]]
  <2>3. ASSUME NEW k \in 0 .. n PROVE f[k] = TimeAt(f, js, k)
    <3>1. CASE k = n
      <4>1. f[n - 1] = g[n - 1]
        BY <1>2, <1>4
      <4> QED  BY <1>4, <3>1, <4>1 DEF TimeAt
    <3>2. CASE k # n
      <4>1. k \in 0 .. n - 1
        BY <1>2, <3>2
      <4>2. f[k] = g[k] /\ (k # 0 => f[k - 1] = g[k - 1])
        BY <1>2, <3>2
      <4>3. g[k] = TimeAt(g, js, k)
        BY <2>2, <4>1 DEF AreTimes
      <4> QED  BY <4>2, <4>3 DEF TimeAt
    <3> QED  BY <3>1, <3>2
  <2>4. f = [k \in 0 .. n |-> TimeAt(f, js, k)]
    <3>1. f = [k \in 0 .. n |-> f[k]]
      OBVIOUS
    <3> HIDE DEF f
    <3> QED  BY <2>3, <3>1
  <2> QED  BY <1>2, <2>4 DEF AreTimes
<1> QED  BY <1>3, <1>4

TimesOf(js) == CHOOSE f : AreTimes(f, js, Len(js))

\* When the jobs end, each after the one before.
LEMMA CompletionIs ==
  ASSUME jobs \in Seq(Job)
  PROVE  /\ Completion = TimesOf(jobs)
         /\ Completion[0] = 0
         /\ \A k \in 1 .. Len(jobs) :
              Completion[k] = Later(Completion[k - 1], jobs[k].arrival) + jobs[k].duration
<1>1. Len(jobs) \in Nat
  OBVIOUS
<1>2. Completion = TimesOf(jobs)
  BY DEF Completion, TimesOf, AreTimes, TimeAt
<1>3. AreTimes(Completion, jobs, Len(jobs))
  BY <1>1, <1>2, TimesExist DEF TimesOf
<1>4. \A k \in 0 .. Len(jobs) : Completion[k] = TimeAt(Completion, jobs, k)
  BY <1>3 DEF AreTimes
<1> QED  BY <1>1, <1>2, <1>4 DEF TimeAt

\* They stay what they are with the list; and before the first job no time has passed.
LEMMA CompletionStays ==
  /\ UNCHANGED jobs => Completion' = Completion
  /\ jobs' \in Seq(Job) => Completion'[0] = 0
<1>1. UNCHANGED jobs => Completion' = Completion
  BY DEF Completion
<1>2. ASSUME jobs' \in Seq(Job) PROVE Completion'[0] = 0
  <2>1. Len(jobs') \in Nat
    BY <1>2
  <2>2. Completion' = TimesOf(jobs')
    BY DEF Completion, TimesOf, AreTimes, TimeAt
  <2>3. AreTimes(Completion', jobs', Len(jobs'))
    BY <2>1, <2>2, TimesExist DEF TimesOf
  <2> QED  BY <2>1, <2>3 DEF AreTimes, TimeAt
<1> QED  BY <1>1, <1>2

\* The beginning of assignment2question2.c.
LEMMA JobsStart == JobsInit => JobsIInv
<1> SUFFICES ASSUME JobsInit PROVE JobsIInv
  OBVIOUS
<1>0. /\ jobs = <<>> /\ summary = <<>> /\ tempDisplay = 0 /\ m2 = NoThread /\ main = "read"
      /\ jsPc = [t \in Displayer |-> "job"] /\ placeholder = [t \in Displayer |-> 1]
      /\ myTime = [t \in Displayer |-> 0]
  BY DEF JobsInit
<1>1. Jobs \in Nat \ {0} /\ NoThread \notin Displayer
  BY JobAssumption
<1>2. JobsTypeOK
  <2>1. jobs \in Seq(Job) /\ summary \in Seq([user : User, timeLastCalculated : Nat])
        /\ Len(jobs) = 0 /\ Len(summary) = 0
    BY <1>0
  <2> QED  BY <1>0, <1>1, <2>1 DEF JobsTypeOK
<1>3. DOMAIN jobs = {} /\ DOMAIN summary = {} /\ Len(jobs) = 0
  BY <1>0
<1>4. ListIsSorted /\ OneEntryPerUser /\ EntryInv /\ EnteredInv
  BY <1>3 DEF ListIsSorted, OneEntryPerUser, EntryInv, EnteredInv
<1>5. JobsPlaceInv /\ SummaryLockInv
  BY <1>0, <1>1, <1>3 DEF JobsPlaceInv, SummaryLockInv
<1>6. TimeInv
  <2>1. Completion[0] = 0
    BY <1>2, CompletionIs DEF JobsTypeOK
  <2> QED  BY <1>0, <1>1, <2>1 DEF TimeInv
<1> QED  BY <1>2, <1>4, <1>5, <1>6 DEF JobsIInv

\* main() reads a job and inserts it.
LEMMA ReadIsSafe ==
  ASSUME JobsIInv, Read
  PROVE  JobsIInv'
<1>0. PICK job \in Job : insert(job)
  BY DEF Read
<1>1. /\ main = "read" /\ main' = (IF Len(jobs) = Jobs - 1 THEN "join" ELSE "read")
      /\ UNCHANGED <<summary, tempDisplay, m2, jsPc, placeholder, myTime>>
  BY DEF Read, IsLast, shared
<1>2. jobs' \in Seq(Job) /\ Len(jobs') = Len(jobs) + 1 /\ ListIsSorted'
  BY <1>0, InsertKeepsOrder DEF JobsIInv, JobsTypeOK
<1>3. /\ Len(jobs) < Jobs /\ summary = <<>> /\ tempDisplay = 0 /\ Jobs \in Nat \ {0}
      /\ Len(jobs) \in Nat /\ NoThread \notin Displayer
      /\ \A t \in Displayer : placeholder[t] = 1 /\ myTime[t] = 0 /\ jsPc[t] = "job"
  BY <1>1, JobAssumption DEF JobsIInv, JobsPlaceInv, JobsTypeOK
<1>4. JobsTypeOK'
  BY <1>1, <1>2, <1>3 DEF JobsIInv, JobsTypeOK
<1>5. JobsPlaceInv'
  BY <1>1, <1>2, <1>3 DEF JobsPlaceInv
<1>6. DOMAIN summary' = {}
  BY <1>1, <1>3
<1>7. OneEntryPerUser' /\ EntryInv'
  BY <1>6 DEF OneEntryPerUser, EntryInv
<1>8. EnteredInv'
  BY <1>1, <1>2, <1>3 DEF EnteredInv
<1>9. SummaryLockInv'
  BY <1>1, <1>3 DEF JobsIInv, SummaryLockInv
<1>10. TimeInv'
  BY <1>1, <1>2, <1>3, CompletionStays DEF JobsIInv, TimeInv
<1> QED  BY <1>2, <1>4, <1>5, <1>7, <1>8, <1>9, <1>10 DEF JobsIInv

\* The other steps of main().
LEMMA MainIsSafe ==
  ASSUME JobsIInv, ReadFails \/ Join \/ summaryDisplay
  PROVE  JobsIInv'
<1>1. /\ UNCHANGED <<jobs, m2, jsPc, placeholder, myTime>>
      /\ main = "read" => main' = "ended"
      /\ main = "join" => main' = "summary" /\ \A t \in Displayer : jsPc[t] = "ended"
      /\ main \in {"read", "join", "summary"} /\ main' \in {"ended", "summary"}
      /\ main' = "summary" => main = "join"
      /\ \/ UNCHANGED <<summary, tempDisplay>>
         \/ summary' = <<>> /\ tempDisplay' = 0 /\ main = "summary"
  BY DEF ReadFails, Join, summaryDisplay, shared
<1>2. Completion' = Completion
  BY <1>1, CompletionStays
<1>3. JobsTypeOK'
  <2>1. summary' = <<>> => summary' \in Seq([user : User, timeLastCalculated : Nat])
                           /\ Len(summary') = 0
    OBVIOUS
  <2> QED  BY <1>1, <2>1 DEF JobsIInv, JobsTypeOK
<1>4. ListIsSorted' /\ TimeInv'
  BY <1>1, <1>2 DEF JobsIInv, ListIsSorted, TimeInv
<1>5. JobsPlaceInv'
  BY <1>1 DEF JobsIInv, JobsPlaceInv
<1>6. \A t \in Displayer : jsPc[t] \in {"job", "ended"}
  BY <1>1 DEF JobsIInv, JobsPlaceInv
<1>7. SummaryLockInv'
  BY <1>1, <1>6 DEF JobsIInv, SummaryLockInv
<1>8. DOMAIN summary' = {} \/ summary' = summary
  BY <1>1
<1>9. OneEntryPerUser' /\ EntryInv'
  BY <1>1, <1>2, <1>8 DEF JobsIInv, OneEntryPerUser, EntryInv, JobsOf
<1>10. EnteredInv'
  <2>1. main' = "summary" => summary' = summary
    BY <1>1
  <2> QED  BY <1>1, <2>1 DEF JobsIInv, EnteredInv, EntryOf
<1> QED  BY <1>3, <1>4, <1>5, <1>7, <1>9, <1>10 DEF JobsIInv

\* A thread runs the job at its place.
LEMMA RunIsSafe ==
  ASSUME JobsIInv, NEW t \in Displayer, Run(t)
  PROVE  JobsIInv'
<1> DEFINE k == placeholder[t]
           time == Later(myTime[t], jobs[k].arrival) + jobs[k].duration
<1>1. /\ main = "join" /\ jsPc[t] = "job" /\ jsPc' = [jsPc EXCEPT ![t] = "lock"]
      /\ myTime' = [myTime EXCEPT ![t] = time]
      /\ UNCHANGED <<jobs, summary, tempDisplay, m2, main, placeholder>>
  BY DEF Run, JobsGoto, shared
<1>2. JobsTypeOK /\ Len(jobs) = Jobs /\ Jobs \in Nat
  BY <1>1, JobAssumption DEF JobsIInv, JobsPlaceInv
<1>3. k \in 1 .. Len(jobs)
  <2>1. k \in 1 .. Jobs + 1 /\ k # Jobs + 1
    BY <1>1, <1>2 DEF JobsIInv, TimeInv, JobsTypeOK
  <2> QED  BY <1>2, <2>1
<1>4. jobs[k].arrival \in Nat /\ jobs[k].duration \in Nat
  <2>1. jobs[k] \in Job
    BY <1>2, <1>3, ElementOfSeq DEF JobsTypeOK
  <2>2. Arrival \subseteq Nat /\ Duration \subseteq Nat
    BY JobAssumption
  <2> QED  BY <2>1, <2>2 DEF Job
<1>5. time \in Nat
  <2>1. myTime[t] \in Nat
    BY <1>2 DEF JobsTypeOK
  <2> QED  BY <1>4, <2>1 DEF Later
<1>6. time = Completion[k]
  <2>1. myTime[t] = Completion[k - 1]
    BY <1>1 DEF JobsIInv, TimeInv
  <2> QED  BY <1>2, <1>3, <2>1, CompletionIs DEF JobsTypeOK
<1>7. Completion' = Completion
  BY <1>1, CompletionStays
<1> HIDE DEF time
<1>8. JobsTypeOK'
  BY <1>1, <1>2, <1>5 DEF JobsTypeOK
<1>9. /\ jsPc'[t] = "lock" /\ myTime'[t] = Completion[k]
      /\ \A u \in Displayer : u # t => jsPc'[u] = jsPc[u] /\ myTime'[u] = myTime[u]
  BY <1>1, <1>2, <1>6 DEF JobsTypeOK
<1>10. ListIsSorted' /\ OneEntryPerUser' /\ EntryInv' /\ EnteredInv'
  BY <1>1, <1>7 DEF JobsIInv, ListIsSorted, OneEntryPerUser, EntryInv, EnteredInv, JobsOf, EntryOf
<1>11. JobsPlaceInv'
  BY <1>1 DEF JobsIInv, JobsPlaceInv
<1>12. SummaryLockInv'
  BY <1>1, <1>9 DEF JobsIInv, SummaryLockInv, EntryOf, user
<1>13. TimeInv'
  <2>1. placeholder[t] # Jobs + 1
    BY <1>1 DEF JobsIInv, TimeInv
  <2> QED  BY <1>1, <1>7, <1>9, <2>1 DEF JobsIInv, TimeInv
<1> QED  BY <1>8, <1>10, <1>11, <1>12, <1>13 DEF JobsIInv

\* A thread takes the mutex of the summary, or searches it.
LEMMA SearchIsSafe ==
  ASSUME JobsIInv, NEW t \in Displayer, SummaryLock(t) \/ Look(t)
  PROVE  JobsIInv'
<1>0. Jobs \in Nat /\ NoThread \notin Displayer
  BY JobAssumption
<1>1. /\ UNCHANGED <<jobs, summary, main, placeholder, myTime>>
      /\ \/ /\ jsPc[t] = "lock" /\ jsPc' = [jsPc EXCEPT ![t] = "look"]
            /\ m2 = NoThread /\ m2' = t /\ tempDisplay' = tempDisplay
         \/ /\ jsPc[t] = "look" /\ jsPc' = [jsPc EXCEPT ![t] = "write"] /\ m2' = m2
            /\ \/ EntryOf(user(t)) = {} /\ tempDisplay' = 0
               \/ tempDisplay' \in EntryOf(user(t))
  BY DEF SummaryLock, Look, Lock, JobsGoto
<1>2. JobsTypeOK
  BY DEF JobsIInv
<1>3. Completion' = Completion
  BY <1>1, CompletionStays
<1>4. DOMAIN summary = 1 .. Len(summary) /\ Len(summary) \in Nat
  BY <1>2 DEF JobsTypeOK
<1>5. tempDisplay' \in 0 .. Len(summary)
  BY <1>1, <1>2, <1>4 DEF JobsTypeOK, EntryOf
<1>6. JobsTypeOK'
  BY <1>1, <1>2, <1>5 DEF JobsTypeOK
<1>7. /\ jsPc[t] = "lock" => jsPc'[t] = "look"
      /\ jsPc[t] = "look" => jsPc'[t] = "write"
      /\ \A u \in Displayer : u # t => jsPc'[u] = jsPc[u]
  BY <1>1, <1>2 DEF JobsTypeOK
<1>8. ListIsSorted' /\ OneEntryPerUser' /\ EntryInv' /\ EnteredInv'
  BY <1>1, <1>3 DEF JobsIInv, ListIsSorted, OneEntryPerUser, EntryInv, EnteredInv, JobsOf, EntryOf
<1>9. JobsPlaceInv'
  <2>1. main = "join"
    BY <1>1 DEF JobsIInv, JobsPlaceInv
  <2> QED  BY <1>1, <2>1 DEF JobsIInv, JobsPlaceInv
<1>10. SummaryLockInv'
  <2>1. \A u \in Displayer : m2' = u <=> jsPc'[u] \in {"look", "write"}
    BY <1>0, <1>1, <1>7 DEF JobsIInv, SummaryLockInv
  <2>2. ASSUME NEW u \in Displayer, jsPc'[u] = "write"
        PROVE  IF tempDisplay' = 0 THEN EntryOf(user(u)) = {} ELSE tempDisplay' \in EntryOf(user(u))
    <3>1. u = t /\ jsPc[t] = "look"
      <4>1. u # t => m2 = u
        BY <1>7, <2>2 DEF JobsIInv, SummaryLockInv
      <4>2. m2 = NoThread \/ m2 = t
        BY <1>1 DEF JobsIInv, SummaryLockInv
      <4>3. u = t
        BY <1>0, <4>1, <4>2
      <4> QED  BY <1>1, <1>7, <2>2, <4>3
    <3>2. 0 \notin EntryOf(user(t))
      BY <1>4 DEF EntryOf
    <3> QED  BY <1>1, <3>1, <3>2
  <2>3. \A u \in Displayer : EntryOf(user(u))' = EntryOf(user(u))
    BY <1>1 DEF EntryOf, user
  <2> QED  BY <2>1, <2>2, <2>3 DEF SummaryLockInv
<1>11. TimeInv'
  BY <1>1, <1>3, <1>7 DEF JobsIInv, TimeInv
<1> QED  BY <1>6, <1>8, <1>9, <1>10, <1>11 DEF JobsIInv

\* Entry e is written for the user of t's job, and the rest of the summary stays.
IsWritten(t, e) ==
  /\ summary' \in Seq([user : User, timeLastCalculated : Nat])
  /\ Len(summary') >= Len(summary)
  /\ summary'[e].user = user(t) /\ summary'[e].timeLastCalculated = myTime[t]
  /\ \A n \in DOMAIN summary' : n # e => /\ n \in DOMAIN summary
                                        /\ summary'[n] = summary[n]
                                        /\ summary[n].user # user(t)
  /\ e \in DOMAIN summary => summary[e].user = user(t)
  /\ \A n \in DOMAIN summary : n \in DOMAIN summary'

\* The write finds the only entry of the user, or makes the first.
LEMMA EntryIsWritten ==
  ASSUME JobsIInv, NEW t \in Displayer, Write(t)
  PROVE  \E e \in DOMAIN summary' : IsWritten(t, e)
<1> DEFINE R == [user : User, timeLastCalculated : Nat]
           N == Len(summary)
<1>1. /\ jsPc[t] = "write"
      /\ summary' = IF tempDisplay # 0 THEN Updated(t)
                    ELSE Append(summary, [user |-> user(t), timeLastCalculated |-> myTime[t]])
  BY DEF Write
<1>2. /\ summary \in Seq(R) /\ tempDisplay \in 0 .. N /\ N \in Nat /\ myTime[t] \in Nat
      /\ DOMAIN summary = 1 .. N
  BY DEF JobsIInv, JobsTypeOK
<1>3. IF tempDisplay = 0 THEN EntryOf(user(t)) = {} ELSE tempDisplay \in EntryOf(user(t))
  BY <1>1 DEF JobsIInv, SummaryLockInv
<1>4. \A n \in 1 .. N : summary[n] \in R
  BY <1>2, ElementOfSeq
<1>5. CASE tempDisplay # 0
  <2> DEFINE e == tempDisplay
             r == [summary[e] EXCEPT !.timeLastCalculated = myTime[t]]
  <2>1. e \in 1 .. N /\ summary[e].user = user(t)
    BY <1>2, <1>3, <1>5 DEF EntryOf
  <2>2. r \in R /\ r.user = user(t) /\ r.timeLastCalculated = myTime[t]
    BY <1>2, <1>4, <2>1
  <2>3. summary' = [summary EXCEPT ![e] = r]
    BY <1>1, <1>5 DEF Updated
  <2> HIDE DEF e, r, R
  <2>4. /\ summary' \in Seq(R) /\ Len(summary') = N
        /\ \A n \in 1 .. N : summary'[n] = IF n = e THEN r ELSE summary[n]
    BY <1>2, <2>1, <2>2, <2>3, ExceptSeq
  <2>5. \A n \in 1 .. N : n # e => summary[n].user # user(t)
    BY <1>2, <2>1 DEF JobsIInv, OneEntryPerUser
  <2>6. DOMAIN summary' = 1 .. N
    BY <1>2, <2>4
  <2>7. summary' \in Seq([user : User, timeLastCalculated : Nat])
    BY <2>4 DEF R
  <2>8. IsWritten(t, e)
    BY <1>2, <2>1, <2>2, <2>4, <2>5, <2>6, <2>7 DEF IsWritten
  <2> QED  BY <2>1, <2>6, <2>8
<1>6. CASE tempDisplay = 0
  <2> DEFINE r == [user |-> user(t), timeLastCalculated |-> myTime[t]]
             e == N + 1
  <2>1. user(t) \in User
    <3>1. JobsTypeOK /\ main = "join"
      BY <1>1 DEF JobsIInv, JobsPlaceInv
    <3>2. Len(jobs) = Jobs /\ Jobs \in Nat
      BY <3>1, JobAssumption DEF JobsIInv, JobsPlaceInv
    <3>3. placeholder[t] \in 1 .. Len(jobs)
      <4>1. placeholder[t] \in 1 .. Jobs + 1 /\ placeholder[t] # Jobs + 1
        BY <1>1, <3>1 DEF JobsIInv, TimeInv, JobsTypeOK
      <4> QED  BY <3>2, <4>1
    <3>4. jobs[placeholder[t]] \in Job
      BY <3>1, <3>3, ElementOfSeq DEF JobsTypeOK
    <3> QED  BY <3>4 DEF Job, user
  <2>2. r \in R /\ r.user = user(t) /\ r.timeLastCalculated = myTime[t]
    BY <1>2, <2>1
  <2>3. summary' = Append(summary, r)
    BY <1>1, <1>6
  <2> HIDE DEF r, R
  <2>4. /\ summary' \in Seq(R) /\ Len(summary') = N + 1 /\ summary'[N + 1] = r
        /\ \A n \in 1 .. N : summary'[n] = summary[n]
    BY <1>2, <2>2, <2>3, AppendProperties
  <2>5. \A n \in 1 .. N : summary[n].user # user(t)
    BY <1>2, <1>3, <1>6 DEF EntryOf
  <2>6. DOMAIN summary' = 1 .. N + 1
    BY <1>2, <2>4
  <2>7. summary' \in Seq([user : User, timeLastCalculated : Nat])
    BY <2>4 DEF R
  <2>8. e \in 1 .. N + 1 /\ e \notin 1 .. N /\ \A n \in 1 .. N + 1 : n # e => n \in 1 .. N
    BY <1>2
  <2>9. IsWritten(t, e)
    BY <1>2, <2>2, <2>4, <2>5, <2>6, <2>7, <2>8 DEF IsWritten
  <2> QED  BY <2>6, <2>8, <2>9
<1> QED  BY <1>5, <1>6

\* A thread enters the time of its job and goes on.
LEMMA WriteIsSafe ==
  ASSUME JobsIInv, NEW t \in Displayer, Write(t)
  PROVE  JobsIInv'
<1> DEFINE k == placeholder[t]
<1>1. /\ jsPc[t] = "write" /\ m2' = NoThread
      /\ placeholder' = [placeholder EXCEPT ![t] = k + 1]
      /\ jsPc' = [jsPc EXCEPT ![t] = IF k = Len(jobs) THEN "ended" ELSE "job"]
      /\ UNCHANGED <<jobs, tempDisplay, main, myTime>>
  BY DEF Write, LeaveSummary, Unlock, JobsGoto
<1>2. /\ JobsTypeOK /\ main = "join" /\ Len(jobs) = Jobs
      /\ Jobs \in Nat /\ NoThread \notin Displayer
  BY <1>1, JobAssumption DEF JobsIInv, JobsPlaceInv
<1>3. k \in 1 .. Jobs /\ DOMAIN jobs = 1 .. Jobs
  <2>1. k \in 1 .. Jobs + 1 /\ k # Jobs + 1
    BY <1>1, <1>2 DEF JobsIInv, TimeInv, JobsTypeOK
  <2> QED  BY <1>2, <2>1 DEF JobsTypeOK
<1>4. myTime[t] = Completion[k]
  BY <1>1 DEF JobsIInv, TimeInv
<1>5. Completion' = Completion
  BY <1>1, CompletionStays
<1>6. PICK e \in DOMAIN summary' : IsWritten(t, e)
  BY EntryIsWritten
<1>7. /\ placeholder'[t] = k + 1
      /\ \A u \in Displayer : u # t => placeholder'[u] = placeholder[u] /\ jsPc'[u] = jsPc[u]
      /\ jsPc'[t] = IF k = Jobs THEN "ended" ELSE "job"
  BY <1>1, <1>2 DEF JobsTypeOK
<1>8. JobsTypeOK'
  <2>1. tempDisplay' \in 0 .. Len(summary')
    BY <1>1, <1>2, <1>6 DEF JobsTypeOK, IsWritten
  <2>2. jsPc' \in [Displayer -> {"job", "lock", "look", "write", "ended"}]
    BY <1>1, <1>2 DEF JobsTypeOK
  <2>3. placeholder' \in [Displayer -> 1 .. Jobs + 1]
    <3>1. k + 1 \in 1 .. Jobs + 1
      BY <1>2, <1>3
    <3> HIDE DEF k
    <3> QED  BY <1>1, <1>2, <3>1 DEF JobsTypeOK
  <2> QED  BY <1>1, <1>2, <1>6, <2>1, <2>2, <2>3 DEF JobsTypeOK, IsWritten
<1>9. ListIsSorted' /\ JobsPlaceInv'
  BY <1>1, <1>2 DEF JobsIInv, ListIsSorted, JobsPlaceInv
<1>10. OneEntryPerUser'
  BY <1>6 DEF JobsIInv, OneEntryPerUser, IsWritten
<1>11. SummaryLockInv'
  <2>1. \A u \in Displayer : jsPc'[u] \notin {"look", "write"}
    <3>1. m2 = t
      BY <1>1 DEF JobsIInv, SummaryLockInv
    <3> QED  BY <1>7, <3>1 DEF JobsIInv, SummaryLockInv
  <2> QED  BY <1>1, <1>2, <2>1 DEF SummaryLockInv
<1>12. TimeInv'
  <2>1. ASSUME NEW u \in Displayer
        PROVE  /\ jsPc'[u] = "ended" <=> placeholder'[u] = Jobs + 1
               /\ jsPc'[u] = "job" => myTime[u] = Completion[placeholder'[u] - 1]
               /\ jsPc'[u] \in {"lock", "look", "write"} => myTime[u] = Completion[placeholder'[u]]
    <3>1. CASE u = t
      <4>1. k + 1 - 1 = k /\ (k = Jobs <=> k + 1 = Jobs + 1)
        BY <1>2, <1>3
      <4>2. placeholder'[t] - 1 = k /\ (k = Jobs <=> placeholder'[t] = Jobs + 1)
        BY <1>2, <1>3, <1>7, <4>1
      <4>3. jsPc'[t] = "ended" <=> k = Jobs
        BY <1>7
      <4> HIDE DEF k
      <4> QED  BY <1>4, <1>7, <3>1, <4>2, <4>3
    <3>2. CASE u # t
      BY <1>7, <3>2 DEF JobsIInv, TimeInv
    <3> QED  BY <3>1, <3>2
  <2> QED  BY <1>1, <1>5, <2>1 DEF TimeInv
<1>13. k \in JobsOf(user(t)) /\ JobsOf(user(t)) \subseteq 1 .. Jobs
       /\ \A name : JobsOf(name)' = JobsOf(name)
  BY <1>1, <1>3 DEF JobsOf, user
<1>14. EntryInv'
  <2> SUFFICES ASSUME NEW n \in DOMAIN summary'
               PROVE  \E j \in JobsOf(summary'[n].user) :
                        /\ summary'[n].timeLastCalculated = Completion[j]
                        /\ \/ \A l \in JobsOf(summary'[n].user) : l <= j
                           \/ \E v \in Displayer, l \in JobsOf(summary'[n].user) :
                                placeholder'[v] <= l
    BY <1>5, <1>13 DEF EntryInv
  <2>1. CASE n = e
    <3>1. summary'[n].user = user(t) /\ summary'[n].timeLastCalculated = Completion[k]
      BY <1>4, <1>6, <2>1 DEF IsWritten
    <3>2. \/ \A l \in JobsOf(user(t)) : l <= k
          \/ \E l \in JobsOf(user(t)) : placeholder'[t] <= l
      BY <1>3, <1>7, <1>13
    <3> QED  BY <1>13, <3>1, <3>2
  <2>2. CASE n # e
    <3>1. n \in DOMAIN summary /\ summary'[n] = summary[n] /\ summary[n].user # user(t)
      BY <1>6, <2>2 DEF IsWritten
    <3>2. PICK j \in JobsOf(summary[n].user) :
            /\ summary[n].timeLastCalculated = Completion[j]
            /\ \/ \A l \in JobsOf(summary[n].user) : l <= j
               \/ \E v \in Displayer, l \in JobsOf(summary[n].user) : placeholder[v] <= l
      BY <3>1 DEF JobsIInv, EntryInv
    <3>3. ASSUME NEW v \in Displayer, NEW l \in JobsOf(summary[n].user), placeholder[v] <= l
          PROVE  placeholder'[v] <= l
      <4>1. CASE v = t
        <5>1. l # k
          BY <3>1 DEF JobsOf, user
        <5>2. l \in 1 .. Jobs
          BY <1>3 DEF JobsOf
        <5> QED  BY <1>3, <1>7, <3>3, <4>1, <5>1, <5>2
      <4>2. CASE v # t
        BY <1>7, <3>3, <4>2
      <4> QED  BY <4>1, <4>2
    <3> QED  BY <3>1, <3>2, <3>3
  <2> QED  BY <2>1, <2>2
<1>15. EnteredInv'
  <2>1. ASSUME NEW v \in Displayer, NEW j \in 1 .. Jobs, j < placeholder'[v]
        PROVE  \E n \in DOMAIN summary' : summary'[n].user = jobs[j].user
    <3>1. CASE v = t /\ j = k
      BY <1>6, <3>1 DEF user, IsWritten
    <3>2. CASE ~ (v = t /\ j = k)
      <4>1. j < placeholder[v]
        BY <1>3, <1>7, <2>1, <3>2
      <4>2. PICK n \in DOMAIN summary : summary[n].user = jobs[j].user
        BY <1>2, <1>3, <4>1 DEF JobsIInv, EnteredInv, EntryOf
      <4>3. n \in DOMAIN summary' /\ summary'[n].user = summary[n].user
        BY <1>6 DEF IsWritten
      <4> QED  BY <4>2, <4>3
    <3> QED  BY <3>1, <3>2
  <2> QED  BY <1>1, <1>3, <2>1 DEF EnteredInv, EntryOf
<1> QED  BY <1>8, <1>9, <1>10, <1>11, <1>12, <1>14, <1>15 DEF JobsIInv

\* Every step of assignment2question2.c.
LEMMA JobsStep == JobsIInv /\ [JobsNext]_jobsVars => JobsIInv'
<1> SUFFICES ASSUME JobsIInv, [JobsNext]_jobsVars PROVE JobsIInv'
  OBVIOUS
<1>1. CASE UNCHANGED jobsVars
  <2>1. UNCHANGED <<jobs, summary, tempDisplay, m2, main, jsPc, placeholder, myTime>>
    BY <1>1 DEF jobsVars, shared
  <2>2. Completion' = Completion
    BY <2>1, CompletionStays
  <2> QED  BY <2>1, <2>2
           DEF JobsIInv, JobsTypeOK, ListIsSorted, OneEntryPerUser, JobsPlaceInv, SummaryLockInv,
               TimeInv, EntryInv, EnteredInv, EntryOf, JobsOf, user
<1>2. CASE \E t \in Displayer : jobDisplay(t)
  BY <1>2, RunIsSafe, SearchIsSafe, WriteIsSafe DEF jobDisplay
<1> QED  BY <1>1, <1>2, ReadIsSafe, MainIsSafe DEF JobsNext, JobsStopped

\* When all threads have ended, nobody will change an entry.
LEMMA SummaryIsSafe == JobsIInv => SummaryInv
<1> SUFFICES ASSUME JobsIInv PROVE SummaryInv
  OBVIOUS
<1>1. SummaryIsRight
  <2> SUFFICES ASSUME main = "summary" PROVE SummaryIsRight
    BY DEF SummaryIsRight
  <2>1. /\ JobsTypeOK /\ Len(jobs) = Jobs /\ Jobs \in Nat
        /\ \A t \in Displayer : placeholder[t] = Jobs + 1
        /\ DOMAIN jobs = 1 .. Jobs
    BY JobAssumption DEF JobsIInv, JobsPlaceInv, TimeInv, JobsTypeOK
  <2>2. ASSUME NEW n \in DOMAIN summary
        PROVE  \E k \in JobsOf(summary[n].user) :
                 /\ \A l \in JobsOf(summary[n].user) : l <= k
                 /\ summary[n].timeLastCalculated = Completion[k]
    <3>1. \A t \in Displayer, l \in JobsOf(summary[n].user) : ~ (placeholder[t] <= l)
      BY <2>1 DEF JobsOf
    <3> QED  BY <3>1 DEF JobsIInv, EntryInv
  <2>3. \A n \in DOMAIN summary : \E k \in DOMAIN jobs : jobs[k].user = summary[n].user
    BY <2>2 DEF JobsOf
  <2>4. ASSUME NEW t \in Displayer, NEW k \in DOMAIN jobs
        PROVE  \E n \in DOMAIN summary : summary[n].user = jobs[k].user
    <3>1. k < placeholder[t]
      BY <2>1
    <3> QED  BY <3>1 DEF JobsIInv, EnteredInv, EntryOf
  <2>5. Displayer = {} => DOMAIN summary = {}
    BY DEF JobsIInv, JobsPlaceInv
  <2>6. {summary[n].user : n \in DOMAIN summary}
          = IF Displayer = {} THEN {} ELSE {jobs[k].user : k \in DOMAIN jobs}
    <3>1. CASE Displayer = {}
      BY <2>5, <3>1
    <3>2. CASE Displayer # {}
      BY <2>3, <2>4, <3>2
    <3> QED  BY <3>1, <3>2
  <2> QED  BY <2>2, <2>6 DEF SummaryIsRight
<1> QED  BY <1>1 DEF JobsIInv, SummaryInv

\* The jobs of assignment2question2.c are sorted by the time at which they would end, and
\* the summary that is shown has each user once, with the time of the last job.
THEOREM SummaryIsKept == JobsSpec => []SummaryInv
BY JobsStart, JobsStep, SummaryIsSafe, PTL DEF JobsSpec

\* The safety of the three programs whose lists have a fault, or whose locks do not
\* matter, together.
THEOREM RacyListsAreSafe == JobsSpec /\ ModifiedSpec /\ SortedSpec => []RacyListsInv
<1>1. SummaryInv /\ ModifiedListInv /\ SortedListInv => RacyListsInv
  BY DEF RacyListsInv
<1> QED  BY <1>1, SummaryIsKept, ModifiedIsSafe, SortedListIsSafe, PTL
=============================================================================
