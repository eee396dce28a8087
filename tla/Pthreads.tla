------------------------------ MODULE Pthreads ------------------------------
(***************************************************************************)
(* The POSIX threads calls the programs of the benchmark are built from.   *)
(* None of them is code of the repository: each operator is the effect the *)
(* programs rely on, written as an action on the variable that stands for  *)
(* the mutex (its owner, or NoThread), for the condition variable (the set *)
(* of threads asleep on it), for the semaphore (a number) or for the       *)
(* barrier (the set of threads that have arrived).                         *)
(*                                                                         *)
(* A thread that calls pthread_cond_wait releases the mutex and falls      *)
(* asleep in one step (CondWait).  It wakes when a signal, a broadcast or  *)
(* nothing at all (Spurious) takes it out of the set, and goes on when it  *)
(* has the mutex again (CondResume).                                       *)
(***************************************************************************)
EXTENDS Integers, FiniteSets

NoThread == "none"

\* pthread_mutex_lock: blocks while anybody, the caller included, owns m.
Lock(m, t) == m = NoThread /\ m' = t

\* pthread_mutex_unlock.
Unlock(m) == m' = NoThread

\* pthread_cond_wait, up to the sleep.
CondWait(c, m, t) == c' = c \cup {t} /\ m' = NoThread

\* pthread_cond_wait, from the wake-up to the return.
CondResume(c, m, t) == t \notin c /\ m = NoThread /\ m' = t

\* pthread_cond_signal: wakes one sleeper if there is one.
CondSignal(c) ==
  \/ c = {} /\ c' = c
  \/ \E t \in c : c' = c \ {t}

\* pthread_cond_broadcast.
CondBroadcast(c) == c' = {}

\* POSIX lets a sleeper return from pthread_cond_wait without a signal.
Spurious(c) == \E t \in c : c' = c \ {t}

\* sem_wait and sem_post.
SemWait(s) == s > 0 /\ s' = s - 1
SemPost(s) == s' = s + 1

\* pthread_barrier_wait on a barrier for n threads, up to the wait; the thread
\* that makes up the number releases the others.  Back it is when t \notin b.
BarrierArrive(b, n, t) ==
  b' = IF Cardinality(b \cup {t}) = n THEN {} ELSE b \cup {t}
=============================================================================
