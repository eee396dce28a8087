----------------------------- MODULE ActorQueue -----------------------------
(***************************************************************************)
(* Fixed/NoBug1/queue_cyclic.c: n_senders threads send the messages        *)
(* 0 .. MSGS-1 each to one actor, through a cyclic queue of QUEUE_BUF_SIZE *)
(* places.  The actor takes all that is queued at once and counts it after *)
(* it has unlocked.  main() joins the senders and then sends the message   *)
(* Exit (-1) itself.  A message sent to a full queue is dropped:           *)
(* actor_send_to ignores what queue_enqueue returns.                       *)
(*                                                                         *)
(* A queue slot holds a message or Null.  The senders' malloc'ed pointers  *)
(* and the vector's own bookkeeping carry no information the actor uses    *)
(* and are left out; the vector is the sequence of messages in it.         *)
(***************************************************************************)
EXTENDS Pthreads, Sequences, FiniteSets, FiniteSetsExt

CONSTANTS Sender,            \* the n_senders threads
          MSGS,              \* messages of each sender (50 in the code)
          QUEUE_BUF_SIZE     \* places of the queue (100000)

ASSUME ActorAssumption ==
  /\ IsFiniteSet(Sender) /\ Sender \cap {"main", "actor", NoThread} = {}
  /\ MSGS \in Nat /\ QUEUE_BUF_SIZE \in Nat \ {0}

Exit     == -1
Null     == -2
Kind     == 0 .. MSGS - 1
max_size == QUEUE_BUF_SIZE + 1
Posting  == Sender \cup {"main"}        \* who calls actor_send_to

VARIABLES cyclic_buf, front, tail,      \* queue_cycl_t
          aqMutex, cond,
          aqPc,
          aqI,                          \* the loop of each sender
          v,                            \* the vector the actor has drained
          buf,                          \* the actor's counters
          dropped                       \* how often each message was dropped

cyclicQueue == <<cyclic_buf, front, tail>>
actorSync   == <<aqMutex, cond>>
actorVars   == <<cyclicQueue, actorSync, aqPc, aqI, v, buf, dropped>>

ActorGoto(t, label) == aqPc' = [aqPc EXCEPT ![t] = label]
Count(q, m) == Cardinality({k \in 1 .. Len(q) : q[k] = m})
-----------------------------------------------------------------------------
queue_size == IF tail >= front THEN tail - front ELSE max_size - front + tail

queue_is_full == (tail + 1) % max_size = front

queue_is_empty == front = tail

Queued == [k \in 1 .. queue_size |-> cyclic_buf[(front + k - 1) % max_size]]

ActorInit ==
  /\ cyclic_buf = [s \in 0 .. max_size - 1 |-> Null]
  /\ front = 0 /\ tail = 0
  /\ aqMutex = NoThread /\ cond = {}
  /\ aqPc = [t \in Posting \cup {"actor"} |->
               CASE t = "main" -> "join" [] t = "actor" -> "lock" [] OTHER -> "send"]
  /\ aqI = [s \in Sender |-> 0]
  /\ v = <<>>
  /\ buf = [m \in Kind |-> 0]
  /\ dropped = [m \in Kind \cup {Exit} |-> 0]
-----------------------------------------------------------------------------
\* actor_send_to, called by a sender with i and by main() with Exit.
Message(t) == IF t = "main" THEN Exit ELSE aqI[t]

\* BUG: the lock is left out, as in Faulty/ManyBugs.
BugSendUnlocked(t) ==
  /\ aqPc[t] = "send" /\ (t \in Sender => aqI[t] < MSGS)
  /\ aqMutex' = t
  /\ ActorGoto(t, "enqueue")
  /\ UNCHANGED <<cyclicQueue, cond, aqI, v, buf, dropped>>

SendLock(t) ==
  /\ aqPc[t] = "send" /\ (t \in Sender => aqI[t] < MSGS)
  /\ Lock(aqMutex, t)
  /\ ActorGoto(t, "enqueue")
  /\ UNCHANGED <<cyclicQueue, cond, aqI, v, buf, dropped>>

\* queue_enqueue fails ...
EnqueueFails(t) ==
  /\ aqPc[t] = "enqueue" /\ queue_is_full
  /\ dropped' = [dropped EXCEPT ![Message(t)] = @ + 1]
  /\ ActorGoto(t, "signal")
  /\ UNCHANGED <<cyclicQueue, actorSync, aqI, v, buf>>

\* ... or fills the slot at tail, and then moves tail.
EnqueueStore(t) ==
  /\ aqPc[t] = "enqueue" /\ ~ queue_is_full
  /\ cyclic_buf' = [cyclic_buf EXCEPT ![tail] = Message(t)]
  /\ ActorGoto(t, "advance")
  /\ UNCHANGED <<front, tail, actorSync, aqI, v, buf, dropped>>

EnqueueAdvance(t) ==
  /\ aqPc[t] = "advance"
  /\ tail' = (tail + 1) % max_size
  /\ ActorGoto(t, "signal")
  /\ UNCHANGED <<cyclic_buf, front, actorSync, aqI, v, buf, dropped>>

AfterSend(t) ==
  IF t = "main" THEN ActorGoto(t, "finalize") /\ aqI' = aqI
                ELSE ActorGoto(t, "send") /\ aqI' = [aqI EXCEPT ![t] = @ + 1]

\* BUG: the actor is not woken.
BugSendSilent(t) ==
  /\ aqPc[t] = "signal"
  /\ Unlock(aqMutex) /\ cond' = cond
  /\ AfterSend(t)
  /\ UNCHANGED <<cyclicQueue, v, buf, dropped>>

SendSignal(t) ==
  /\ aqPc[t] = "signal"
  /\ CondSignal(cond) /\ Unlock(aqMutex)
  /\ AfterSend(t)
  /\ UNCHANGED <<cyclicQueue, v, buf, dropped>>

SenderEnds(s) ==
  /\ aqPc[s] = "send" /\ aqI[s] = MSGS
  /\ ActorGoto(s, "ended")
  /\ UNCHANGED <<cyclicQueue, actorSync, aqI, v, buf, dropped>>

\* main(): join the senders, send Exit, join the actor (actor_finalize).
MainJoins ==
  /\ aqPc["main"] = "join" /\ \A s \in Sender : aqPc[s] = "ended"
  /\ ActorGoto("main", "send")
  /\ UNCHANGED <<cyclicQueue, actorSync, aqI, v, buf, dropped>>

MainFinalizes ==
  /\ aqPc["main"] = "finalize" /\ aqPc["actor"] = "ended"
  /\ ActorGoto("main", "returned")
  /\ UNCHANGED <<cyclicQueue, actorSync, aqI, v, buf, dropped>>
-----------------------------------------------------------------------------
\* actor_runner.
ActorLock ==
  /\ aqPc["actor"] = "lock"
  /\ Lock(aqMutex, "actor")
  /\ ActorGoto("actor", "test")
  /\ UNCHANGED <<cyclicQueue, cond, aqI, v, buf, dropped>>

ActorWait ==
  /\ aqPc["actor"] = "test" /\ queue_is_empty
  /\ CondWait(cond, aqMutex, "actor")
  /\ ActorGoto("actor", "wait")
  /\ UNCHANGED <<cyclicQueue, aqI, v, buf, dropped>>

ActorResume ==
  /\ aqPc["actor"] = "wait"
  /\ CondResume(cond, aqMutex, "actor")
  /\ ActorGoto("actor", "test")
  /\ UNCHANGED <<cyclicQueue, cond, aqI, v, buf, dropped>>

\* queue_dequeueall: stops at an empty queue or at the first Null slot, which
\* queue_dequeue also steps over; every slot it has passed becomes Null.
ActorDrain ==
  /\ aqPc["actor"] = "test" /\ ~ queue_is_empty
  /\ LET n == Max({k \in 0 .. queue_size : \A j \in 1 .. k : Queued[j] # Null})
         passed == IF n = queue_size THEN n ELSE n + 1
     IN  /\ v' = SubSeq(Queued, 1, n)
         /\ cyclic_buf' = [s \in 0 .. max_size - 1 |->
                             IF \E k \in 0 .. passed - 1 : s = (front + k) % max_size
                             THEN Null ELSE cyclic_buf[s]]
         /\ front' = (front + passed) % max_size
  /\ Unlock(aqMutex)
  /\ ActorGoto("actor", "count")
  /\ UNCHANGED <<tail, cond, aqI, buf, dropped>>

\* The whole vector is counted, the exit message does not cut it short.
ActorCount ==
  /\ aqPc["actor"] = "count"
  /\ buf' = [m \in Kind |-> buf[m] + Count(v, m)]
  /\ ActorGoto("actor", IF Count(v, Exit) > 0 THEN "ended" ELSE "lock")
  /\ v' = <<>>
  /\ UNCHANGED <<cyclicQueue, actorSync, aqI, dropped>>
-----------------------------------------------------------------------------
Post(t) == \/ SendLock(t) \/ EnqueueFails(t) \/ EnqueueStore(t)
           \/ EnqueueAdvance(t) \/ SendSignal(t)

ActorMain == MainJoins \/ Post("main") \/ MainFinalizes

Actor == ActorLock \/ ActorWait \/ ActorResume \/ ActorDrain \/ ActorCount

ActorSpuriousWakeup ==
  Spurious(cond) /\ UNCHANGED <<cyclicQueue, aqMutex, aqPc, aqI, v, buf, dropped>>

ActorTerminated == aqPc["main"] = "returned" /\ UNCHANGED actorVars

ActorNext == \/ ActorMain \/ Actor \/ ActorSpuriousWakeup \/ ActorTerminated
             \/ \E s \in Sender : Post(s) \/ SenderEnds(s)

ActorSpec == ActorInit /\ [][ActorNext]_actorVars

\* Every thread that can move does; the senders are finite loops.
ActorFairness ==
  /\ WF_actorVars(ActorMain) /\ WF_actorVars(Actor)
  /\ \A s \in Sender : WF_actorVars(Post(s) \/ SenderEnds(s))
  /\ <>[][~ ActorSpuriousWakeup]_actorVars

ActorFairSpec == ActorSpec /\ ActorFairness
-----------------------------------------------------------------------------
ActorTypeOK ==
  /\ cyclic_buf \in [0 .. max_size - 1 -> Kind \cup {Exit, Null}]
  /\ front \in 0 .. max_size - 1 /\ tail \in 0 .. max_size - 1
  /\ aqMutex \in Posting \cup {"actor", NoThread} /\ cond \subseteq {"actor"}
  /\ aqI \in [Sender -> 0 .. MSGS]
  /\ v \in Seq(Kind \cup {Exit})
  /\ buf \in [Kind -> 0 .. Cardinality(Sender)]
  /\ dropped \in [Kind \cup {Exit} -> Nat] /\ dropped[Exit] <= 1

\* How many times m has been handed to actor_send_to and enqueued or dropped.
Posted(m) ==
  LET done(s) == aqI[s] > m \/ (aqI[s] = m /\ aqPc[s] = "signal")
  IN  Cardinality({s \in Sender : done(s)})

\* No message disappears or is made up: each one posted is in the queue, in
\* the vector, in the actor's counters, or was dropped at a full queue.
EveryMessageIsSomewhere ==
  \A m \in Kind : Posted(m) = buf[m] + Count(v, m) + Count(Queued, m) + dropped[m]

\* "ERROR!!!!!!!!" (queue_cyclic.c:171-175): when the actor ends it has counted
\* every message once for each sender.
ErrorIsNeverReported ==
  aqPc["actor"] = "ended" => \A m \in Kind : buf[m] = Cardinality(Sender)

\* The actor sleeps on a queue that holds messages only while the thread that
\* filled it is still inside actor_send_to.
SleepIsJustified == "actor" \in cond /\ aqMutex = NoThread => queue_is_empty

\* As far as the queue had room, that is so: the exit message comes after all
\* others and does not cut their counting short.
NothingElseIsLost ==
  aqPc["actor"] = "ended" =>
    \A m \in Kind : buf[m] + dropped[m] = Cardinality(Sender)

\* The actor ends and main() returns, unless the exit message itself found no
\* room.
ActorIsFinalized == <>(aqPc["main"] = "returned" \/ dropped[Exit] > 0)

\* The safety of the actor of queue_cyclic.c: every message posted can be accounted
\* for, at every step and when the actor ends, and the actor sleeps for a reason.
ActorInv == ActorTypeOK /\ EveryMessageIsSomewhere /\ NothingElseIsLost /\ SleepIsJustified
=============================================================================
