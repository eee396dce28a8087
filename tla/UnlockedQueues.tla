--------------------------- MODULE UnlockedQueues ---------------------------
(***************************************************************************)
(* Two queues of Faulty/ManyBugs that are used without their lock: the     *)
(* actor of queue_cyclic.c, and the items of os21.c.  Each has its own     *)
(* variables, Init, Next and properties; a run moves one of them.          *)
(***************************************************************************)
EXTENDS Pthreads, SequencesExt

(***************************************************************************)
(* Faulty/ManyBugs/queue_cyclic.c: the actor of queue_cyclic.c without its *)
(* mutex.  The actor waits for the condition with a mutex that nobody else *)
(* takes.  Every load and store of front, tail and a slot is a step.       *)
(*                                                                         *)
(* Messages are those of ActorQueue, told apart by sender.  main() sends   *)
(* ExitMessage when the senders have ended.                                *)
(***************************************************************************)
CONSTANTS Sender,            \* threads that send (a bound; argv[1])
          MSGS,              \* messages of each (a bound; 50)
          QUEUE_BUF_SIZE     \* places of the queue (a bound; 100000)

ASSUME UnlockedAssumption ==
  /\ IsFiniteSet(Sender) /\ "main" \notin Sender /\ {MSGS, QUEUE_BUF_SIZE} \subseteq Nat \ {0}

VARIABLES senders,           \* those that run
          slots, front, tail, actorCond,
          sendPc, sent, at,  \* of each sender and main(): messages sent, tail as it was loaded
          actorPc, v, size,  \* the vector of the actor and the room in it
          data,              \* what queue_dequeue() has taken out of its slot
          counted, dropped   \* messages the actor has counted, and dropped at a full queue

uaVars == <<senders, slots, front, tail, actorCond, sendPc, sent, at, actorPc, v, size, data,
            counted, dropped>>

Null     == <<>>
max_size == QUEUE_BUF_SIZE + 1
Posting  == senders \cup {"main"}
ExitMessage == <<"main", 0>>

ActorInit ==
  /\ senders \in (SUBSET Sender) \ {{}}
  /\ slots = [k \in 0 .. max_size - 1 |-> Null] /\ front = 0 /\ tail = 0 /\ actorCond = {}
  /\ sendPc = [t \in Posting |-> "enqueue"] /\ sent = [t \in Posting |-> 0]
  /\ at = [t \in Posting |-> 0] /\ actorPc = "test" /\ v = <<>> /\ size = 0 /\ data = Null
  /\ counted = <<>> /\ dropped = <<>>

ActorGo(t, place) == sendPc' = [sendPc EXCEPT ![t] = place]

Message(t) == <<t, sent[t]>>

MayPost(t) == IF t = "main" THEN sent[t] = 0 /\ \A s \in senders : sent[s] = MSGS
                            ELSE sent[t] < MSGS

ActorUnchanged == UNCHANGED <<senders, front, actorPc, v, size, data, counted>>

\* BUG: a full queue is taken for an empty one.
BugIsFull == tail = max_size

queue_is_full == (tail + 1) % max_size = front

\* queue_enqueue(): the store into the slot and that of tail.  The build may load tail for
\* each of them, or keep what it has loaded.
EnqueueLoad(t) ==
  /\ sendPc[t] = "enqueue" /\ MayPost(t)
  /\ IF queue_is_full
       THEN dropped' = Append(dropped, Message(t)) /\ ActorGo(t, "signal") /\ UNCHANGED at
       ELSE at' = [at EXCEPT ![t] = tail] /\ ActorGo(t, "slot") /\ UNCHANGED dropped
  /\ ActorUnchanged /\ UNCHANGED <<slots, tail, actorCond, sent>>

EnqueueSlot(t) ==
  /\ sendPc[t] = "slot" /\ ActorGo(t, "tail")
  /\ \E k, l \in {at[t], tail} : /\ slots' = [slots EXCEPT ![k] = Message(t)]
                               /\ at' = [at EXCEPT ![t] = l]
  /\ ActorUnchanged /\ UNCHANGED <<tail, actorCond, sent, dropped>>

EnqueueTail(t) ==
  /\ sendPc[t] = "tail" /\ tail' = (at[t] + 1) % max_size /\ ActorGo(t, "signal")
  /\ ActorUnchanged /\ UNCHANGED <<slots, actorCond, sent, at, dropped>>

Signal(t) ==
  /\ sendPc[t] = "signal" /\ CondSignal(actorCond) /\ ActorGo(t, "enqueue")
  /\ sent' = [sent EXCEPT ![t] = @ + 1]
  /\ ActorUnchanged /\ UNCHANGED <<slots, tail, at, dropped>>

actor_send_to(t) == EnqueueLoad(t) \/ EnqueueSlot(t) \/ EnqueueTail(t) \/ Signal(t)

SendersUnchanged == UNCHANGED <<senders, tail, sendPc, sent, at, dropped>>

queue_size == IF tail >= front THEN tail - front ELSE max_size - front + tail

\* The test, and the wait that comes too late for a signal in between.
Test ==
  /\ actorPc = "test" /\ actorPc' = IF front = tail THEN "sleep" ELSE "size"
  /\ SendersUnchanged /\ UNCHANGED <<slots, front, actorCond, v, size, data, counted>>

ActorWait ==
  /\ actorPc = "sleep" /\ actorCond' = {"actor"} /\ actorPc' = "wait"
  /\ SendersUnchanged /\ UNCHANGED <<slots, front, v, size, data, counted>>

Awake ==
  /\ actorPc = "wait" /\ actorCond = {} /\ actorPc' = "test"
  /\ SendersUnchanged /\ UNCHANGED <<slots, front, actorCond, v, size, data, counted>>

\* queue_dequeueall() makes room for what is there now ...
Size ==
  /\ actorPc = "size" /\ size' = queue_size /\ actorPc' = "take"
  /\ SendersUnchanged /\ UNCHANGED <<slots, front, actorCond, v, data, counted>>

\* ... and takes what is there then: data, the slot and front.
Take ==
  /\ actorPc = "take"
  /\ IF front = tail THEN actorPc' = "count" /\ UNCHANGED data
                     ELSE actorPc' = "clear" /\ data' = slots[front]
  /\ SendersUnchanged /\ UNCHANGED <<slots, front, actorCond, v, size, counted>>

Clear ==
  /\ actorPc = "clear" /\ slots' = [slots EXCEPT ![front] = Null] /\ actorPc' = "front"
  /\ SendersUnchanged /\ UNCHANGED <<front, actorCond, v, size, data, counted>>

\* A message for which there is no room in the vector ends the program with exit(1).
MoveFront ==
  /\ actorPc = "front" /\ front' = (front + 1) % max_size
  /\ IF data = Null THEN actorPc' = "count" /\ UNCHANGED v
     ELSE IF Len(v) = size THEN actorPc' = "exit" /\ UNCHANGED v
     ELSE actorPc' = "take" /\ v' = Append(v, data)
  /\ SendersUnchanged /\ UNCHANGED <<slots, actorCond, size, data, counted>>

Count ==
  /\ actorPc = "count" /\ counted' = counted \o v /\ v' = <<>>
  /\ actorPc' = IF Contains(v, ExitMessage) THEN "ended" ELSE "test"
  /\ SendersUnchanged /\ UNCHANGED <<slots, front, actorCond, size, data>>

actor_runner == Test \/ ActorWait \/ Awake \/ Size \/ Take \/ Clear \/ MoveFront \/ Count

ActorSpuriousWakeup ==
  /\ Spurious(actorCond)
  /\ SendersUnchanged /\ UNCHANGED <<slots, front, actorPc, v, size, data, counted>>

\* exit() ends all threads; otherwise all messages have been sent.
Exited == actorPc = "exit"
ActorStopped ==
  /\ Exited \/ (sent["main"] = 1 /\ (actorPc = "ended" \/ actorCond # {}))
  /\ UNCHANGED uaVars

ActorNext ==
  \/ ActorStopped
  \/ ~Exited /\ (actor_runner \/ ActorSpuriousWakeup \/ \E t \in Posting : actor_send_to(t))

ActorSpec == ActorInit /\ [][ActorNext]_uaVars
-----------------------------------------------------------------------------
ActorTypeOK ==
  /\ {front, tail} \subseteq 0 .. max_size - 1 /\ size \in 0 .. QUEUE_BUF_SIZE
  /\ actorCond \subseteq {"actor"} /\ DOMAIN slots = 0 .. max_size - 1

Queued == [k \in 1 .. queue_size |-> slots[(front + k - 1) % max_size]]

\* What t has put into the queue.
PostedBy(t) == [k \in 1 .. sent[t] + (IF sendPc[t] = "signal" THEN 1 ELSE 0) |-> <<t, k - 1>>]

Posted == UNION {ToSet(PostedBy(t)) : t \in Posting}

\* What is on the way or counted, the oldest first; a message is in its slot until front moves.
Kept ==
  LET taken == actorPc \in {"clear", "front"}
  IN  counted \o v \o (IF taken THEN <<data>> \o Tail(Queued) ELSE Queued)

\* The order in which one sender, and then main(), posts.
Before(m, n) == IF m[1] = n[1] THEN m[2] < n[2] ELSE n[1] = "main"

\* One sender after the other (main() sends when it has ended) needs no lock: what the
\* actor has counted, has in its vector or is taking, and the queue, are what was sent
\* and not dropped, once and in order.
OneSenderNeedsNoLock ==
  Cardinality(senders) = 1 /\ ~Exited =>
    /\ ToSet(Kept) = Posted \ ToSet(dropped)
    /\ \A j, k \in 1 .. Len(Kept) : j < k => Before(Kept[j], Kept[k])

\* Several lose messages of each other, but none is counted twice or made up.
NothingIsMadeUp ==
  /\ IsInjective(counted) /\ ToSet(counted) \cap ToSet(dropped) = {}
  /\ \A m \in ToSet(counted) : m \in ToSet(PostedBy(m[1])) \cup {Message(m[1])}

\* The safety of the actor without its lock.
UnlockedActorInv == ActorTypeOK /\ OneSenderNeedsNoLock /\ NothingIsMadeUp
-----------------------------------------------------------------------------

(***************************************************************************)
(* Faulty/ManyBugs/os21.c: a producer puts items on a stack under a mutex; *)
(* consumers eat from the top of it without one, but for the wait, which   *)
(* gives the mutex back, whoever has it, and returns with it.  A consumer  *)
(* that has waited keeps the mutex until it waits again.                   *)
(*                                                                         *)
(* *curitem = *curitem + 1 and - 1 are a load and a store each.  The items *)
(* themselves, which nobody compares, and the random numbers at the head   *)
(* of the file, which nobody calls, are left out.                          *)
(***************************************************************************)
CONSTANTS Consumer,
          Top,            \* the producer waits above it (a bound; 30)
          MaxItems        \* items made (a bound)

ASSUME ItemBufferAssumption ==
  /\ IsFiniteSet(Consumer) /\ {"producer", NoThread} \cap Consumer = {}
  /\ {Top, MaxItems} \subseteq Nat \ {0}

VARIABLES curitem, itemLock, empty, full, itemPc,
          loaded,         \* of each thread: what it has loaded of curitem
          made,           \* items made
          astray          \* some consumer has found an item before it ever waited, or waited
                          \* with the mutex of the producer or when there was an item

itemVars == <<curitem, itemLock, empty, full, itemPc, loaded, made, astray>>

Producer == "producer"
Eaters   == Consumer \cup {Producer}

ItemsInit ==
  /\ curitem = -1 /\ itemLock = NoThread /\ empty = {} /\ full = {} /\ made = 0 /\ astray = FALSE
  /\ \E threadcap \in (SUBSET Consumer) \ {{}} :
       itemPc = [t \in Eaters |-> IF t = Producer THEN "lock"
                                  ELSE IF t \in threadcap THEN "first" ELSE "uncreated"]
  /\ loaded = [t \in Eaters |-> 0]

ItemsGo(t, place) == itemPc' = [itemPc EXCEPT ![t] = place]

LoadItem(t) == loaded' = [loaded EXCEPT ![t] = curitem]

\* The producer.
ProducerLock ==
  /\ \/ itemPc[Producer] = "lock" /\ made < MaxItems /\ Lock(itemLock, Producer)
     \/ itemPc[Producer] = "wait" /\ CondResume(full, itemLock, Producer)
  /\ ItemsGo(Producer, "test") /\ UNCHANGED <<curitem, empty, full, loaded, made, astray>>

FindsFull ==
  /\ itemPc[Producer] = "test" /\ curitem > Top /\ ItemsGo(Producer, "sleep")
  /\ UNCHANGED <<curitem, itemLock, empty, full, loaded, made, astray>>

ProducerWait ==
  /\ itemPc[Producer] = "sleep" /\ CondWait(full, itemLock, Producer) /\ ItemsGo(Producer, "wait")
  /\ UNCHANGED <<curitem, empty, loaded, made, astray>>

MakeLoad ==
  /\ itemPc[Producer] = "test" /\ curitem <= Top /\ LoadItem(Producer) /\ ItemsGo(Producer, "store")
  /\ UNCHANGED <<curitem, itemLock, empty, full, made, astray>>

MakeStore ==
  /\ itemPc[Producer] = "store" /\ curitem' = loaded[Producer] + 1 /\ made' = made + 1
  /\ ItemsGo(Producer, "signal") /\ UNCHANGED <<itemLock, empty, full, loaded, astray>>

MakeSignal ==
  /\ itemPc[Producer] = "signal" /\ Unlock(itemLock) /\ ItemsGo(Producer, "lock")
  /\ IF curitem = 0 THEN CondSignal(empty) ELSE UNCHANGED empty
  /\ UNCHANGED <<curitem, full, loaded, made, astray>>

producer == ProducerLock \/ FindsFull \/ ProducerWait \/ MakeLoad \/ MakeStore \/ MakeSignal

\* A consumer; "first" is the test of one that has never waited.
Testing(c) == itemPc[c] \in {"first", "test"}

FindsNothing(c) ==
  /\ Testing(c) /\ curitem < 0 /\ ItemsGo(c, "sleep")
  /\ UNCHANGED <<curitem, itemLock, empty, full, loaded, made, astray>>

Resume(c) ==
  /\ itemPc[c] = "wait" /\ CondResume(empty, itemLock, c) /\ ItemsGo(c, "test")
  /\ UNCHANGED <<curitem, empty, full, loaded, made, astray>>

ItemsWait(c) ==
  /\ itemPc[c] = "sleep" /\ CondWait(empty, itemLock, c) /\ ItemsGo(c, "wait")
  /\ astray' = (astray \/ itemLock = Producer \/ curitem >= 0)
  /\ UNCHANGED <<curitem, full, loaded, made>>

FindsItem(c) ==
  /\ Testing(c) /\ curitem >= 0 /\ ItemsGo(c, "eat") /\ astray' = (astray \/ itemPc[c] = "first")
  /\ UNCHANGED <<curitem, itemLock, empty, full, loaded, made>>

EatLoad(c) ==
  /\ itemPc[c] = "eat" /\ LoadItem(c) /\ ItemsGo(c, "store")
  /\ UNCHANGED <<curitem, itemLock, empty, full, made, astray>>

EatStore(c) ==
  /\ itemPc[c] = "store" /\ curitem' = loaded[c] - 1 /\ ItemsGo(c, "signal")
  /\ UNCHANGED <<itemLock, empty, full, loaded, made, astray>>

EatSignal(c) ==
  /\ itemPc[c] = "signal" /\ ItemsGo(c, "test")
  /\ IF curitem = Top THEN CondSignal(full) ELSE UNCHANGED full
  /\ UNCHANGED <<curitem, itemLock, empty, loaded, made, astray>>

consumer(c) ==
  \/ FindsNothing(c) \/ ItemsWait(c) \/ Resume(c)
  \/ FindsItem(c) \/ EatLoad(c) \/ EatStore(c) \/ EatSignal(c)

ItemsSpuriousWakeup ==
  /\ \/ Spurious(empty) /\ UNCHANGED full
     \/ Spurious(full) /\ UNCHANGED empty
  /\ UNCHANGED <<curitem, itemLock, itemPc, loaded, made, astray>>

\* No more items are considered, or all sleep or wait for a mutex nobody gives back.
Asleep(t) == t \in empty \cup full
ItemsStopped ==
  /\ \A c \in Consumer :
       Asleep(c) \/ itemPc[c] = "uncreated" \/ (itemPc[c] = "wait" /\ itemLock # NoThread)
  /\ Asleep(Producer) \/ (itemPc[Producer] = "lock" /\ (made = MaxItems \/ itemLock # NoThread))
  /\ UNCHANGED itemVars

ItemsNext == producer \/ ItemsSpuriousWakeup \/ ItemsStopped \/ \E c \in Consumer : consumer(c)

ItemsSpec == ItemsInit /\ [][ItemsNext]_itemVars
-----------------------------------------------------------------------------
ItemsTypeOK ==
  /\ itemLock \in Eaters \cup {NoThread} /\ empty \subseteq Consumer /\ full \subseteq {Producer}
  /\ made \in 0 .. MaxItems

Alone == Cardinality({c \in Consumer : itemPc[c] # "uncreated"}) = 1

\* One consumer never leaves the stack, whatever updates are lost: curitem is an index of
\* it or -1.  More of them may take it further and further below, but not above.
IndexIsBounded == curitem <= Top + 1 /\ (Alone => curitem >= -1)

\* Although it never calls pthread_mutex_lock(), one consumer that comes first, and waits
\* with nothing to lose, eats under the mutex ever after.  So nobody else changes curitem,
\* no signal is missed, and the producer sleeps only at a full stack.
OneWhoWaitedFirst ==
  Alone /\ ~astray =>
    /\ \A c \in Consumer : itemPc[c] \in {"eat", "store", "signal"} => itemLock = c
    /\ itemPc[Producer] \in {"test", "sleep", "store", "signal"} => itemLock = Producer
    /\ \A c \in Consumer : c \in empty => curitem < 1 \/ itemLock = Producer
    /\ Producer \in full => curitem > Top \/ itemLock \in Consumer

\* The safety of os21.c.
ItemBufferInv == ItemsTypeOK /\ IndexIsBounded /\ OneWhoWaitedFirst
=============================================================================
