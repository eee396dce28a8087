---------------------------- MODULE TakingTurns -----------------------------
(***************************************************************************)
(* Three programs whose threads go on in turns: 10practice.c by polling,   *)
(* ping_pong.c by a condition, and the channels of cpap2psg.c by a         *)
(* condition each. Each has its own variables, Init, Next and properties;  *)
(* a run moves one of them.                                                *)
(***************************************************************************)
EXTENDS Pthreads, Sequences

(***************************************************************************)
(* Fixed/NoBug2/10practice.c: three threads pass flag round, by polling it *)
(* under the mutex, until each has had its turn so many times.             *)
(***************************************************************************)
CONSTANT Turns        \* 10 in the three handlers (a bound)

ASSUME RelayAssumption == Turns \in Nat \ {0}

Handler == {"A", "B", "C"}
Mine(h) == CASE h = "A" -> 1 [] h = "B" -> 2 [] OTHER -> 3

NextOf(h) == CASE h = "A" -> 2 [] h = "B" -> 3 [] OTHER -> 1

VARIABLES flag, lock_flag, rePc, turns,
          output        \* what has been printed

relayVars == <<flag, lock_flag, rePc, turns, output>>

RelayInit ==
  /\ flag = 1 /\ lock_flag = NoThread /\ output = <<>>
  /\ rePc = [h \in Handler |-> "lock"] /\ turns = [h \in Handler |-> 0]

RelayGoto(h, label) == rePc' = [rePc EXCEPT ![h] = label]

RelayEnter(h) ==
  /\ rePc[h] = "lock" /\ Lock(lock_flag, h) /\ RelayGoto(h, "test")
  /\ UNCHANGED <<flag, turns, output>>

Test(h) ==
  /\ rePc[h] = "test" /\ RelayGoto(h, IF flag = Mine(h) THEN "pass" ELSE "leave")
  /\ UNCHANGED <<flag, lock_flag, turns, output>>

Pass(h) ==
  /\ rePc[h] = "pass" /\ flag' = NextOf(h) /\ RelayGoto(h, "print")
  /\ UNCHANGED <<lock_flag, turns, output>>

Say(h) ==
  /\ rePc[h] = "print" /\ output' = Append(output, h)
  /\ turns' = [turns EXCEPT ![h] = @ + 1] /\ RelayGoto(h, "leave")
  /\ UNCHANGED <<flag, lock_flag>>

\* Between the unlock and the next lock the thread sleeps for a second.
Leave(h) ==
  /\ rePc[h] = "leave" /\ Unlock(lock_flag)
  /\ RelayGoto(h, IF turns[h] >= Turns THEN "ended" ELSE "lock")
  /\ UNCHANGED <<flag, turns, output>>

handler(h) == RelayEnter(h) \/ Test(h) \/ Pass(h) \/ Say(h) \/ Leave(h)

RelayTerminated == (\A h \in Handler : rePc[h] = "ended") /\ UNCHANGED relayVars

RelayNext == RelayTerminated \/ \E h \in Handler : handler(h)

RelaySpec == RelayInit /\ [][RelayNext]_relayVars

\* A thread that asks for the mutex every second gets it in the end.
RelayFairSpec == RelaySpec /\ \A h \in Handler : SF_relayVars(handler(h))
-----------------------------------------------------------------------------
RelayTypeOK ==
  /\ flag \in 1 .. 3 /\ lock_flag \in Handler \cup {NoThread}
  /\ rePc \in [Handler -> {"lock", "test", "pass", "print", "leave", "ended"}]
  /\ turns \in [Handler -> 0 .. Turns] /\ output \in Seq(Handler)

\* The threads print A, B, C, A, B, C ... and nobody prints before the one
\* before it has: although the flag is passed on before the letter is printed.
PrintsInTurn ==
  \A n \in 1 .. Len(output) : Mine(output[n]) = ((n - 1) % 3) + 1

\* Each has all its turns, and main() can join them.
AllHaveTheirTurns == <>(\A h \in Handler : rePc[h] = "ended" /\ turns[h] = Turns)

\* The safety of 10practice.c: the letters are printed in turn.
RelayInv == RelayTypeOK /\ PrintsInTurn
-----------------------------------------------------------------------------

(***************************************************************************)
(* Fixed/NoBug2/ping_pong.c: ping and pong wake each other with one        *)
(* condition and wait for each other without a predicate.  pong polls      *)
(* g_ready until ping is about to wait.                                    *)
(*                                                                         *)
(* A wake-up by nobody is a turn that is not due: idle is history and says *)
(* that there was one, at most MaxIdle (a bound).                          *)
(***************************************************************************)
CONSTANTS MAX_COUNT,    \* 5
          MaxIdle

ASSUME PingPongAssumption == MAX_COUNT \in Nat \ {0} /\ MaxIdle \in Nat

Player   == {"ping", "pong"}
Other(p) == IF p = "ping" THEN "pong" ELSE "ping"

VARIABLES g_ready, thr_cond_lock, thr_cond, ppPc,
          ppI,        \* of each thread: what it has printed
          ppIdle

gameVars == <<g_ready, thr_cond_lock, thr_cond, ppPc, ppI, ppIdle>>

GameInit ==
  /\ g_ready = FALSE             \* is it PING_READY?
  /\ thr_cond_lock = NoThread /\ thr_cond = {}
  /\ ppPc = [p \in Player |-> "lock"] /\ ppI = [p \in Player |-> 0] /\ ppIdle = 0

GameGoto(p, label) == ppPc' = [ppPc EXCEPT ![p] = label]

GameEnter(p) ==
  /\ ppPc[p] = "lock" /\ Lock(thr_cond_lock, p) /\ GameGoto(p, "begin")
  /\ UNCHANGED <<g_ready, thr_cond, ppI, ppIdle>>

PingReady ==
  /\ ppPc["ping"] = "begin" /\ g_ready' = TRUE
  /\ CondWait(thr_cond, thr_cond_lock, "ping") /\ GameGoto("ping", "wait")
  /\ UNCHANGED <<ppI, ppIdle>>

\* BUG: pong does not sleep before its first turn.
BugFirstOfPong == "turn"

FirstOfPong == "sleep"

PongPoll ==
  /\ ppPc["pong"] = "begin"
  /\ IF g_ready THEN CondSignal(thr_cond) /\ GameGoto("pong", FirstOfPong)
                    /\ UNCHANGED thr_cond_lock
                ELSE Unlock(thr_cond_lock) /\ GameGoto("pong", "lock") /\ UNCHANGED thr_cond
  /\ UNCHANGED <<g_ready, ppI, ppIdle>>

\* pthread_cond_wait, up to the sleep.
Sleep(p) ==
  /\ ppPc[p] = "sleep"
  /\ CondWait(thr_cond, thr_cond_lock, p) /\ GameGoto(p, "wait")
  /\ UNCHANGED <<g_ready, ppI, ppIdle>>

WakeUp(p) ==
  /\ ppPc[p] = "wait" /\ CondResume(thr_cond, thr_cond_lock, p) /\ GameGoto(p, "turn")
  /\ UNCHANGED <<g_ready, thr_cond, ppI, ppIdle>>

WakeTheOther(p) == CondSignal(thr_cond)

Last(p) == ppI'[p] = MAX_COUNT

\* A turn: print, wake the other, and end or sleep.
Turn(p) ==
  /\ ppPc[p] = "turn"
  /\ ppI' = [ppI EXCEPT ![p] = @ + 1]
  /\ WakeTheOther(p)
  /\ IF Last(p) THEN Unlock(thr_cond_lock) /\ GameGoto(p, "ended")
                ELSE UNCHANGED thr_cond_lock /\ GameGoto(p, "sleep")
  /\ UNCHANGED <<g_ready, ppIdle>>

thread_ping == PingReady \/ GameEnter("ping") \/ Sleep("ping") \/ WakeUp("ping") \/ Turn("ping")
thread_pong == PongPoll \/ GameEnter("pong") \/ Sleep("pong") \/ WakeUp("pong") \/ Turn("pong")

SpuriousWakeup ==
  /\ ppIdle < MaxIdle /\ Spurious(thr_cond) /\ ppIdle' = ppIdle + 1
  /\ UNCHANGED <<g_ready, thr_cond_lock, ppPc, ppI>>

\* Both have ended, or one waits for the other, which has.
Stopped ==
  /\ \A p \in Player : ppPc[p] = "ended" \/ p \in thr_cond
  /\ UNCHANGED gameVars

GameNext == thread_ping \/ thread_pong \/ SpuriousWakeup \/ Stopped

GameSpec == GameInit /\ [][GameNext]_gameVars

\* ping gets the mutex although pong takes it again and again.
GameFairSpec == GameSpec /\ SF_gameVars(thread_ping) /\ WF_gameVars(thread_pong)
-----------------------------------------------------------------------------
GameTypeOK ==
  /\ g_ready \in BOOLEAN /\ thr_cond_lock \in Player \cup {NoThread} /\ thr_cond \subseteq Player
  /\ ppPc \in [Player -> {"lock", "begin", "sleep", "wait", "turn", "ended"}]
  /\ ppI \in [Player -> 0 .. MAX_COUNT] /\ ppIdle \in 0 .. MaxIdle

\* Without a wake-up by nobody ping and pong alternate, ping first.
InTurn == ppIdle = 0 => ppI["ping"] - ppI["pong"] \in {0, 1}

\* Without a wake-up by nobody a signal always has somebody to wake, except that
\* of pong's last turn: none is lost.
NoSignalIsLost ==
  ppIdle = 0 => \A p \in Player : ppPc[p] = "turn" =>
    Other(p) \in thr_cond \/ (p = "pong" /\ ppI["pong"] + 1 = MAX_COUNT)

\* Each wake-up by nobody puts the two at most one turn further out of step.
AtMostOneTurnEach == ppI["pong"] - ppI["ping"] <= ppIdle /\ ppI["ping"] - ppI["pong"] <= ppIdle + 1

\* Both play to the end, unless there was a wake-up by nobody.
GameEnds == <>(ppIdle > 0 \/ \A p \in Player : ppPc[p] = "ended" /\ ppI[p] = MAX_COUNT)

\* The safety of ping_pong.c: the game keeps its order as far as nobody wakes up by
\* itself, and gets out of it by one turn for each time somebody does.
PingPongInv == GameTypeOK /\ InTurn /\ NoSignalIsLost /\ AtMostOneTurnEach
-----------------------------------------------------------------------------

(***************************************************************************)
(* Fixed/NoBug2/cpap2psg.c: each channel has a thread that reads numbers   *)
(* from a FIFO and writes one to the converter per tick; the ticks are     *)
(* signalled to the channels in turn, every 40 ms.  The wait for a tick    *)
(* has no predicate.                                                       *)
(*                                                                         *)
(* The mutexes and conditions are initialised by the thread of the ticks,  *)
(* and main() creates the threads of the channels a second after it.       *)
(* Nothing but the second keeps a channel from waiting before that: the    *)
(* new condition does not know of it.  Before, the mutex is static memory  *)
(* of zeros, which is an initialised mutex on Linux.  The FIFOs and the    *)
(* converter are external: numbers come for ever, in buffers of at most    *)
(* MaxNumbers; those that are no numbers are left out by the thread.       *)
(***************************************************************************)
CONSTANTS MAX_CHANNEL,    \* 6
          MaxNumbers      \* in a buffer (a bound)

ASSUME TickAssumption == MAX_CHANNEL \in Nat \ {0} /\ MaxNumbers \in Nat \ {0}

Channel == 1 .. MAX_CHANNEL

VARIABLES mutexTick, condTick,      \* of each channel
          tickPc, tickChannel,      \* the thread of the ticks
          created,                  \* channels whose thread main() has created
          tcPc, numbers,              \* of each channel: its thread, numbers in the buffer
          ticked,           \* history: channels woken since their last number
          forgotten         \* history: channels asleep on a condition initialised again

ticks == <<mutexTick, condTick, tickPc, tickChannel>>
tickVars  == <<ticks, created, tcPc, numbers, ticked, forgotten>>

Sleeper == "channel"        \* the only thread that waits for a channel's tick

TickInit ==
  /\ mutexTick = [c \in Channel |-> NoThread] /\ condTick = [c \in Channel |-> {}]
  /\ tickPc = "init" /\ tickChannel = 1 /\ created = {}
  /\ tcPc = [c \in Channel |-> "none"] /\ numbers = [c \in Channel |-> 0]
  /\ ticked = Channel /\ forgotten = {}

TickGoto(c, label) == tcPc' = [tcPc EXCEPT ![c] = label]
OfChannel(f, c, x) == f' = [f EXCEPT ![c] = x]
-----------------------------------------------------------------------------
\* The loop of main(): the threads that there are not yet.
Create ==
  /\ created # Channel
  /\ \E c \in Channel \ created : created' = created \cup {c} /\ TickGoto(c, "open")
  /\ UNCHANGED <<ticks, numbers, ticked, forgotten>>

NextChannel == IF tickChannel < MAX_CHANNEL THEN tickChannel + 1 ELSE 1

InitChannel ==
  /\ tickPc = "init" /\ tickChannel' = NextChannel
  /\ OfChannel(mutexTick, tickChannel, NoThread) /\ OfChannel(condTick, tickChannel, {})
  /\ forgotten' = IF condTick[tickChannel] = {} THEN forgotten ELSE forgotten \cup {tickChannel}
  /\ tickPc' = IF tickChannel = MAX_CHANNEL THEN "lock" ELSE "init"
  /\ UNCHANGED <<created, tcPc, numbers, ticked>>

TickLock ==
  /\ tickPc = "lock" /\ mutexTick[tickChannel] = NoThread
  /\ OfChannel(mutexTick, tickChannel, "ticks") /\ tickPc' = "signal"
  /\ UNCHANGED <<condTick, tickChannel, created, tcPc, numbers, ticked, forgotten>>

Awoken(c) == IF condTick[c] = {} THEN ticked ELSE ticked \cup {c}

\* BUG: the last channel is left out.
BugSignalled == tickChannel < MAX_CHANNEL

Signalled == tickChannel <= MAX_CHANNEL

Tick ==
  /\ tickPc = "signal" /\ tickPc' = "lock" /\ tickChannel' = NextChannel
  /\ OfChannel(mutexTick, tickChannel, NoThread)
  /\ IF Signalled THEN OfChannel(condTick, tickChannel, {}) /\ ticked' = Awoken(tickChannel)
                  ELSE UNCHANGED <<condTick, ticked>>
  /\ UNCHANGED <<created, tcPc, numbers, forgotten>>

functionTickGenerator == InitChannel \/ TickLock \/ Tick
-----------------------------------------------------------------------------
\* The FIFO is opened, or the thread ends and main() does not create it again.
Open(c) ==
  /\ tcPc[c] = "open" /\ (TickGoto(c, "read") \/ TickGoto(c, "ended"))
  /\ UNCHANGED <<ticks, created, numbers, ticked, forgotten>>

\* Numbers are read; a read of nothing is no step.
Read(c) ==
  /\ tcPc[c] = "read" /\ TickGoto(c, "write")
  /\ \E k \in 1 .. MaxNumbers : numbers' = [numbers EXCEPT ![c] = k]
  /\ UNCHANGED <<ticks, created, ticked, forgotten>>

AfterWrite(c) == "lock"

\* writeDAC.
Write(c) ==
  /\ tcPc[c] = "write" /\ ticked' = ticked \ {c} /\ TickGoto(c, AfterWrite(c))
  /\ UNCHANGED <<ticks, created, numbers, forgotten>>

\* waitTick: lock and sleep, then lock and unlock.
WaitTick(c) ==
  /\ tcPc[c] = "lock" /\ mutexTick[c] = NoThread
  /\ OfChannel(condTick, c, {Sleeper}) /\ TickGoto(c, "asleep")
  /\ UNCHANGED <<mutexTick, tickPc, tickChannel, created, numbers, ticked, forgotten>>

Awake(c) ==
  /\ tcPc[c] = "asleep" /\ condTick[c] = {} /\ c \notin forgotten /\ mutexTick[c] = NoThread
  /\ TickGoto(c, "next")
  /\ UNCHANGED <<mutexTick, condTick, tickPc, tickChannel, created, numbers, ticked, forgotten>>

Next_(c) ==
  /\ tcPc[c] = "next" /\ numbers' = [numbers EXCEPT ![c] = @ - 1]
  /\ TickGoto(c, IF numbers[c] = 1 THEN "read" ELSE "write")
  /\ UNCHANGED <<ticks, created, ticked, forgotten>>

functionFIFO2DA(c) == Open(c) \/ Read(c) \/ Write(c) \/ WaitTick(c) \/ Awake(c) \/ Next_(c)

TickSpuriousWakeup ==
  /\ \E c \in Channel :
       condTick[c] # {} /\ OfChannel(condTick, c, {}) /\ ticked' = ticked \cup {c}
  /\ UNCHANGED <<mutexTick, tickPc, tickChannel, created, tcPc, numbers, forgotten>>

TickNext ==
  Create \/ functionTickGenerator \/ TickSpuriousWakeup \/ \E c \in Channel : functionFIFO2DA(c)

TickSpec == TickInit /\ [][TickNext]_tickVars

\* The ticks never stop, and the channels get their mutex between two of them.
TickFairSpec ==
  /\ TickSpec /\ WF_tickVars(Create) /\ SF_tickVars(functionTickGenerator)
  /\ \A c \in Channel : SF_tickVars(functionFIFO2DA(c))
-----------------------------------------------------------------------------
TickTypeOK ==
  /\ mutexTick \in [Channel -> {"ticks", NoThread}] /\ condTick \in [Channel -> {{}, {Sleeper}}]
  /\ tickPc \in {"init", "lock", "signal"} /\ tickChannel \in Channel /\ created \subseteq Channel
  /\ tcPc \in [Channel -> {"none", "open", "read", "write", "lock", "asleep", "next", "ended"}]
  /\ numbers \in [Channel -> 0 .. MaxNumbers]
  /\ ticked \subseteq Channel /\ forgotten \subseteq Channel
  /\ \A c \in Channel : mutexTick[c] = "ticks" => c = tickChannel

\* No two numbers of a channel are written without a tick, or a wake-up that is taken
\* for one, between them: not even the last of a buffer and the first of the next.
OneNumberPerTick == \A c \in Channel : tcPc[c] = "write" => c \in ticked

\* A channel waits for ever only if its condition has been initialised under it.
EveryWaitEnds == \A c \in Channel : tcPc[c] = "asleep" ~> tcPc[c] # "asleep" \/ c \in forgotten

\* The safety of cpap2psg.c: each number that is written has a tick of its own.
TicksInv == TickTypeOK /\ OneNumberPerTick

\* Whose turn it is: the letters come in turn; ping and pong alternate as far as nobody
\* wakes up by itself; one number is taken with each tick.
TurnsInv == RelayInv /\ PingPongInv /\ TicksInv
=============================================================================
