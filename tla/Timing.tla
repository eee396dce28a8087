------------------------------- MODULE Timing -------------------------------
(***************************************************************************)
(* Two functions that do arithmetic with times: timeval_subtract() of      *)
(* concurio.c, whose workers are those of Concurio, and thr_sleep() of     *)
(* helper.c.  Each has its own variables, Init, Next and properties; a run *)
(* moves one of them.                                                      *)
(***************************************************************************)
EXTENDS Concurio

(***************************************************************************)
(* Fixed/NoBug1/concurio.c: timeval_subtract(result, x, y) moves whole     *)
(* seconds between the two fields of *y before it subtracts, statement by  *)
(* statement.  With -a, y is &asbolute_start, which all workers share and  *)
(* no mutex guards; without, y is the caller's own.                        *)
(*                                                                         *)
(* Each worker measures once; x is the time it took, later than the start. *)
(* The division of C truncates towards zero; both are of numbers > 0 here. *)
(***************************************************************************)
CONSTANTS TimeWorker,    \* the workers that subtract from the same y
          Micro,         \* microseconds in a second (1000000)
          StartTimes,    \* what gettimeofday may have stored in y
          Times          \* what it may store in x

ASSUME TimevalAssumption ==
  /\ TimeWorker \subseteq Worker /\ Micro \in Nat \ {0}
  /\ StartTimes \subseteq [sec : Nat, usec : 0 .. Micro - 1]
  /\ Times \subseteq [sec : Nat, usec : 0 .. Micro - 1]

VARIABLES start, y, x, nsec, tvResult, tvPc

timevalVars == <<start, y, x, nsec, tvResult, tvPc>>

Instant(v) == v.sec * Micro + v.usec

TimevalInit ==
  /\ start \in StartTimes /\ y = start
  /\ x \in [TimeWorker -> {v \in Times : Instant(v) >= Instant(start)}]
  /\ nsec = [w \in TimeWorker |-> 0]
  /\ tvResult = [w \in TimeWorker |-> [sec |-> 0, usec |-> 0]]
  /\ tvPc = [w \in TimeWorker |-> "test_borrow"]

TimevalGoto(w, label) == tvPc' = [tvPc EXCEPT ![w] = label]
-----------------------------------------------------------------------------

TestBorrow(w) ==
  /\ tvPc[w] = "test_borrow"
  /\ IF x[w].usec < y.usec
     THEN nsec' = [nsec EXCEPT ![w] = (y.usec - x[w].usec) \div Micro + 1]
          /\ TimevalGoto(w, "borrow")
     ELSE nsec' = nsec /\ TimevalGoto(w, "test_carry")
  /\ UNCHANGED <<start, y, x, tvResult>>

Borrow(w) ==
  /\ tvPc[w] = "borrow"
  /\ y' = [y EXCEPT !.usec = @ - Micro * nsec[w]]
  /\ TimevalGoto(w, "borrowed")
  /\ UNCHANGED <<start, x, nsec, tvResult>>

Borrowed(w) ==
  /\ tvPc[w] = "borrowed"
  /\ y' = [y EXCEPT !.sec = @ + nsec[w]]
  /\ TimevalGoto(w, "test_carry")
  /\ UNCHANGED <<start, x, nsec, tvResult>>

TestCarry(w) ==
  /\ tvPc[w] = "test_carry"
  /\ IF x[w].usec - y.usec > Micro
     THEN nsec' = [nsec EXCEPT ![w] = (x[w].usec - y.usec) \div Micro] /\ TimevalGoto(w, "carry")
     ELSE nsec' = nsec /\ TimevalGoto(w, "subtract")
  /\ UNCHANGED <<start, y, x, tvResult>>

Carry(w) ==
  /\ tvPc[w] = "carry"
  /\ y' = [y EXCEPT !.usec = @ + Micro * nsec[w]]
  /\ TimevalGoto(w, "carried")
  /\ UNCHANGED <<start, x, nsec, tvResult>>

Carried(w) ==
  /\ tvPc[w] = "carried"
  /\ y' = [y EXCEPT !.sec = @ - nsec[w]]
  /\ TimevalGoto(w, "subtract")
  /\ UNCHANGED <<start, x, nsec, tvResult>>

Subtract(w) ==
  /\ tvPc[w] = "subtract"
  /\ tvResult' = [tvResult EXCEPT ![w] = [sec |-> x[w].sec - y.sec, usec |-> x[w].usec - y.usec]]
  /\ TimevalGoto(w, "done")
  /\ UNCHANGED <<start, y, x, nsec>>

timeval_subtract(w) ==
  \/ TestBorrow(w) \/ Borrow(w) \/ Borrowed(w)
  \/ TestCarry(w) \/ Carry(w) \/ Carried(w) \/ Subtract(w)

\* The same worker measures again, later: y is as it was left.
MeasureAgain(w) ==
  /\ tvPc[w] = "done"
  /\ \E v \in Times : Instant(v) >= Instant(x[w]) /\ x' = [x EXCEPT ![w] = v]
  /\ TimevalGoto(w, "test_borrow")
  /\ UNCHANGED <<start, y, nsec, tvResult>>

TimevalNext == \E w \in TimeWorker : timeval_subtract(w) \/ MeasureAgain(w)

TimevalSpec == TimevalInit /\ [][TimevalNext]_timevalVars
-----------------------------------------------------------------------------
TimevalTypeOK ==
  /\ start \in StartTimes
  /\ y \in [sec : Nat, usec : Int]
  /\ x \in [TimeWorker -> Times]
  /\ nsec \in [TimeWorker -> Nat]
  /\ tvResult \in [TimeWorker -> [sec : Int, usec : Int]]
  /\ tvPc \in [TimeWorker -> {"test_borrow", "borrow", "borrowed", "test_carry", "carry",
                        "carried", "subtract", "done"}]

\* What a worker records is the time between the start and its measurement.
DifferenceIsRight ==
  \A w \in TimeWorker : tvPc[w] = "done" => Instant(tvResult[w]) = Instant(x[w]) - Instant(start)

\* The microseconds of a result are not negative.
MicrosecondsAreNotNegative ==
  \A w \in TimeWorker : tvPc[w] = "done" => tvResult[w].usec \in 0 .. Micro

\* The safety of timeval_subtract for a caller with times of its own: the difference is
\* the difference, in microseconds that fit their field.
TimevalInv == TimevalTypeOK /\ DifferenceIsRight /\ MicrosecondsAreNotNegative
-----------------------------------------------------------------------------

(***************************************************************************)
(* helper.c: thr_sleep() sleeps on a condition that nobody signals, until  *)
(* an absolute time that it computes from the clock and from what it is    *)
(* asked for.  Mutex and condition are its own, so that one caller says    *)
(* all.  The copy under Faulty/ManyBugs does not take the mutex, and tests *)
(* the result of the missing call, which is not initialised.               *)
(*                                                                         *)
(* Times are in nanoseconds, of which a second has Second and a            *)
(* microsecond SleepMicro.  A wait until a time with tv_nsec of a second   *)
(* or more fails with EINVAL.  What is printed is left out.                *)
(***************************************************************************)
CONSTANTS Second, SleepMicro,  \* 1000000000 and 1000
          MaxSec, MaxNsec,     \* what is asked for at most (bounds)
          MaxClock             \* the clock stops there (a bound)

ASSUME ThrSleepAssumption ==
  /\ {Second, SleepMicro, Second \div SleepMicro} \subseteq Nat \ {0} /\ Second % SleepMicro = 0
  /\ {MaxSec, MaxNsec, MaxClock} \subseteq Nat
  /\ MaxClock >= Second + MaxSec * Second + MaxNsec

VARIABLES locks,              \* the mutex is taken
          slSec, nanosec,     \* asked for
          slClock, m, sleeper, slPlace, ts, retcode,
          began               \* history: the time when the clock was read

sleepVars == <<locks, slSec, nanosec, slClock, m, sleeper, slPlace, ts, retcode, began>>
asked     == <<locks, slSec, nanosec>>

\* The clock may be anywhere in its first second, and goes on once it is read.
SleepInit ==
  /\ locks \in BOOLEAN /\ slSec \in 0 .. MaxSec /\ nanosec \in 0 .. MaxNsec
  /\ slClock \in 0 .. Second - 1
  /\ m = NoThread /\ sleeper = {} /\ slPlace = "lock" /\ ts = [tv_sec |-> 0, tv_nsec |-> 0]
  /\ retcode = "none" /\ began = 0

TakeMutex ==
  /\ slPlace = "lock" /\ m' = (IF locks THEN "caller" ELSE m)
  /\ slPlace' \in (IF locks THEN {"compute"} ELSE {"compute", "done"})
  /\ UNCHANGED <<asked, slClock, sleeper, ts, retcode, began>>

\* gettimeofday() gives whole microseconds.
tv_usec == (slClock % Second) \div SleepMicro

\* BUG: nothing is carried over.
BugCarries(tv_nsec) == FALSE

Carries(tv_nsec) == tv_nsec > Second

Compute ==
  /\ slPlace = "compute" /\ slPlace' = "wait" /\ began' = slClock
  /\ LET tv_sec  == (slClock \div Second) + slSec + (nanosec \div Second)
         tv_nsec == tv_usec * SleepMicro + (nanosec % Second)
     IN  ts' = IF Carries(tv_nsec) THEN [tv_sec |-> tv_sec + 1, tv_nsec |-> tv_nsec - Second]
                                   ELSE [tv_sec |-> tv_sec, tv_nsec |-> tv_nsec]
  /\ UNCHANGED <<asked, slClock, m, sleeper, retcode>>

IsValid(tspec)  == tspec.tv_nsec < Second
Deadline(tspec) == tspec.tv_sec * Second + tspec.tv_nsec

\* The wait fails at once, and thr_sleep() returns with the mutex ...
WaitFails ==
  /\ slPlace = "wait" /\ ~IsValid(ts) /\ retcode' = "EINVAL" /\ slPlace' = "done"
  /\ UNCHANGED <<asked, slClock, m, sleeper, ts, began>>

\* ... or it begins, and ends in time or for no reason.
FallAsleep ==
  /\ slPlace = "wait" /\ IsValid(ts) /\ CondWait(sleeper, m, "caller") /\ slPlace' = "asleep"
  /\ UNCHANGED <<asked, slClock, ts, retcode, began>>

SleepWakeUp(code) ==
  /\ slPlace = "asleep" /\ sleeper' = {} /\ Lock(m, "caller") /\ slPlace' = "unlock"
  /\ retcode' = code /\ UNCHANGED <<asked, slClock, ts, began>>

TimeOut == slClock >= Deadline(ts) /\ SleepWakeUp("ETIMEDOUT")
SleepSpuriousWakeup == SleepWakeUp("early")

\* Without its lock the copy gives back no mutex either.
GiveMutex ==
  /\ slPlace = "unlock" /\ slPlace' = "done" /\ m' = (IF locks THEN NoThread ELSE m)
  /\ UNCHANGED <<asked, slClock, sleeper, ts, retcode, began>>

thr_sleep == TakeMutex \/ Compute \/ WaitFails \/ FallAsleep \/ TimeOut \/ GiveMutex

Tick ==
  /\ slPlace \notin {"lock", "compute"} /\ slClock < MaxClock /\ slClock' = slClock + 1
  /\ UNCHANGED <<asked, m, sleeper, slPlace, ts, retcode, began>>

Returned == slPlace = "done" /\ UNCHANGED sleepVars

SleepNext == thr_sleep \/ SleepSpuriousWakeup \/ Tick \/ Returned

SleepSpec == SleepInit /\ [][SleepNext]_sleepVars

SleepFairSpec == SleepSpec /\ WF_sleepVars(thr_sleep) /\ WF_sleepVars(Tick)
-----------------------------------------------------------------------------
SleepTypeOK ==
  /\ slClock \in 0 .. MaxClock /\ m \in {"caller", NoThread} /\ sleeper \subseteq {"caller"}
  /\ ts \in [tv_sec : Nat, tv_nsec : 0 .. 2 * Second - 1]

\* Whoever is woken by the clock has slept as long as was asked for, but for the part of a
\* microsecond that gettimeofday() does not show.
SleepsLongEnough ==
  retcode = "ETIMEDOUT" => slClock - began > slSec * Second + nanosec - SleepMicro

\* The sum of the two parts of a second is carried over unless it is a second exactly: then
\* the wait fails, nobody sleeps, and the mutex is left locked.
FailsOnTheSecond ==
  /\ retcode = "EINVAL" =>
       ((began % Second) \div SleepMicro) * SleepMicro + (nanosec % Second) = Second
  /\ slPlace = "done" /\ locks => (m = "caller" <=> retcode = "EINVAL")

\* The safety of thr_sleep().
ThrSleepInv == SleepTypeOK /\ SleepsLongEnough /\ FailsOnTheSecond

\* Every call returns.
SleepEnds == <>(slPlace = "done")
-----------------------------------------------------------------------------

\* The safety of concurio.c, of the times its workers take and of thr_sleep().
WorkersInv == ConcurioInv /\ TimevalInv /\ ThrSleepInv
=============================================================================
