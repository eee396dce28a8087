------------------------------ MODULE MCTotals ------------------------------
(***************************************************************************)
(* The programs whose threads count, measure or share data, for TLC.  The  *)
(* benchmark runs one program at a time: program says which module has the *)
(* one that is run, and the state of the others stays what it is.          *)
(*                                                                         *)
(* Of the workers of concurio.c, w0 has the id 0; on its own runs the      *)
(* function by which each of them takes its times.  hashInvertM.c has one  *)
(* filter of few ones and one of many.                                     *)
(***************************************************************************)
EXTENDS Totals, SharedData, Timing, BloomSet

CONSTANTS w0, w1, w2     \* workers

VARIABLE program

\* The variables of SharedData; and those of Concurio, Timing and BloomSet.
sharedVars   == <<announcementVars, recordVars, tableVars, wordVars, modeVars>>
measuredVars == <<concurioVars, timevalVars, sleepVars, bloomVars>>
allVars      == <<program, counterVars, joinVars, sharedVars, measuredVars>>
-----------------------------------------------------------------------------
\* Two threads, or more where the program has more: four in 5.c, which is all.
MCThreads ==
  [s \in Sources |->
     CASE s = "5.c" -> 4
       [] s \in {"010_mutex_array_sum.c", "withmutex.c", "tp5_2.c", "pth_mutex2.c"} -> 3
       [] OTHER -> 2]

MCTimes == [s \in Looping |-> IF s = "shared_data_mutex.c" THEN 3 ELSE 2]

MCChecked == <<"id", "department", "root_number">>

\* Seconds of three microseconds to subtract from.
MCStartTimes == [sec : {0}, usec : 0 .. 2]
MCReadings   == [sec : 0 .. 2, usec : 0 .. 2]

\* Two words of M; the vertices 1 and 2 are in the first, 3 and 4 in the second.
FewOnes  == [ones |-> <<1, 0, 1>>, vertices |-> <<<<1, 2>>, <<1, 4>>, <<3>>>>]
ManyOnes == [ones |-> <<2, 1, 1>>, vertices |-> <<<<1, 2>>, <<>>, <<3, 2>>>>]

MCWordOf  == <<1, 1, 2, 2>>
MCFilters == {FewOnes, ManyOnes}

ASSUME CountersAssumption /\ ForkJoinAssumption
-----------------------------------------------------------------------------
\* What may be chosen at the start of a program is fixed while another is run.
TotalsInit ==
  /\ program \in {"counters", "announcements", "records", "hash table", "word lists",
                  "mode_extra", "fork and join", "workers", "times", "sleep",
                  "filter"}
  /\ program # "counters" => source = "5.c"
  /\ program # "announcements" => telling = "02test.c"
  /\ program # "records" => kept = "023_sync_mutex.c"
  /\ program # "hash table" => keys = [j \in 0 .. 3 |-> 0]
  /\ program # "word lists" => addresses = <<0, 0, 0>>
  /\ program # "fork and join" => work = "fibonacci"
  /\ program # "sleep" => locks = FALSE /\ slSec = 0 /\ nanosec = 0 /\ slClock = 0
  /\ CountersInit /\ ForkInit
  /\ TellingInit /\ RecordsInit /\ TableInit /\ WordsInit
  /\ ModeInit /\ ConcurioInit /\ BloomInit
  /\ TimevalInit /\ SleepInit
  /\ program # "times" => start.usec = 0 /\ \A w \in TimeWorker : x[w] = start
  /\ program # "filter" => filter = FewOnes

\* Steps of one program.
CountersRun ==
  /\ program = "counters"
  /\ UNCHANGED <<program, joinVars, sharedVars, measuredVars>>
DivisionRuns ==
  /\ program = "fork and join"
  /\ UNCHANGED <<program, counterVars, sharedVars, measuredVars>>
SharedRun(p) ==
  /\ program = p
  /\ UNCHANGED <<program, counterVars, joinVars, measuredVars>>
MeasuredRun(p) ==
  /\ program = p
  /\ UNCHANGED <<program, counterVars, joinVars, sharedVars>>

TellingRuns ==
  SharedRun("announcements") /\ UNCHANGED <<recordVars, tableVars, wordVars, modeVars>>
RecordsRun ==
  SharedRun("records") /\ UNCHANGED <<announcementVars, tableVars, wordVars, modeVars>>
BucketsRun ==
  SharedRun("hash table") /\ UNCHANGED <<announcementVars, recordVars, wordVars, modeVars>>
LookupsRun ==
  SharedRun("word lists") /\ UNCHANGED <<announcementVars, recordVars, tableVars, modeVars>>
GameRuns ==
  SharedRun("mode_extra") /\ UNCHANGED <<announcementVars, recordVars, tableVars, wordVars>>

WorkersRun  == MeasuredRun("workers")     /\ UNCHANGED <<timevalVars, sleepVars, bloomVars>>
TimesRun    == MeasuredRun("times")       /\ UNCHANGED <<concurioVars, sleepVars, bloomVars>>
SleepRuns   == MeasuredRun("sleep")       /\ UNCHANGED <<concurioVars, timevalVars, bloomVars>>
FilterRun   == MeasuredRun("filter")      /\ UNCHANGED <<concurioVars, timevalVars, sleepVars>>

TotalsNext ==
  \/ CountersRun /\ CountersNext
  \/ DivisionRuns /\ ForkNext
  \/ TellingRuns /\ TellingNext
  \/ RecordsRun /\ RecordsNext
  \/ BucketsRun /\ TableNext
  \/ LookupsRun /\ WordsNext
  \/ GameRuns /\ ModeNext
  \/ WorkersRun /\ ConcurioNext
  \/ TimesRun /\ TimevalNext
  \/ SleepRuns /\ SleepNext
  \/ FilterRun /\ BloomNext

\* The fairness of Totals, Concurio, Timing and BloomSet.  As program
\* never changes, to be fair to one action of each together is to be fair to each of them;
\* there are four threads at most.
Weak1 ==
  \/ CountersRun /\ Again
  \/ DivisionRuns /\ Step
  \/ FilterRun /\ Reconstruct
  \/ SleepRuns /\ thr_sleep
Weak2 ==
  \/ CountersRun /\ 0 \in Thread /\ run(0)
  \/ FilterRun /\ CountMembers
  \/ SleepRuns /\ Tick
Weak3 ==
  \/ CountersRun /\ 1 \in Thread /\ run(1)
  \/ FilterRun /\ worker(w1)
Weak4 ==
  \/ CountersRun /\ 2 \in Thread /\ run(2)
  \/ FilterRun /\ worker(w2)
Weak5 == CountersRun /\ 3 \in Thread /\ run(3)

TotalsSpec ==
  /\ TotalsInit /\ [][TotalsNext]_allVars
  /\ WF_allVars(Weak1) /\ WF_allVars(Weak2) /\ WF_allVars(Weak3) /\ WF_allVars(Weak4)
  /\ WF_allVars(Weak5)
  /\ \A w \in {w0, w1, w2} : SF_allVars(WorkersRun /\ worker_run(w))
-----------------------------------------------------------------------------
\* The results: sums and extremes, and those of threads that divide the work among
\* threads they create.
TotalsInv == CountersInv /\ ForkJoinInv

\* All threads come to their end, although those that divide the work wait for each
\* other; the workers of concurio.c miss no announcement; and every call of thr_sleep() returns.
TotalsEnd ==
  /\ program = "counters" => CountersEnd
  /\ program = "fork and join" => ForkJoinEnds
  /\ program = "workers" => AllWorkersEnd
  /\ program = "filter" => BloomEnds
  /\ program = "sleep" => SleepEnds
=============================================================================
