---------------------------- MODULE MCHandshakes ----------------------------
(***************************************************************************)
(* The programs whose threads wait for each other, for TLC.  The benchmark *)
(* runs one program at a time: program says which, and the state of the    *)
(* others stays what it is.                                                *)
(*                                                                         *)
(* Three creatures, one of each colour, meet three times; three workers    *)
(* share a length of five; the devices are timed ten times and once;       *)
(* the letters go round twice; ping and pong count to four; two channels   *)
(* get their ticks, for buffers of at most two numbers; three lines are    *)
(* typed, and three numbers sorted.                                        *)
(***************************************************************************)
EXTENDS Chameneos, TakingTurns, Answers, Measuring, TLC

CONSTANTS c1, c2, c3, w1, w2, w3

MCCreature    == {c1, c2, c3}
MCStartColors == {(c1 :> "blue") @@ (c2 :> "red") @@ (c3 :> "yellow")}
MCWorker      == {w1, w2, w3}
MCIndex       == (w1 :> 0) @@ (w2 :> 1) @@ (w3 :> 2)

VARIABLE program

allVars == <<program, vars, perfVars, releaseVars, relayVars, gameVars, astVars, remoteVars,
             tickVars, textVars, sortVars, execVars>>

\* The options of asttest.c are left at FALSE, and the memory of 06mutex.c at 0, while
\* another program runs.
HandshakesInit ==
  /\ program \in {"chameneosredux.c", "perf_index.c", "semaphore_mutex_release.c", "10practice.c",
                  "ping_pong.c", "asttest.c", "ir_event.c", "cpap2psg.c", "124mutex.c",
                  "06mutex.c", "pth_condition_variable.c"}
  /\ program # "06mutex.c" => arr = [k \in 0 .. 2 |-> 0]
  /\ Init /\ PerfInit /\ ReleaseInit /\ RelayInit /\ GameInit
  /\ TickInit /\ AstInit /\ RemoteInit /\ WaitInit
  /\ TextInit /\ SortInit
  /\ program # "asttest.c" => ~ use_threads /\ ~ do_unlock

\* Steps of one program.
CreaturesRun ==
  /\ program = "chameneosredux.c"
  /\ UNCHANGED <<program, perfVars, releaseVars, relayVars, gameVars, astVars,
                  remoteVars, tickVars, textVars, sortVars, execVars>>
PerfRuns ==
  /\ program = "perf_index.c"
  /\ UNCHANGED <<program, vars, releaseVars, relayVars, gameVars, astVars,
                  remoteVars, tickVars, textVars, sortVars, execVars>>
ReleaseRuns ==
  /\ program = "semaphore_mutex_release.c"
  /\ UNCHANGED <<program, vars, perfVars, relayVars, gameVars, astVars,
                  remoteVars, tickVars, textVars, sortVars, execVars>>
LettersRun ==
  /\ program = "10practice.c"
  /\ UNCHANGED <<program, vars, perfVars, releaseVars, gameVars, astVars,
                  remoteVars, tickVars, textVars, sortVars, execVars>>
GameRuns ==
  /\ program = "ping_pong.c"
  /\ UNCHANGED <<program, vars, perfVars, releaseVars, relayVars, astVars,
                  remoteVars, tickVars, textVars, sortVars, execVars>>
AstRuns ==
  /\ program = "asttest.c"
  /\ UNCHANGED <<program, vars, perfVars, releaseVars, relayVars, gameVars,
                  remoteVars, tickVars, textVars, sortVars, execVars>>
RemoteRuns ==
  /\ program = "ir_event.c"
  /\ UNCHANGED <<program, vars, perfVars, releaseVars, relayVars, gameVars,
                  astVars, tickVars, textVars, sortVars, execVars>>
TicksRun ==
  /\ program = "cpap2psg.c"
  /\ UNCHANGED <<program, vars, perfVars, releaseVars, relayVars, gameVars,
                  astVars, remoteVars, textVars, sortVars, execVars>>
LinesRun ==
  /\ program = "124mutex.c"
  /\ UNCHANGED <<program, vars, perfVars, releaseVars, relayVars, gameVars,
                  astVars, remoteVars, tickVars, sortVars, execVars>>
SortingRuns ==
  /\ program = "06mutex.c"
  /\ UNCHANGED <<program, vars, perfVars, releaseVars, relayVars, gameVars,
                  astVars, remoteVars, tickVars, textVars, execVars>>
ExecutionRuns ==
  /\ program = "pth_condition_variable.c"
  /\ UNCHANGED <<program, vars, perfVars, releaseVars, relayVars, gameVars,
                  astVars, remoteVars, tickVars, textVars, sortVars>>

HandshakesNext ==
  \/ CreaturesRun /\ Next
  \/ PerfRuns /\ PerfNext
  \/ ReleaseRuns /\ ReleaseNext
  \/ LettersRun /\ RelayNext
  \/ GameRuns /\ GameNext
  \/ AstRuns /\ AstNext
  \/ RemoteRuns /\ RemoteNext
  \/ TicksRun /\ TickNext
  \/ LinesRun /\ TextNext
  \/ SortingRuns /\ SortNext
  \/ ExecutionRuns /\ WaitNext

\* The fairness of each module.  As program never changes, to be fair to one action
\* of each program together is to be fair to each of them.
Strong1 ==
  \/ LettersRun /\ handler("A")
  \/ GameRuns /\ thread_ping
  \/ RemoteRuns /\ remoteMain
  \/ TicksRun /\ functionTickGenerator
  \/ LinesRun /\ input
  \/ SortingRuns /\ func
Strong2 ==
  \/ LettersRun /\ handler("B")
  \/ RemoteRuns /\ monitor
  \/ TicksRun /\ functionFIFO2DA(1)
  \/ LinesRun /\ thread_function
Strong3 ==
  \/ LettersRun /\ handler("C")
  \/ TicksRun /\ functionFIFO2DA(2)
Weak1 ==
  \/ CreaturesRun /\ run_the_meetings
  \/ PerfRuns /\ perfMain
  \/ ReleaseRuns /\ keeper
  \/ GameRuns /\ thread_pong
  \/ AstRuns /\ astMain
  \/ TicksRun /\ Create
  \/ SortingRuns /\ SortNext
  \/ ExecutionRuns /\ (ExecCreate \/ Exit)
Weak2 ==
  \/ CreaturesRun /\ creature(c1)
  \/ PerfRuns /\ thread_setup(w1)
  \/ ReleaseRuns /\ semaphore_mutex_not_empty
  \/ AstRuns /\ ast_routine
  \/ ExecutionRuns /\ execute("first")
Weak3 ==
  \/ CreaturesRun /\ creature(c2)
  \/ PerfRuns /\ thread_setup(w2)
  \/ ExecutionRuns /\ execute("second")
Weak4 == (CreaturesRun /\ creature(c3)) \/ (PerfRuns /\ thread_setup(w3))

HandshakesSpec ==
  /\ HandshakesInit /\ [][HandshakesNext]_allVars
  /\ SF_allVars(Strong1) /\ SF_allVars(Strong2) /\ SF_allVars(Strong3)
  /\ WF_allVars(Weak1) /\ WF_allVars(Weak2) /\ WF_allVars(Weak3) /\ WF_allVars(Weak4)

\* Everybody who waits is met, and the programs end; the exceptions are the hangs that
\* the modules name.  Each line that is typed is counted, and the time that perf_index.c
\* measures is that of all the work.
HandshakesEnd ==
  /\ program = "chameneosredux.c" => EverybodyGoesHome
  /\ program = "perf_index.c" => MainEnds /\ []AllWorkIsDone
  /\ program = "semaphore_mutex_release.c" => EndsOrHangs
  /\ program = "10practice.c" => AllHaveTheirTurns
  /\ program = "ping_pong.c" => GameEnds
  /\ program = "asttest.c" => EndsUnlessMissed
  /\ program = "ir_event.c" => EndsUnlessKept
  /\ program = "cpap2psg.c" => EveryWaitEnds
  /\ program = "124mutex.c" => LinesAreTaken
  /\ program = "06mutex.c" => SortEnds
  /\ program = "pth_condition_variable.c" => ExitsUnlessRace
=============================================================================
