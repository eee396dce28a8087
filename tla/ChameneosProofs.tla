-------------------------- MODULE ChameneosProofs ---------------------------
(***************************************************************************)
(* Chameneos, for every number of creatures and of meetings and all        *)
(* colours at the start: TypeOK, MeetingsAreMutual, SecondLookIsNotNeeded  *)
(* and SemaphoresAreBack are invariants, and the creatures meet as         *)
(* Rendezvous says.                                                        *)
(*                                                                         *)
(* TakingTurns, for every number of turns, of wake-ups by nobody, of       *)
(* channels and of numbers in a buffer: RelayInv, PingPongInv and TicksInv *)
(* are invariants of their programs, and with them TurnsInv.               *)
(*                                                                         *)
(* Answers, whatever is asked, typed or read and however often: AstInv,    *)
(* RemoteInv, WaitOrSignalInv, TextInputInv and InputSortInv are           *)
(* invariants of their programs, and with them AnswersInv.                 *)
(*                                                                         *)
(* Measuring, for every number of workers and all work, clocks, iterations *)
(* and phases: PerfInv and ReleaseInv are invariants of their programs,    *)
(* and with them MeasuredInv.                                              *)
(***************************************************************************)
EXTENDS Chameneos, TakingTurns, Answers, Measuring, FiniteSetTheorems, TLAPS

\* Who has been let in, and who of them has been met.
Holding == {c \in Creature : pc[c] \in {"look", "enter", "inside", "wait", "finish",
                                        "unlock", "let_in"}}
Meets(c) == \/ pc[c] = "wait" /\ sem_priv = 1
            \/ pc[c] \in {"finish", "unlock", "let_in"}

\* main() and the creatures are where they can be.
PlaceInv ==
  /\ pc["main"] \in {"create", "join", "returned"}
  /\ \A c \in Creature : pc[c] \in {"loop", "arrive", "look", "enter", "inside", "wait", "finish",
                                    "unlock", "let_in", "met", "print", "ended"}
  /\ pc["main"] = "returned" => \A c \in Creature : pc[c] = "ended"

\* at_most_two lets two in.  From a meeting on the first holds the place of the second
\* as well, until it lets the next two in: nobody else is there meanwhile.
TwoInv ==
  \/ at_most_two = 2 /\ Holding = {}
  \/ \E c \in Creature : at_most_two = 1 /\ Holding = {c} /\ ~ Meets(c)
  \/ \E c, d \in Creature : /\ c # d /\ at_most_two = 0 /\ Holding = {c, d}
                            /\ ~ Meets(c) /\ ~ Meets(d)
  \/ \E c \in Creature : at_most_two = 0 /\ Holding = {c} /\ Meets(c)

\* The mutex is taken by the one inside, and after a meeting by the first for both.
MutexInv ==
  /\ mutex = 0 <=> \E c \in Creature : pc[c] = "inside" \/ (Meets(c) /\ pc[c] # "let_in")
  /\ \A c, d \in Creature : pc[c] = "inside" /\ pc[d] = "inside" => c = d

\* The first waits with its name in A.
WaitInv ==
  /\ sem_priv = 1 => \E c \in Creature : pc[c] = "wait"
  /\ first_arrived <=> sem_priv = 0 /\ \E c \in Creature : pc[c] = "wait"
  /\ \A c \in Creature : pc[c] = "wait" => A.id = c /\ A.my_color = my_color[c]

\* From the meeting on the second knows the first, which knows it by B or by then itself.
Partner(c) == IF pc[c] \in {"wait", "finish"} THEN B.id ELSE other[c].id
PairInv ==
  \A c \in Creature : Meets(c) =>
    Partner(c) \in Creature /\ Partner(c) # c /\ other[Partner(c)].id = c

\* done is set with the last meeting, when nobody else is inside.
DoneInv ==
  /\ done <=> meetings_left = 0
  /\ \A c \in Creature : pc[c] \in {"enter", "inside", "wait", "finish"} => ~ done

\* The meetings that have taken place, and those of a creature.
TakenPlace == total_meetings_to_run - meetings_left + (IF TakingPlace THEN 1 ELSE 0)
MetBy(c)   == met[c] + (IF \/ pc[c] \in {"unlock", "let_in", "met"}
                           \/ TakingPlace /\ pc[c] \in {"wait", "finish"} THEN 1 ELSE 0)
CountInv   == \A c \in Creature : MetBy(c) <= TakenPlace

\* main() lets each creature report once.
Ended == {c \in Creature : pc[c] = "ended"}
PrintInv ==
  sem_print = IF pc["main"] = "create" THEN 0 - Cardinality(Ended)
              ELSE Cardinality(Creature) - Cardinality(Ended)

IInv == /\ TypeOK /\ PlaceInv /\ TwoInv /\ MutexInv /\ WaitInv /\ PairInv /\ DoneInv
        /\ CountInv /\ PrintInv
-----------------------------------------------------------------------------
\* Two creatures that meet come away with the same colour, whichever of them asks.
LEMMA ComplimentIs ==
  /\ \A a \in Color : \A b : compliment_color(a, b) \in Color
  /\ \A a, b \in Color : compliment_color(a, b) = compliment_color(b, a)
<1>1. ASSUME NEW a \in Color, NEW b PROVE compliment_color(a, b) \in Color
  <2>1. CASE a = b
    BY <2>1 DEF compliment_color
  <2>2. CASE a # b
    <3>1. \E c \in Color : c \notin {a, b}
      BY DEF Color
    <3>2. (CHOOSE c \in Color : c \notin {a, b}) \in Color
      BY <3>1
    <3> QED
      BY <2>2, <3>2 DEF compliment_color
  <2> QED
    BY <2>1, <2>2
<1>2. ASSUME NEW a \in Color, NEW b \in Color
      PROVE  compliment_color(a, b) = compliment_color(b, a)
  <2>1. CASE a = b
    BY <2>1
  <2>2. CASE a # b
    <3> DEFINE x == CHOOSE c \in Color : c \notin {a, b}
               y == CHOOSE c \in Color : c \notin {b, a}
    <3>1. \E c \in Color : c \notin {a, b}
      BY DEF Color
    <3>2. x \in Color /\ x \notin {a, b}
      BY <3>1
    <3>3. y \in Color /\ y \notin {b, a}
      BY <3>1
    <3>4. compliment_color(a, b) = x /\ compliment_color(b, a) = y
      BY <2>2 DEF compliment_color
    <3> HIDE DEF x, y
    <3> QED
      BY <2>2, <3>2, <3>3, <3>4 DEF Color
  <2> QED
    BY <2>1, <2>2
<1> QED
  BY <1>1, <1>2

\* A meeting is the first's alone; of two that have been let in neither is met.
LEMMA Alone ==
  ASSUME TwoInv, NEW c \in Creature, Meets(c)
  PROVE  at_most_two = 0 /\ Holding = {c}
<1>1. c \in Holding
  BY DEF Holding, Meets
<1> QED
  BY <1>1 DEF TwoInv

\* Two creatures that hold a place have used up the semaphore, and neither has met yet.
LEMMA TwoTogether ==
  ASSUME TwoInv, NEW c \in Holding, NEW d \in Holding, c # d
  PROVE  at_most_two = 0 /\ Holding = {c, d} /\ ~ Meets(c) /\ ~ Meets(d)
  BY DEF TwoInv

-----------------------------------------------------------------------------
\* At first nobody has asked for a place.
LEMMA InitInv == Init => IInv
<1> SUFFICES ASSUME Init PROVE IInv
  OBVIOUS
<1> USE ChameneosAssumption DEF Init, NoThread
<1>1. /\ Holding = {} /\ Ended = {} /\ Cardinality(Ended) = 0 /\ ~ TakingPlace
      /\ \A c \in Creature : pc[c] = "loop" /\ ~ Meets(c)
  <2>1. \A c \in Creature : pc[c] = "loop"
    OBVIOUS
  <2>2. Holding = {} /\ Ended = {} /\ ~ TakingPlace /\ \A c \in Creature : ~ Meets(c)
    BY <2>1 DEF Holding, Ended, TakingPlace, Meets
  <2> QED
    BY <2>1, <2>2, FS_EmptySet
<1>2. TypeOK
  <2>1. Cardinality(Creature) \in Nat
    BY FS_CardinalityType
  <2>2. my_color \in [Creature -> Color]
    OBVIOUS
  <2>3. A \in Slot /\ B \in Slot /\ other \in [Creature -> Slot]
    BY DEF Slot, Empty
  <2>4. /\ meetings_left \in 0 .. total_meetings_to_run /\ sem_print \in 0 .. Cardinality(Creature)
        /\ met \in [Creature -> 0 .. total_meetings_to_run]
    BY <2>1
  <2>5. pc \in [Creature \cup {"main"} ->
                {"create", "join", "returned", "loop", "arrive", "look", "enter", "inside", "wait",
                 "finish", "unlock", "let_in", "met", "print", "ended"}]
    OBVIOUS
  <2>6. at_most_two \in 0 .. 2 /\ mutex \in 0 .. 1 /\ sem_priv \in 0 .. 1
    OBVIOUS
  <2>7. first_arrived \in BOOLEAN /\ done \in BOOLEAN
    OBVIOUS
  <2> HIDE DEF Init
  <2> QED
    BY <2>1, <2>2, <2>3, <2>4, <2>5, <2>6, <2>7 DEF TypeOK
<1>3. PlaceInv /\ TwoInv /\ MutexInv /\ WaitInv
  BY <1>1 DEF PlaceInv, TwoInv, MutexInv, WaitInv
<1>4. PairInv /\ DoneInv
  BY <1>1 DEF PairInv, DoneInv
<1>5. CountInv /\ PrintInv
  BY <1>1 DEF CountInv, PrintInv, MetBy, TakenPlace
<1> QED
  BY <1>2, <1>3, <1>4, <1>5 DEF IInv

\* The steps of a creature and of run_the_meetings().
LEMMA Steps ==
  ASSUME [Next]_vars
  PROVE  \/ PostPrint \/ Join \/ UNCHANGED vars
         \/ \E c \in Creature :
              \/ Loop(c) \/ Arrive(c) \/ Look(c) \/ Enter(c) \/ First(c) \/ Second(c)
              \/ Wake(c) \/ Finish(c) \/ Unlock_(c) \/ LetIn(c) \/ Count(c) \/ Report(c)
  BY DEF Next, run_the_meetings, creature, Terminated

\* Every creature is at one place of the program.
LEMMA PlaceStep == TypeOK /\ PlaceInv /\ [Next]_vars => PlaceInv'
<1> SUFFICES ASSUME TypeOK, PlaceInv, [Next]_vars PROVE PlaceInv'
  OBVIOUS
<1> USE ChameneosAssumption DEF TypeOK, PlaceInv, Goto
<1>1. CASE PostPrint \/ Join \/ UNCHANGED vars
  BY <1>1 DEF PostPrint, Join, vars
<1>2. ASSUME NEW c \in Creature,
             Loop(c) \/ Arrive(c) \/ Look(c) \/ Enter(c) \/ First(c) \/ Second(c)
      PROVE  PlaceInv'
  BY <1>2 DEF Loop, Arrive, Look, Enter, First, Second
<1>3. ASSUME NEW c \in Creature,
             Wake(c) \/ Finish(c) \/ Unlock_(c) \/ LetIn(c) \/ Count(c) \/ Report(c)
      PROVE  PlaceInv'
  BY <1>3 DEF Wake, Finish, Unlock_, LetIn, Count, Report
<1> QED
  BY <1>1, <1>2, <1>3, Steps

\* What a step of a creature does to the places of the others: nothing.
LEMMA OnlyOneMoves ==
  ASSUME TypeOK, NEW c \in Creature, creature(c)
  PROVE  /\ pc'["main"] = pc["main"]
         /\ \A d \in Creature \ {c} : pc'[d] = pc[d]
  BY ChameneosAssumption
     DEF TypeOK, Goto, creature, Loop, Arrive, Look, Enter, First, Second, Wake, Finish,
         Unlock_, LetIn, Count, Report

\* One is let in when there is a place, and leaves a place behind.
LEMMA TwoStep == IInv /\ [Next]_vars => TwoInv'
<1> SUFFICES ASSUME IInv, [Next]_vars PROVE TwoInv'
  OBVIOUS
<1> USE ChameneosAssumption DEF IInv, TypeOK, Goto, sems, meeting, local
<1>1. CASE PostPrint \/ Join \/ UNCHANGED vars
  BY <1>1 DEF PostPrint, Join, vars, TwoInv, Holding, Meets
<1>2. ASSUME NEW c \in Creature, Loop(c) \/ Count(c) \/ Report(c) PROVE TwoInv'
  <2>1. /\ Holding' = Holding /\ at_most_two' = at_most_two /\ sem_priv' = sem_priv
    BY <1>2 DEF Loop, Count, Report, Holding
  <2>2. \A d \in Creature : Meets(d)' <=> Meets(d)
    BY <1>2, <2>1 DEF Loop, Count, Report, Meets
  <2> QED
    BY <2>1, <2>2 DEF TwoInv
<1>3. ASSUME NEW c \in Creature, Arrive(c) PROVE TwoInv'
  <2>1. /\ c \notin Holding /\ Holding' = Holding \cup {c} /\ sem_priv' = sem_priv
        /\ at_most_two > 0 /\ at_most_two' = at_most_two - 1
    BY <1>3 DEF Arrive, SemWait, Holding
  <2>2. ~ Meets(c)' /\ \A d \in Creature : Meets(d)' <=> Meets(d)
    BY <1>3, <2>1 DEF Arrive, Meets
  <2> QED
    BY <2>1, <2>2 DEF TwoInv
<1>4. ASSUME NEW c \in Creature, Look(c) \/ Enter(c) PROVE TwoInv'
  <2>1. /\ c \in Holding /\ sem_priv' = sem_priv /\ ~ Meets(c) /\ ~ Meets(c)'
        /\ \A d \in Creature : Meets(d)' <=> Meets(d)
    BY <1>4 DEF Look, Enter, Holding, Meets
  <2>2. CASE done
    <3>1. Holding' = Holding \ {c} /\ at_most_two' = at_most_two + 1
      BY <1>4, <2>2 DEF Look, Enter, SemPost, Holding
    <3> QED
      BY <2>1, <3>1 DEF TwoInv
  <2>3. CASE ~ done
    <3>1. Holding' = Holding /\ at_most_two' = at_most_two
      BY <1>4, <2>3 DEF Look, Enter, Holding
    <3> QED
      BY <2>1, <3>1 DEF TwoInv
  <2> QED
    BY <2>2, <2>3
<1>5. ASSUME NEW c \in Creature, First(c) PROVE TwoInv'
  <2>1. /\ c \in Holding /\ Holding' = Holding /\ at_most_two' = at_most_two
        /\ sem_priv' = sem_priv /\ ~ Meets(c)
    BY <1>5 DEF First, Holding, Meets
  <2>2. sem_priv = 0
    BY <1>5, <2>1, Alone DEF First, WaitInv, Meets
  <2>3. \A d \in Creature : Meets(d)' <=> Meets(d)
    BY <1>5, <2>1, <2>2 DEF First, Meets
  <2> QED
    BY <2>1, <2>3 DEF TwoInv
<1>6. ASSUME NEW c \in Creature, Second(c) PROVE TwoInv'
  <2>1. PICK f \in Creature : pc[f] = "wait" /\ sem_priv = 0 /\ f # c
    BY <1>6 DEF Second, WaitInv
  <2>2. at_most_two = 0 /\ Holding = {c, f}
    BY <1>6, <2>1, TwoTogether DEF Second, Holding
  <2>3. Holding' = {f} /\ at_most_two' = 0 /\ Meets(f)'
    BY <1>6, <2>1, <2>2 DEF Second, SemPost, Holding, Meets
  <2> QED
    BY <2>3 DEF TwoInv
<1>7. ASSUME NEW c \in Creature, Wake(c) \/ Finish(c) \/ Unlock_(c) PROVE TwoInv'
  <2>1. Meets(c) /\ Meets(c)' /\ Holding' = Holding /\ at_most_two' = at_most_two
    BY <1>7 DEF Wake, SemWait, Finish, Unlock_, Holding, Meets
  <2> QED
    BY <2>1, Alone DEF TwoInv
<1>8. ASSUME NEW c \in Creature, LetIn(c) PROVE TwoInv'
  <2>1. at_most_two = 0 /\ Holding = {c}
    BY <1>8, Alone DEF LetIn, Meets
  <2>2. Holding' = {} /\ at_most_two' = 2
    BY <1>8, <2>1 DEF LetIn, Holding
  <2> QED
    BY <2>2 DEF TwoInv
<1> QED
  BY <1>1, <1>2, <1>3, <1>4, <1>5, <1>6, <1>7, <1>8, Steps

\* The mutex changes hands: to the one inside, back, or from the second to the first.
LEMMA MutexStep == IInv /\ [Next]_vars => MutexInv'
<1> SUFFICES ASSUME IInv, [Next]_vars PROVE MutexInv'
  OBVIOUS
<1> USE ChameneosAssumption DEF IInv, TypeOK, Goto, sems, meeting, local
<1>1. CASE PostPrint \/ Join \/ UNCHANGED vars
  BY <1>1 DEF PostPrint, Join, vars, MutexInv, Meets
<1>2. ASSUME NEW c \in Creature,
             Loop(c) \/ Count(c) \/ Report(c) \/ Arrive(c) \/ Look(c)
      PROVE  MutexInv'
  <2>1. mutex' = mutex /\ sem_priv' = sem_priv
    BY <1>2 DEF Loop, Count, Report, Arrive, Look
  <2>2. pc[c] \notin {"inside", "wait", "finish", "unlock", "let_in"}
        /\ pc'[c] \notin {"inside", "wait", "finish", "unlock", "let_in"}
    BY <1>2 DEF Loop, Count, Report, Arrive, Look
  <2>3. \A d \in Creature \ {c} : pc'[d] = pc[d]
    BY <1>2, OnlyOneMoves DEF creature
  <2> QED
    BY <2>1, <2>2, <2>3 DEF MutexInv, Meets
<1>3. ASSUME NEW c \in Creature, Enter(c) PROVE MutexInv'
  BY <1>3 DEF Enter, SemWait, MutexInv, Meets
<1>4. ASSUME NEW c \in Creature, First(c) PROVE MutexInv'
  <2>1. /\ c \in Holding /\ ~ Meets(c)
    BY <1>4 DEF First, Holding, Meets
  <2>2. sem_priv = 0 /\ \A d \in Creature : ~ Meets(d)
    BY <1>4, <2>1, Alone DEF First, WaitInv, Meets
  <2>3. mutex = 0
    BY <1>4 DEF First, MutexInv
  <2>4. mutex' = 1 /\ \A d \in Creature : pc'[d] # "inside" /\ ~ Meets(d)'
    BY <1>4, <2>2, <2>3 DEF First, SemPost, MutexInv, Meets
  <2> QED
    BY <2>4 DEF MutexInv
<1>5. ASSUME NEW c \in Creature, Second(c) PROVE MutexInv'
  <2>1. PICK f \in Creature : pc[f] = "wait" /\ sem_priv = 0 /\ f # c
    BY <1>5 DEF Second, WaitInv
  <2>2. mutex = 0
    BY <1>5 DEF Second, MutexInv
  <2>3. mutex' = 0 /\ pc'[f] = "wait" /\ sem_priv' = 1
    BY <1>5, <2>1, <2>2 DEF Second, SemPost
  <2>4. \A d \in Creature : pc'[d] # "inside"
    BY <1>5 DEF Second, MutexInv
  <2> QED
    BY <2>3, <2>4 DEF MutexInv, Meets
<1>6. ASSUME NEW c \in Creature, Wake(c) \/ Finish(c) \/ Unlock_(c) \/ LetIn(c) PROVE MutexInv'
  <2>1. Meets(c) /\ \A d \in Creature : d # c => ~ Meets(d) /\ pc[d] # "inside"
    <3>1. Meets(c)
      BY <1>6 DEF Wake, SemWait, Finish, Unlock_, LetIn, Meets
    <3>2. Holding = {c}
      BY <3>1, Alone
    <3> QED
      BY <3>1, <3>2 DEF Holding, Meets
  <2>2. \A d \in Creature : d # c => ~ Meets(d)' /\ pc'[d] # "inside"
    BY <1>6, <2>1 DEF Wake, SemWait, Finish, Unlock_, LetIn, Meets
  <2>3. CASE Wake(c) \/ Finish(c)
    <3>1. mutex = 0 /\ mutex' = 0 /\ Meets(c)' /\ pc'[c] \in {"finish", "unlock"}
      BY <2>1, <2>3 DEF Wake, SemWait, Finish, Meets, MutexInv
    <3> QED
      BY <2>2, <3>1 DEF MutexInv
  <2>4. CASE Unlock_(c)
    <3>1. mutex = 0 /\ mutex' = 1 /\ pc'[c] = "let_in"
      BY <2>1, <2>4 DEF Unlock_, SemPost, MutexInv
    <3> QED
      BY <2>2, <3>1 DEF MutexInv
  <2>5. CASE LetIn(c)
    <3>1. mutex = 1
      BY <2>1, <2>5 DEF LetIn, MutexInv
    <3>2. mutex' = 1 /\ pc'[c] = "met"
      BY <2>5, <3>1 DEF LetIn
    <3> QED
      BY <2>2, <3>2 DEF MutexInv, Meets
  <2> QED
    BY <1>6, <2>3, <2>4, <2>5
<1> QED
  BY <1>1, <1>2, <1>3, <1>4, <1>5, <1>6, Steps

\* Nobody is at the look with the mutex when somebody meets; who waits is the first.
LEMMA WaitStep == IInv /\ [Next]_vars => WaitInv'
<1> SUFFICES ASSUME IInv, [Next]_vars PROVE WaitInv'
  OBVIOUS
<1> USE ChameneosAssumption DEF IInv, TypeOK, Goto, sems, meeting, local
<1>1. CASE PostPrint \/ Join \/ UNCHANGED vars
  BY <1>1 DEF PostPrint, Join, vars, WaitInv
<1>2. ASSUME NEW c \in Creature,
             \/ Loop(c) \/ Report(c) \/ Arrive(c) \/ Look(c) \/ Enter(c)
             \/ Unlock_(c) \/ LetIn(c)
      PROVE  WaitInv'
  <2>1. /\ sem_priv' = sem_priv /\ first_arrived' = first_arrived
        /\ A' = A /\ my_color' = my_color
    BY <1>2 DEF Loop, Report, Arrive, Look, Enter, Unlock_, LetIn
  <2>2. pc[c] # "wait" /\ pc'[c] # "wait" /\ \A d \in Creature \ {c} : pc'[d] = pc[d]
    BY <1>2 DEF Loop, Report, Arrive, Look, Enter, Unlock_, LetIn
  <2> QED
    BY <2>1, <2>2 DEF WaitInv
<1>3. ASSUME NEW c \in Creature, Count(c) \/ Finish(c) PROVE WaitInv'
  BY <1>3 DEF Count, Finish, WaitInv
<1>4. ASSUME NEW c \in Creature, First(c) PROVE WaitInv'
  <2>1. sem_priv = 0
    <3>1. c \in Holding /\ ~ Meets(c)
      BY <1>4 DEF First, Holding, Meets
    <3> QED
      BY <1>4, <3>1, Alone DEF First, WaitInv, Meets
  <2>2. \A d \in Creature : pc[d] # "wait"
    BY <1>4, <2>1 DEF First, WaitInv
  <2> QED
    BY <1>4, <2>1, <2>2 DEF First, WaitInv
<1>5. ASSUME NEW c \in Creature, Second(c) PROVE WaitInv'
  BY <1>5 DEF Second, SemPost, WaitInv
<1>6. ASSUME NEW c \in Creature, Wake(c) PROVE WaitInv'
  <2>1. \A d \in Creature : pc[d] = "wait" => d = c
    <3>1. Meets(c)
      BY <1>6 DEF Wake, SemWait, Meets
    <3>2. Holding = {c}
      BY <3>1, Alone
    <3> QED
      BY <3>2 DEF Holding
  <2> QED
    BY <1>6, <2>1 DEF Wake, SemWait, WaitInv
<1> QED
  BY <1>1, <1>2, <1>3, <1>4, <1>5, <1>6, Steps

\* The second keeps the first in hand until the first lets the next two in.
LEMMA PairStep == IInv /\ [Next]_vars => PairInv'
<1> SUFFICES ASSUME IInv, [Next]_vars, NEW c \in Creature, Meets(c)'
             PROVE  (/\ Partner(c) \in Creature /\ Partner(c) # c
                     /\ other[Partner(c)].id = c)'
  BY DEF PairInv
<1> USE ChameneosAssumption DEF IInv, TypeOK, Goto, sems, meeting, local
<1>1. ASSUME Meets(c), B' = B, other' = other,
             pc'[c] \in {"wait", "finish"} <=> pc[c] \in {"wait", "finish"}
      PROVE  (/\ Partner(c) \in Creature /\ Partner(c) # c
              /\ other[Partner(c)].id = c)'
  BY <1>1 DEF PairInv, Partner
<1>2. CASE PostPrint \/ Join \/ UNCHANGED vars
  BY <1>1, <1>2 DEF PostPrint, Join, vars, Meets
<1>3. ASSUME NEW d \in Creature,
             \/ Loop(d) \/ Report(d) \/ Arrive(d) \/ Look(d) \/ Enter(d)
             \/ Count(d) \/ Unlock_(d) \/ LetIn(d) \/ Wake(d)
      PROVE  (/\ Partner(c) \in Creature /\ Partner(c) # c
              /\ other[Partner(c)].id = c)'
  <2>1. B' = B /\ other' = other
    BY <1>3 DEF Loop, Report, Arrive, Look, Enter, Count, Unlock_, LetIn, Wake
  <2>2. CASE d = c
    BY <1>1, <1>3, <2>1, <2>2
       DEF Loop, Report, Arrive, Look, Enter, Count, Unlock_, LetIn, Wake, SemWait, Meets
  <2>3. CASE d # c
    BY <1>1, <1>3, <2>1, <2>3
       DEF Loop, Report, Arrive, Look, Enter, Count, Unlock_, LetIn, Wake, SemWait, Meets
  <2> QED
    BY <2>2, <2>3
<1>4. ASSUME NEW d \in Creature, First(d)
      PROVE  (/\ Partner(c) \in Creature /\ Partner(c) # c
              /\ other[Partner(c)].id = c)'
  <2>1. d \in Holding /\ ~ Meets(d) /\ sem_priv' = sem_priv /\ sem_priv = 0
    <3>1. d \in Holding /\ ~ Meets(d)
      BY <1>4 DEF First, Holding, Meets
    <3> QED
      BY <1>4, <3>1, Alone DEF First, WaitInv, Meets
  <2>2. Meets(c)
    BY <1>4, <2>1 DEF First, Meets
  <2> QED
    BY <2>1, <2>2, Alone
<1>5. ASSUME NEW d \in Creature, Second(d)
      PROVE  (/\ Partner(c) \in Creature /\ Partner(c) # c
              /\ other[Partner(c)].id = c)'
  <2>1. PICK f \in Creature : pc[f] = "wait" /\ sem_priv = 0 /\ f # d
    BY <1>5 DEF Second, WaitInv
  <2>2. Holding = {d, f}
    BY <1>5, <2>1, TwoTogether DEF Second, Holding
  <2>3. c = f /\ pc'[c] = "wait"
    BY <1>5, <2>1, <2>2 DEF Second, Holding, Meets
  <2>4. B'.id = d /\ other'[d] = A /\ A.id = c
    BY <1>5, <2>1, <2>3 DEF Second, WaitInv
  <2> QED
    BY <2>1, <2>3, <2>4 DEF Partner
<1>6. ASSUME NEW d \in Creature, Finish(d)
      PROVE  (/\ Partner(c) \in Creature /\ Partner(c) # c
              /\ other[Partner(c)].id = c)'
  <2>1. Holding = {d}
    BY <1>6, Alone DEF Finish, Meets
  <2>2. c = d /\ pc[c] = "finish" /\ pc'[c] = "unlock"
    BY <1>6, <2>1 DEF Finish, Meets, Holding
  <2>3. B.id \in Creature /\ B.id # c /\ other[B.id].id = c
    BY <2>2 DEF PairInv, Partner, Meets
  <2>4. other' = [other EXCEPT ![c] = B]
    BY <1>6, <2>2 DEF Finish
  <2> QED
    BY <2>2, <2>3, <2>4 DEF Partner
<1> QED
  BY <1>2, <1>3, <1>4, <1>5, <1>6, Steps

\* The last meeting is over before anybody can come to the look with the mutex.
LEMMA DoneStep == IInv /\ [Next]_vars => DoneInv'
<1> SUFFICES ASSUME IInv, [Next]_vars PROVE DoneInv'
  OBVIOUS
<1> USE ChameneosAssumption DEF IInv, TypeOK, Goto, sems, meeting, local
<1>1. CASE PostPrint \/ Join \/ UNCHANGED vars
  BY <1>1 DEF PostPrint, Join, vars, DoneInv
<1>2. ASSUME NEW c \in Creature,
             Loop(c) \/ Report(c) \/ Arrive(c) \/ Count(c) \/ Unlock_(c) \/ LetIn(c)
      PROVE  DoneInv'
  BY <1>2 DEF Loop, Report, Arrive, Count, Unlock_, LetIn, DoneInv
<1>3. ASSUME NEW c \in Creature,
             Look(c) \/ Enter(c) \/ First(c) \/ Second(c) \/ Wake(c)
      PROVE  DoneInv'
  BY <1>3 DEF Look, Enter, First, Second, Wake, DoneInv
<1>4. ASSUME NEW c \in Creature, Finish(c) PROVE DoneInv'
  <2>1. Holding = {c}
    BY <1>4, Alone DEF Finish, Meets
  <2>2. \A d \in Creature : pc'[d] \notin {"enter", "inside", "wait", "finish"}
    BY <1>4, <2>1 DEF Finish, Holding
  <2>3. done' <=> meetings_left' = 0
    BY <1>4 DEF Finish, DoneInv
  <2> QED
    BY <2>2, <2>3 DEF DoneInv
<1> QED
  BY <1>1, <1>2, <1>3, <1>4, Steps

\* A creature reports once it is let to.
LEMMA PrintStep == IInv /\ [Next]_vars => PrintInv'
<1> SUFFICES ASSUME IInv, [Next]_vars PROVE PrintInv'
  OBVIOUS
<1> USE ChameneosAssumption DEF IInv, TypeOK, Goto, sems, meeting, local
<1>0. /\ Cardinality(Creature) \in Nat
      /\ IsFiniteSet(Ended) /\ Cardinality(Ended) \in Nat
  <2>1. Ended \in SUBSET Creature
    BY DEF Ended
  <2> QED
    BY <2>1, FS_Subset, FS_CardinalityType
<1>1. CASE PostPrint
  <2>1. /\ Ended' = Ended /\ sem_print' = sem_print + Cardinality(Creature)
        /\ pc["main"] = "create" /\ pc'["main"] = "join"
    BY <1>1 DEF PostPrint, Ended
  <2> QED
    BY <1>0, <2>1 DEF PrintInv
<1>2. CASE Join \/ UNCHANGED vars
  <2>1. Ended' = Ended /\ sem_print' = sem_print
        /\ (pc'["main"] = "create" <=> pc["main"] = "create")
    BY <1>2 DEF Join, vars, Ended
  <2> QED
    BY <2>1 DEF PrintInv
<1>3. ASSUME NEW c \in Creature,
             \/ Loop(c) \/ Arrive(c) \/ Look(c) \/ Enter(c) \/ First(c) \/ Second(c)
             \/ Wake(c) \/ Finish(c) \/ Unlock_(c) \/ LetIn(c) \/ Count(c)
      PROVE  PrintInv'
  <2>1. sem_print' = sem_print /\ pc[c] # "ended" /\ pc'[c] # "ended"
    BY <1>3 DEF Loop, Arrive, Look, Enter, First, Second, Wake, Finish, Unlock_, LetIn, Count
  <2>2. pc'["main"] = pc["main"] /\ \A d \in Creature \ {c} : pc'[d] = pc[d]
    BY <1>3, OnlyOneMoves DEF creature
  <2>3. Ended' = Ended
    BY <2>1, <2>2 DEF Ended
  <2> QED
    BY <2>1, <2>2, <2>3 DEF PrintInv
<1>4. ASSUME NEW c \in Creature, Report(c) PROVE PrintInv'
  <2>1. /\ c \notin Ended /\ Ended' = Ended \cup {c}
        /\ sem_print' = sem_print - 1 /\ pc'["main"] = pc["main"]
    BY <1>4 DEF Report, SemWait, Ended
  <2>2. Cardinality(Ended') = Cardinality(Ended) + 1
    BY <1>0, <2>1, FS_AddElement
  <2> QED
    BY <1>0, <2>1, <2>2 DEF PrintInv
<1> QED
  BY <1>1, <1>2, <1>3, <1>4, Steps

\* What a step does to the meetings that have taken place.
LEMMA CountStep == IInv /\ [Next]_vars => CountInv'
<1> SUFFICES ASSUME IInv, [Next]_vars PROVE CountInv'
  OBVIOUS
<1> USE ChameneosAssumption DEF IInv, TypeOK, Goto, sems, meeting, local
<1>0. /\ total_meetings_to_run \in Nat /\ meetings_left \in Nat
      /\ \A c \in Creature : met[c] \in Nat /\ MetBy(c) <= TakenPlace
  BY DEF CountInv
<1>1. CASE PostPrint \/ Join \/ UNCHANGED vars
  BY <1>1 DEF PostPrint, Join, vars, CountInv, MetBy, TakenPlace, TakingPlace
<1>2. ASSUME NEW c \in Creature,
             Loop(c) \/ Report(c) \/ Arrive(c) \/ Look(c) \/ Enter(c) \/ Unlock_(c) \/ LetIn(c)
      PROVE  CountInv'
  <2>1. sem_priv' = sem_priv /\ meetings_left' = meetings_left /\ met' = met
    BY <1>2 DEF Loop, Report, Arrive, Look, Enter, Unlock_, LetIn
  <2>2. /\ pc[c] \notin {"wait", "finish"} /\ pc'[c] \notin {"wait", "finish"}
        /\ pc[c] \in {"unlock", "let_in", "met"} <=> pc'[c] \in {"unlock", "let_in", "met"}
        /\ \A d \in Creature \ {c} : pc'[d] = pc[d]
    BY <1>2 DEF Loop, Report, Arrive, Look, Enter, Unlock_, LetIn
  <2>3. TakingPlace' <=> TakingPlace
    BY <2>1, <2>2 DEF TakingPlace
  <2>4. \A d \in Creature : MetBy(d)' = MetBy(d)
    BY <2>1, <2>2, <2>3 DEF MetBy
  <2> QED
    BY <2>1, <2>3, <2>4 DEF CountInv, TakenPlace
<1>3. ASSUME NEW c \in Creature, First(c) PROVE CountInv'
  <2>1. /\ sem_priv' = sem_priv /\ meetings_left' = meetings_left /\ met' = met
        /\ \A d \in Creature \ {c} : pc'[d] = pc[d]
        /\ pc[c] = "inside" /\ pc'[c] = "wait"
    BY <1>3 DEF First
  <2>2. ~ TakingPlace /\ ~ TakingPlace'
    <3>1. c \in Holding /\ ~ Meets(c)
      BY <2>1 DEF Holding, Meets
    <3>2. sem_priv = 0 /\ \A d \in Creature : pc[d] # "finish"
      BY <1>3, <3>1, Alone DEF First, WaitInv, Meets
    <3> QED
      BY <2>1, <3>2 DEF TakingPlace
  <2>3. \A d \in Creature : MetBy(d)' = MetBy(d)
    BY <2>1, <2>2 DEF MetBy
  <2> QED
    BY <2>1, <2>2, <2>3 DEF CountInv, TakenPlace
<1>4. ASSUME NEW c \in Creature, Second(c) PROVE CountInv'
  <2>1. PICK f \in Creature : pc[f] = "wait" /\ sem_priv = 0 /\ f # c
    BY <1>4 DEF Second, WaitInv
  <2>2. Holding = {c, f}
    BY <1>4, <2>1, TwoTogether DEF Second, Holding
  <2>3. /\ meetings_left' = meetings_left /\ met' = met /\ sem_priv' = 1
        /\ \A d \in Creature \ {c} : pc'[d] = pc[d]
        /\ pc[c] = "inside" /\ pc'[c] = "met"
    BY <1>4, <2>1 DEF Second, SemPost
  <2>4. ~ TakingPlace /\ TakingPlace'
    BY <2>1, <2>2, <2>3 DEF TakingPlace, Holding
  <2>5. TakenPlace' = TakenPlace + 1
    BY <1>0, <2>3, <2>4 DEF TakenPlace
  <2>6. \A d \in Creature : MetBy(d)' \in {MetBy(d), MetBy(d) + 1} /\ MetBy(d) \in Int
    BY <1>0, <2>3, <2>4 DEF MetBy
  <2>7. TakenPlace \in Int
    BY <1>0 DEF TakenPlace
  <2> QED
    BY <1>0, <2>5, <2>6, <2>7 DEF CountInv
<1>5. ASSUME NEW c \in Creature, Wake(c) PROVE CountInv'
  <2>1. /\ sem_priv = 1 /\ meetings_left' = meetings_left /\ met' = met
        /\ \A d \in Creature \ {c} : pc'[d] = pc[d]
        /\ pc[c] = "wait" /\ pc'[c] = "finish"
    BY <1>5 DEF Wake, SemWait
  <2>2. TakingPlace /\ TakingPlace'
    BY <2>1 DEF TakingPlace
  <2>3. \A d \in Creature : MetBy(d)' = MetBy(d)
    BY <2>1, <2>2 DEF MetBy
  <2> QED
    BY <2>1, <2>2, <2>3 DEF CountInv, TakenPlace
<1>6. ASSUME NEW c \in Creature, Finish(c) PROVE CountInv'
  <2>1. /\ sem_priv' = sem_priv /\ meetings_left' = meetings_left - 1 /\ met' = met
        /\ \A d \in Creature \ {c} : pc'[d] = pc[d]
        /\ pc[c] = "finish" /\ pc'[c] = "unlock"
    BY <1>6 DEF Finish
  <2>2. Holding = {c}
    BY <2>1, Alone DEF Meets
  <2>3. sem_priv = 0
    BY <2>1, <2>2 DEF WaitInv, Holding
  <2>4. TakingPlace /\ ~ TakingPlace'
    BY <2>1, <2>2, <2>3 DEF TakingPlace, Holding
  <2>5. TakenPlace' = TakenPlace
    BY <1>0, <2>1, <2>4 DEF TakenPlace
  <2>6. \A d \in Creature : MetBy(d)' = MetBy(d)
    BY <2>1, <2>2, <2>4 DEF MetBy, Holding
  <2> QED
    BY <2>5, <2>6 DEF CountInv
<1>7. ASSUME NEW c \in Creature, Count(c) PROVE CountInv'
  <2>1. /\ sem_priv' = sem_priv /\ meetings_left' = meetings_left
        /\ met' = [met EXCEPT ![c] = met[c] + 1]
        /\ \A d \in Creature \ {c} : pc'[d] = pc[d]
        /\ pc[c] = "met" /\ pc'[c] = "loop"
    BY <1>7 DEF Count
  <2>2. TakingPlace' <=> TakingPlace
    BY <2>1 DEF TakingPlace
  <2>3. \A d \in Creature : MetBy(d)' = MetBy(d)
    BY <1>0, <2>1, <2>2 DEF MetBy
  <2> QED
    BY <2>1, <2>2, <2>3 DEF CountInv, TakenPlace
<1> QED
  BY <1>1, <1>2, <1>3, <1>4, <1>5, <1>6, <1>7, Steps

\* The semaphores stay in their range, and no creature meets more often than the creatures
\* meet at all.
LEMMA TypeStep == IInv /\ [Next]_vars => TypeOK'
<1> SUFFICES ASSUME IInv, [Next]_vars PROVE TypeOK'
  OBVIOUS
<1> USE ChameneosAssumption DEF Goto, sems, meeting, local
<1>1. TypeOK /\ meetings_left \in Nat /\ total_meetings_to_run \in Nat
  BY DEF IInv, TypeOK
<1>2. at_most_two' \in 0 .. 2
  BY TwoStep DEF TwoInv
<1>3. mutex' \in 0 .. 1 /\ sem_priv' \in 0 .. 1
  <2>1. ASSUME NEW c \in Creature, First(c) \/ Unlock_(c) PROVE mutex = 0
    <3>1. CASE First(c)
      BY <3>1 DEF First, IInv, MutexInv
    <3>2. CASE Unlock_(c)
      BY <3>2 DEF Unlock_, IInv, MutexInv, Meets
    <3> QED
      BY <2>1, <3>1, <3>2
  <2>2. ASSUME NEW c \in Creature, Second(c) PROVE sem_priv = 0
    BY <2>2 DEF Second, IInv, WaitInv
  <2>3. mutex \in 0 .. 1 /\ sem_priv \in 0 .. 1
    BY <1>1 DEF TypeOK
  <2>4. CASE PostPrint \/ Join \/ UNCHANGED vars
    BY <2>3, <2>4 DEF PostPrint, Join, vars
  <2>5. ASSUME NEW c \in Creature,
               Loop(c) \/ Arrive(c) \/ Look(c) \/ LetIn(c) \/ Count(c) \/ Report(c) \/ Finish(c)
        PROVE  mutex' = mutex /\ sem_priv' = sem_priv
    BY <2>5 DEF Loop, Arrive, Look, LetIn, Count, Report, Finish
  <2>6. ASSUME NEW c \in Creature, Enter(c)
        PROVE  mutex' \in {mutex, mutex - 1} /\ mutex > 0 /\ sem_priv' = sem_priv
    BY <2>6 DEF Enter, SemWait
  <2>7. ASSUME NEW c \in Creature, First(c) \/ Unlock_(c)
        PROVE  mutex' = mutex + 1 /\ sem_priv' = sem_priv
    BY <2>7 DEF First, Unlock_, SemPost
  <2>8. ASSUME NEW c \in Creature, Second(c)
        PROVE  mutex' = mutex /\ sem_priv' = sem_priv + 1
    BY <2>8 DEF Second, SemPost
  <2>9. ASSUME NEW c \in Creature, Wake(c)
        PROVE  mutex' = mutex /\ sem_priv > 0 /\ sem_priv' = sem_priv - 1
    BY <2>9 DEF Wake, SemWait
  <2> QED
    BY <2>1, <2>2, <2>3, <2>4, <2>5, <2>6, <2>7, <2>8, <2>9, Steps
<1>4. sem_print' \in 0 .. Cardinality(Creature)
  <2>1. /\ Cardinality(Creature) \in Nat /\ Cardinality(Ended') \in Nat
        /\ Cardinality(Ended') <= Cardinality(Creature)
    <3>1. Ended' \in SUBSET Creature
      BY DEF Ended
    <3> QED
      BY <3>1, FS_Subset, FS_CardinalityType
  <2>2. sem_print' >= 0
    <3>1. sem_print \in Nat
      BY <1>1, <2>1 DEF TypeOK
    <3>2. CASE PostPrint \/ Join \/ UNCHANGED vars
      BY <2>1, <3>1, <3>2 DEF PostPrint, Join, vars
    <3>3. ASSUME NEW c \in Creature, creature(c) PROVE sem_print' >= 0
      BY <3>1, <3>3
         DEF creature, Loop, Arrive, Look, Enter, First, Second, Wake, Finish, Unlock_, LetIn,
             Count, Report, SemWait
    <3> QED
      BY <3>2, <3>3 DEF Next, run_the_meetings, Terminated
  <2>3. sem_print' = IF pc'["main"] = "create" THEN 0 - Cardinality(Ended')
                     ELSE Cardinality(Creature) - Cardinality(Ended')
    BY PrintStep DEF PrintInv
  <2> QED
    BY <2>1, <2>2, <2>3
<1>5. meetings_left' \in 0 .. total_meetings_to_run
  <2>1. ASSUME NEW c \in Creature, Finish(c) PROVE meetings_left # 0
    BY <2>1 DEF Finish, IInv, DoneInv
  <2>2. CASE PostPrint \/ Join \/ UNCHANGED vars
    BY <1>1, <2>2 DEF TypeOK, PostPrint, Join, vars
  <2>3. ASSUME NEW c \in Creature, creature(c)
        PROVE  meetings_left' \in 0 .. total_meetings_to_run
    BY <1>1, <2>1, <2>3
       DEF TypeOK, creature, Loop, Arrive, Look, Enter, First, Second, Wake, Finish, Unlock_,
           LetIn, Count, Report
  <2> QED
    BY <2>2, <2>3 DEF Next, run_the_meetings, Terminated
<1>6. /\ first_arrived' \in BOOLEAN /\ done' \in BOOLEAN /\ A' \in Slot /\ B' \in Slot
      /\ my_color' \in [Creature -> Color] /\ other' \in [Creature -> Slot]
  <2>1. \A c \in Creature : [my_color |-> my_color[c], id |-> c] \in Slot
    BY <1>1 DEF TypeOK, Slot
  <2>2. CASE PostPrint \/ Join \/ UNCHANGED vars
    BY <1>1, <2>2 DEF TypeOK, PostPrint, Join, vars
  <2>3. ASSUME NEW c \in Creature,
               Loop(c) \/ Arrive(c) \/ Look(c) \/ Enter(c) \/ Wake(c) \/ Unlock_(c)
               \/ LetIn(c) \/ Report(c)
        PROVE  <1>6!:
    BY <1>1, <2>3 DEF TypeOK, Loop, Arrive, Look, Enter, Wake, Unlock_, LetIn, Report
  <2>4. ASSUME NEW c \in Creature, First(c) \/ Second(c) \/ Finish(c) PROVE <1>6!:
    <3>1. CASE First(c)
      BY <1>1, <2>1, <3>1 DEF TypeOK, First
    <3>2. CASE Second(c)
      BY <1>1, <2>1, <3>2 DEF TypeOK, Second
    <3>3. CASE Finish(c)
      <4>1. done' \in BOOLEAN
        BY <3>3 DEF Finish
      <4>2. B \in Slot /\ other \in [Creature -> Slot] /\ other' = [other EXCEPT ![c] = B]
        BY <1>1, <3>3 DEF TypeOK, Finish
      <4> QED
        BY <1>1, <3>3, <4>1, <4>2 DEF TypeOK, Finish
    <3> QED
      BY <2>4, <3>1, <3>2, <3>3
  <2>5. ASSUME NEW c \in Creature, Count(c) PROVE <1>6!:
    BY <1>1, <2>5, ComplimentIs DEF TypeOK, Count
  <2> QED
    BY <2>2, <2>3, <2>4, <2>5, Steps
<1>7. pc' \in [Creature \cup {"main"} ->
               {"create", "join", "returned", "loop", "arrive", "look", "enter", "inside", "wait",
                "finish", "unlock", "let_in", "met", "print", "ended"}]
  <2>1. CASE PostPrint \/ Join \/ UNCHANGED vars
    BY <1>1, <2>1 DEF TypeOK, PostPrint, Join, vars
  <2>2. ASSUME NEW c \in Creature, creature(c) PROVE <1>7!:
    BY <1>1, <2>2
       DEF TypeOK, creature, Loop, Arrive, Look, Enter, First, Second, Wake, Finish, Unlock_,
           LetIn, Count, Report
  <2> QED
    BY <2>1, <2>2 DEF Next, run_the_meetings, Terminated
<1>8. met' \in [Creature -> 0 .. total_meetings_to_run]
  <2>1. ASSUME NEW c \in Creature, Count(c) PROVE met[c] + 1 \in 0 .. total_meetings_to_run
    <3>1. met[c] \in Nat /\ met[c] + 1 = MetBy(c)
      BY <1>1, <2>1 DEF TypeOK, Count, MetBy
    <3>2. TakingPlace => meetings_left # 0
      BY DEF IInv, DoneInv, WaitInv, TakingPlace
    <3>3. TakenPlace \in Int /\ TakenPlace <= total_meetings_to_run
      BY <1>1, <3>2 DEF TakenPlace
    <3>4. MetBy(c) <= TakenPlace
      BY DEF IInv, CountInv
    <3> QED
      BY <3>1, <3>3, <3>4
  <2>2. CASE \E c \in Creature : Count(c)
    <3>1. PICK c \in Creature : Count(c)
      BY <2>2
    <3>2. met \in [Creature -> 0 .. total_meetings_to_run] /\ met' = [met EXCEPT ![c] = met[c] + 1]
      BY <1>1, <3>1 DEF TypeOK, Count
    <3>3. met[c] + 1 \in 0 .. total_meetings_to_run
      BY <2>1, <3>1
    <3> QED
      BY <3>2, <3>3
  <2>3. CASE PostPrint \/ Join \/ UNCHANGED vars
    BY <1>1, <2>3 DEF TypeOK, PostPrint, Join, vars
  <2>4. ASSUME NEW c \in Creature, creature(c), ~ Count(c) PROVE met' = met
    BY <2>4
       DEF creature, Loop, Arrive, Look, Enter, First, Second, Wake, Finish, Unlock_, LetIn,
           Report
  <2> QED
    BY <1>1, <2>2, <2>3, <2>4 DEF TypeOK, Next, run_the_meetings, Terminated
<1> QED
  BY <1>2, <1>3, <1>4, <1>5, <1>6, <1>7, <1>8 DEF TypeOK
-----------------------------------------------------------------------------
\* The inductive invariant: who has been let in, who of them is met, and how the
\* semaphores and the counters follow from that (chameneosredux.c:125-222, 253-275).
THEOREM Invariance == Spec => []IInv
<1>1. Init => IInv
  BY InitInv
<1>2. IInv /\ [Next]_vars => IInv'
  <2>1. IInv /\ [Next]_vars => PlaceInv'
    BY PlaceStep DEF IInv
  <2> QED
    BY <2>1, TypeStep, TwoStep, MutexStep, WaitStep, PairStep, DoneStep, CountStep, PrintStep
       DEF IInv
<1> QED
  BY <1>1, <1>2, PTL DEF Spec

\* The second of a meeting can be counting it already, or be at the next one: it has the
\* first in hand all the same.
LEMMA Mutual == IInv => MeetingsAreMutual
<1> SUFFICES ASSUME IInv, NEW c \in Creature, pc[c] \in {"unlock", "let_in"}
             PROVE  other[c].id # c /\ other[c].id # NoThread /\ other[other[c].id].id = c
  BY DEF MeetingsAreMutual
<1>1. Meets(c) /\ Partner(c) = other[c].id
  BY DEF Meets, Partner
<1> QED
  BY <1>1, ChameneosAssumption DEF IInv, PairInv

\* When all have ended nobody holds a place, the mutex or a meeting.
LEMMA Back == IInv => SemaphoresAreBack
<1> SUFFICES ASSUME IInv, pc["main"] = "returned"
             PROVE  at_most_two = 2 /\ mutex = 1 /\ sem_priv = 0 /\ sem_print = 0
  BY DEF SemaphoresAreBack
<1>1. \A c \in Creature : pc[c] = "ended"
  BY DEF IInv, PlaceInv
<1>2. Holding = {} /\ Ended = Creature /\ \A c \in Creature : ~ Meets(c)
  BY <1>1 DEF Holding, Ended, Meets
<1>3. at_most_two = 2
  BY <1>2 DEF IInv, TwoInv
<1>4. mutex = 1 /\ sem_priv = 0
  BY <1>1, <1>2 DEF IInv, TypeOK, MutexInv, WaitInv
<1>5. sem_print = 0
  BY <1>2, ChameneosAssumption, FS_CardinalityType DEF IInv, PrintInv
<1> QED
  BY <1>3, <1>4, <1>5

\* The semaphores, the mutex and the counters of the creatures keep their ranges:
\* sem_priv is never posted twice (chameneosredux.c:130-166).
THEOREM TypeCorrect == Spec => []TypeOK
<1>1. IInv => TypeOK
  BY DEF IInv
<1> QED
  BY <1>1, Invariance, PTL

\* Who meets sees whom it meets, nobody is let in after the last meeting, and the
\* semaphores are back for the second call.
THEOREM ChameneosIsSafe == Spec => []ChameneosInv
<1>1. IInv => SecondLookIsNotNeeded
  BY DEF IInv, DoneInv, SecondLookIsNotNeeded
<1>2. IInv => ChameneosInv
  BY <1>1, Mutual, Back DEF IInv, ChameneosInv
<1> QED
  BY <1>2, Invariance, PTL
-----------------------------------------------------------------------------
\* Before it has gone to wait the first meets nobody.
LEMMA NobodyMeets ==
  ASSUME IInv, NEW c \in Creature, pc[c] = "inside"
  PROVE  sem_priv = 0 /\ ~ TakingPlace /\ (\A d \in Creature : ~ Meets(d))
<1>1. c \in Holding /\ ~ Meets(c)
  BY DEF Holding, Meets
<1>2. \A d \in Creature : ~ Meets(d)
  BY <1>1, Alone DEF IInv
<1>3. sem_priv # 1 /\ \A d \in Creature : pc[d] # "finish"
  BY <1>2 DEF IInv, WaitInv, Meets
<1> QED
  BY <1>2, <1>3 DEF IInv, TypeOK, TakingPlace

\* The meeting takes place as the second arrives.
LEMMA SecondIsAMeeting ==
  ASSUME IInv, NEW c \in Creature, Second(c)
  PROVE  \E f \in Creature : Abstract!Meet(f, c)
<1> USE ChameneosAssumption DEF Goto, sems, meeting, local
<1>1. PICK f \in Creature : pc[f] = "wait" /\ sem_priv = 0 /\ f # c
  BY DEF Second, IInv, WaitInv
<1>2. Holding = {c, f} /\ ~ TakingPlace /\ pc[c] = "inside"
  BY <1>1, TwoTogether, NobodyMeets DEF Second, IInv, Holding
<1>3. meetings_left \in Nat /\ meetings_left > 0
  BY <1>2 DEF IInv, TypeOK, DoneInv
<1>4. /\ pc' = [pc EXCEPT ![c] = "met"] /\ pc'[c] = "met" /\ sem_priv' = 1 /\ TakingPlace'
      /\ B' = [my_color |-> my_color[c], id |-> c] /\ other' = [other EXCEPT ![c] = A]
      /\ meetings_left' = meetings_left /\ my_color' = my_color
  BY <1>1 DEF Second, SemPost, IInv, TypeOK, TakingPlace
<1>5. ColorOf(c) = my_color[c] /\ ColorOf(f) = my_color[f]
  BY <1>1, <1>2 DEF ColorOf
<1>6. my_color[c] \in Color /\ my_color[f] \in Color /\ A.my_color = my_color[f]
  BY <1>1 DEF IInv, TypeOK, WaitInv
<1>7. ColorOf(c)' = compliment_color(my_color[f], my_color[c])
  <2>1. other'[c] = A
    BY <1>4 DEF IInv, TypeOK
  <2> QED
    BY <1>4, <1>6, <2>1, ComplimentIs DEF ColorOf
<1>8. ColorOf(f)' = compliment_color(my_color[f], my_color[c])
  <2>1. pc'[f] = "wait"
    BY <1>1, <1>4 DEF IInv, TypeOK
  <2> QED
    BY <1>4, <2>1 DEF ColorOf
<1>9. ASSUME NEW d \in Creature \ {c, f} PROVE ColorOf(d)' = ColorOf(d)
  <2>1. pc[d] \notin {"wait", "finish"} /\ pc'[d] = pc[d] /\ other'[d] = other[d]
    BY <1>2, <1>4 DEF IInv, TypeOK, Holding
  <2> QED
    BY <1>4, <2>1 DEF ColorOf
<1>10. [x \in Creature |-> ColorOf(x)]'
         = [[x \in Creature |-> ColorOf(x)] EXCEPT
              ![f] = compliment_color(my_color[f], my_color[c]),
              ![c] = compliment_color(my_color[f], my_color[c])]
  BY <1>1, <1>7, <1>8, <1>9
<1>11. Abstract!Meet(f, c)
  <2>1. f # c /\ meetings_left - (IF TakingPlace THEN 1 ELSE 0) > 0
    BY <1>1, <1>2, <1>3
  <2>2. (meetings_left - (IF TakingPlace THEN 1 ELSE 0))'
          = meetings_left - (IF TakingPlace THEN 1 ELSE 0) - 1
    BY <1>2, <1>3, <1>4
  <2>3. /\ [x \in Creature |-> ColorOf(x)][f] = my_color[f]
        /\ [x \in Creature |-> ColorOf(x)][c] = my_color[c]
    BY <1>5
  <2> QED
    BY <1>10, <2>1, <2>2, <2>3 DEF Abstract!Meet
<1> QED
  BY <1>11

\* The abstract state, which a step of the program other than Second leaves as it is.
TheSame == /\ \A d \in Creature : ColorOf(d)' = ColorOf(d)
           /\ (meetings_left - (IF TakingPlace THEN 1 ELSE 0))'
                = meetings_left - (IF TakingPlace THEN 1 ELSE 0)

\* All steps but that of the second creature of a meeting leave the meetings alone.
LEMMA TheRestStutters ==
  ASSUME IInv, [Next]_vars, ~ \E c \in Creature : Second(c)
  PROVE  TheSame
<1> USE ChameneosAssumption DEF IInv, TypeOK, Goto, sems, meeting, local
<1>1. CASE PostPrint \/ Join \/ UNCHANGED vars
  BY <1>1 DEF PostPrint, Join, vars, TheSame, ColorOf, TakingPlace
<1>2. ASSUME NEW c \in Creature,
             Loop(c) \/ Report(c) \/ Arrive(c) \/ Look(c) \/ Enter(c) \/ Unlock_(c) \/ LetIn(c)
      PROVE  TheSame
  <2>1. /\ sem_priv' = sem_priv /\ meetings_left' = meetings_left /\ my_color' = my_color
        /\ other' = other /\ B' = B
    BY <1>2 DEF Loop, Report, Arrive, Look, Enter, Unlock_, LetIn
  <2>2. /\ pc[c] \notin {"wait", "finish"} /\ pc'[c] \notin {"wait", "finish"}
        /\ pc[c] \in {"unlock", "let_in", "met"} <=> pc'[c] \in {"unlock", "let_in", "met"}
        /\ \A d \in Creature \ {c} : pc'[d] = pc[d]
    BY <1>2 DEF Loop, Report, Arrive, Look, Enter, Unlock_, LetIn
  <2>3. TakingPlace' <=> TakingPlace
    BY <2>1, <2>2 DEF TakingPlace
  <2> QED
    BY <2>1, <2>2, <2>3 DEF TheSame, ColorOf
<1>3. ASSUME NEW c \in Creature, First(c) PROVE TheSame
  <2>1. /\ sem_priv' = sem_priv /\ meetings_left' = meetings_left /\ my_color' = my_color
        /\ other' = other /\ B' = B /\ pc[c] = "inside" /\ pc'[c] = "wait"
        /\ \A d \in Creature \ {c} : pc'[d] = pc[d]
    BY <1>3 DEF First
  <2>2. ~ TakingPlace /\ ~ TakingPlace'
    BY <2>1, NobodyMeets DEF TakingPlace
  <2> QED
    BY <2>1, <2>2 DEF TheSame, ColorOf
<1>4. ASSUME NEW c \in Creature, Wake(c) PROVE TheSame
  <2>1. /\ sem_priv = 1 /\ meetings_left' = meetings_left /\ my_color' = my_color
        /\ other' = other /\ B' = B /\ pc[c] = "wait" /\ pc'[c] = "finish"
        /\ \A d \in Creature \ {c} : pc'[d] = pc[d]
    BY <1>4 DEF Wake, SemWait
  <2>2. TakingPlace /\ TakingPlace'
    BY <2>1 DEF TakingPlace
  <2> QED
    BY <2>1, <2>2 DEF TheSame, ColorOf
<1>5. ASSUME NEW c \in Creature, Finish(c) PROVE TheSame
  <2>1. /\ sem_priv' = sem_priv /\ meetings_left' = meetings_left - 1 /\ my_color' = my_color
        /\ other' = [other EXCEPT ![c] = B] /\ other'[c] = B
        /\ pc[c] = "finish" /\ pc'[c] = "unlock" /\ \A d \in Creature \ {c} : pc'[d] = pc[d]
    BY <1>5 DEF Finish
  <2>2. Holding = {c} /\ sem_priv # 1
    BY <2>1, Alone DEF Meets, WaitInv, Holding
  <2>3. TakingPlace /\ ~ TakingPlace'
    BY <2>1, <2>2 DEF TakingPlace, Holding
  <2>4. ColorOf(c)' = ColorOf(c)
    BY <2>1, <2>3 DEF ColorOf
  <2>5. ASSUME NEW d \in Creature \ {c} PROVE ColorOf(d)' = ColorOf(d)
    BY <2>1, <2>2, <2>3 DEF ColorOf, Holding
  <2>6. (meetings_left - (IF TakingPlace THEN 1 ELSE 0))'
          = meetings_left - (IF TakingPlace THEN 1 ELSE 0)
    BY <2>1, <2>3
  <2> QED
    BY <2>4, <2>5, <2>6 DEF TheSame
<1>6. ASSUME NEW c \in Creature, Count(c) PROVE TheSame
  <2>1. /\ sem_priv' = sem_priv /\ meetings_left' = meetings_left /\ other' = other /\ B' = B
        /\ my_color' = [my_color EXCEPT
                          ![c] = compliment_color(my_color[c], other[c].my_color)]
        /\ pc[c] = "met" /\ pc'[c] = "loop" /\ \A d \in Creature \ {c} : pc'[d] = pc[d]
    BY <1>6 DEF Count
  <2>2. TakingPlace' <=> TakingPlace
    BY <2>1 DEF TakingPlace
  <2> QED
    BY <2>1, <2>2 DEF TheSame, ColorOf
<1> QED
  BY <1>1, <1>2, <1>3, <1>4, <1>5, <1>6, Steps

\* A and B, the mutex that changes hands and the two looks at done together are one step
\* in which two creatures meet and take on the colour that complements theirs.
THEOREM ImplementsARendezvous == Spec => IsARendezvous
<1>1. Init => Abstract!Init
  <2> SUFFICES ASSUME Init PROVE Abstract!Init
    OBVIOUS
  <2> USE ChameneosAssumption
  <2>1. \A c \in Creature : pc[c] = "loop"
    BY DEF Init
  <2>2. sem_priv = 0 /\ meetings_left = total_meetings_to_run /\ my_color \in StartColors
    BY DEF Init
  <2>3. ~ TakingPlace /\ \A c \in Creature : ColorOf(c) = my_color[c]
    BY <2>1, <2>2 DEF TakingPlace, ColorOf
  <2>4. [c \in Creature |-> ColorOf(c)] = my_color
    BY <2>2, <2>3
  <2> QED
    BY <2>2, <2>3, <2>4 DEF Abstract!Init
<1>2. ASSUME IInv, [Next]_vars
      PROVE  [\E c, d \in Creature : Abstract!Meet(c, d)]_<<
                [c \in Creature |-> ColorOf(c)],
                meetings_left - (IF TakingPlace THEN 1 ELSE 0)>>
  <2>1. CASE \E c \in Creature : Second(c)
    BY <2>1, <1>2, SecondIsAMeeting
  <2>2. CASE ~ \E c \in Creature : Second(c)
    BY <2>2, <1>2, TheRestStutters DEF TheSame
  <2> QED
    BY <2>1, <2>2
<1> QED
  BY Invariance, <1>1, <1>2, PTL DEF Spec, IsARendezvous, Abstract!Spec
-----------------------------------------------------------------------------

(***************************************************************************)
(* The programs whose threads go on in turns.                              *)
(*                                                                         *)
(* 10practice.c: whoever is about to print has passed the flag on, and     *)
(* holds the mutex until the letter is printed.                            *)
(***************************************************************************)
RelayLockInv ==
  \A h \in Handler : lock_flag = h <=> rePc[h] \in {"test", "pass", "print", "leave"}

\* Which letter is the next: that of the flag, but for the time between the two.
RelayOrderInv ==
  /\ (\A h \in Handler : rePc[h] # "print") => flag = (Len(output) % 3) + 1
  /\ \A h \in Handler : rePc[h] = "print" => /\ Mine(h) = (Len(output) % 3) + 1
                                             /\ flag = NextOf(h)
  /\ \A h \in Handler : rePc[h] = "pass" => flag = Mine(h)

RelayTurnsInv ==
  \A h \in Handler : rePc[h] \in {"lock", "test", "pass", "print"} => turns[h] < Turns

RelayIInv == RelayTypeOK /\ PrintsInTurn /\ RelayLockInv /\ RelayOrderInv /\ RelayTurnsInv

\* ping_pong.c: the mutex, and who may be asleep.
GameLockInv ==
  /\ \A p \in Player : thr_cond_lock = p <=> ppPc[p] \in {"begin", "sleep", "turn"}
  /\ \A p \in thr_cond : ppPc[p] = "wait"

\* ping has set g_ready when it waits, and pong starts after that.
GameStartInv ==
  /\ g_ready <=> ppPc["ping"] \notin {"lock", "begin"}
  /\ ~ g_ready => ppPc["pong"] \in {"lock", "begin"}
  /\ \A p \in Player : ppI[p] = MAX_COUNT <=> ppPc[p] = "ended"

\* Whose turn is due: who is awake in its wait, or takes the turn.
Due(p)  == IF ppPc[p] = "turn" \/ (ppPc[p] = "wait" /\ p \notin thr_cond) THEN 1 ELSE 0
Started == IF ppPc["pong"] \in {"lock", "begin"} THEN 0 ELSE 1

\* The turns of one, taken and due, come from those of the other, from pong's start, and
\* from the wake-ups by nobody.
GameDueInv ==
  /\ ppI["pong"] + Due("pong") <= ppI["ping"] + ppIdle
  /\ ppI["ping"] + Due("ping") <= ppI["pong"] + ppIdle + Started

GameIInv == GameTypeOK /\ GameLockInv /\ GameStartInv /\ GameDueInv

\* cpap2psg.c: the mutex of a channel is the ticks', while they signal it.
TickLockInv ==
  \A c \in Channel : mutexTick[c] = "ticks" <=> tickPc = "signal" /\ c = tickChannel

\* A channel without a tick waits for one, or for ever.
TickWaitInv ==
  /\ \A c \in Channel : tcPc[c] \notin {"lock", "asleep"} => c \in ticked
  /\ \A c \in Channel :
       tcPc[c] = "asleep" => condTick[c] # {} \/ c \in ticked \/ c \in forgotten

\* The thread of a channel is created once, and its buffer is not empty but for a read.
TickBufferInv ==
  /\ \A c \in Channel : tcPc[c] = "none" <=> c \notin created
  /\ \A c \in Channel : tcPc[c] \in {"write", "lock", "asleep", "next"} => numbers[c] > 0

TicksIInv == TickTypeOK /\ TickLockInv /\ TickWaitInv /\ TickBufferInv

\* What the lemmas below take from the numbers of the handlers.
LEMMA HandlersFact ==
  ASSUME NEW h \in Handler
  PROVE  h # NoThread /\ Mine(h) \in 1 .. 3 /\ NextOf(h) = (Mine(h) % 3) + 1
BY DEF Handler, NoThread, Mine, NextOf

\* All is well when the threads start.
LEMMA RelayStarts == ASSUME RelayInit PROVE RelayIInv
<1>1. Len(output) = 0 /\ output \in Seq(Handler) BY DEF RelayInit
<1>2. \A h \in Handler : h # NoThread BY HandlersFact
<1>a. RelayTypeOK BY <1>1, RelayAssumption DEF RelayInit, RelayTypeOK
<1>b. PrintsInTurn BY <1>1 DEF PrintsInTurn
<1>c. RelayLockInv BY <1>2 DEF RelayInit, RelayLockInv
<1>d. RelayOrderInv BY <1>1 DEF RelayInit, RelayOrderInv
<1>e. RelayTurnsInv BY RelayAssumption DEF RelayInit, RelayTurnsInv
<1>q. QED BY <1>a, <1>b, <1>c, <1>d, <1>e DEF RelayIInv

\* The one who takes the mutex holds it.
LEMMA RelayEnterTurns ==
  ASSUME RelayIInv, NEW h \in Handler, RelayEnter(h)
  PROVE  RelayIInv'
<1>a. RelayTypeOK /\ RelayLockInv /\ RelayOrderInv /\ RelayTurnsInv /\ PrintsInTurn BY DEF RelayIInv
<1>h. h # NoThread /\ Mine(h) \in 1 .. 3 /\ NextOf(h) = (Mine(h) % 3) + 1 BY HandlersFact
<1>n. \A g \in Handler : g # NoThread BY HandlersFact
<1>1. rePc[h] = "lock" /\ rePc' = [rePc EXCEPT ![h] = "test"] BY DEF RelayEnter, RelayGoto
<1>2. \A g \in Handler : rePc'[g] = IF g = h THEN "test" ELSE rePc[g]
  BY <1>a, <1>1 DEF RelayTypeOK
<1>3. flag' = flag /\ lock_flag = NoThread /\ lock_flag' = h /\ turns' = turns /\ output' = output
  BY DEF RelayEnter, Lock, Unlock
<1>4. Len(output) \in Nat BY <1>a DEF RelayTypeOK
<1>f. RelayTypeOK' BY <1>a, <1>1, <1>3, <1>h DEF RelayTypeOK
<1>g. PrintsInTurn' BY <1>a, <1>3 DEF PrintsInTurn, Mine
<1>i. RelayLockInv' BY <1>a, <1>1, <1>2, <1>3, <1>n DEF RelayLockInv
<1>j. RelayOrderInv' BY <1>a, <1>1, <1>2, <1>3, <1>4, <1>h DEF RelayOrderInv, RelayLockInv
<1>k. RelayTurnsInv' BY <1>a, <1>1, <1>2, <1>3, RelayAssumption DEF RelayTurnsInv, RelayTypeOK
<1>q. QED BY <1>f, <1>g, <1>i, <1>j, <1>k DEF RelayIInv

\* Who passes the flag on has it.
LEMMA TestTurns ==
  ASSUME RelayIInv, NEW h \in Handler, Test(h)
  PROVE  RelayIInv'
<1>a. RelayTypeOK /\ RelayLockInv /\ RelayOrderInv /\ RelayTurnsInv /\ PrintsInTurn BY DEF RelayIInv
<1>h. h # NoThread /\ Mine(h) \in 1 .. 3 /\ NextOf(h) = (Mine(h) % 3) + 1 BY HandlersFact
<1>n. \A g \in Handler : g # NoThread BY HandlersFact
<1>1. rePc[h] = "test" /\ rePc' = [rePc EXCEPT ![h] = IF flag = Mine(h) THEN "pass" ELSE "leave"]
  BY DEF Test, RelayGoto
<1>2. \A g \in Handler :
            rePc'[g] = IF g = h THEN IF flag = Mine(h) THEN "pass" ELSE "leave" ELSE rePc[g]
  BY <1>a, <1>1 DEF RelayTypeOK
<1>3. flag' = flag /\ lock_flag' = lock_flag /\ turns' = turns /\ output' = output
  BY DEF Test, Lock, Unlock
<1>4. Len(output) \in Nat BY <1>a DEF RelayTypeOK
<1>f. RelayTypeOK' BY <1>a, <1>1, <1>3, <1>h DEF RelayTypeOK
<1>g. PrintsInTurn' BY <1>a, <1>3 DEF PrintsInTurn, Mine
<1>i. RelayLockInv' BY <1>a, <1>1, <1>2, <1>3, <1>n DEF RelayLockInv
<1>j. RelayOrderInv' BY <1>a, <1>1, <1>2, <1>3, <1>4, <1>h DEF RelayOrderInv, RelayLockInv
<1>k. RelayTurnsInv' BY <1>a, <1>1, <1>2, <1>3, RelayAssumption DEF RelayTurnsInv, RelayTypeOK
<1>q. QED BY <1>f, <1>g, <1>i, <1>j, <1>k DEF RelayIInv

\* From then on the flag is one ahead of the letters.
LEMMA PassTurns ==
  ASSUME RelayIInv, NEW h \in Handler, Pass(h)
  PROVE  RelayIInv'
<1>a. RelayTypeOK /\ RelayLockInv /\ RelayOrderInv /\ RelayTurnsInv /\ PrintsInTurn BY DEF RelayIInv
<1>h. h # NoThread /\ Mine(h) \in 1 .. 3 /\ NextOf(h) = (Mine(h) % 3) + 1 BY HandlersFact
<1>n. \A g \in Handler : g # NoThread BY HandlersFact
<1>1. rePc[h] = "pass" /\ rePc' = [rePc EXCEPT ![h] = "print"] BY DEF Pass, RelayGoto
<1>2. \A g \in Handler : rePc'[g] = IF g = h THEN "print" ELSE rePc[g]
  BY <1>a, <1>1 DEF RelayTypeOK
<1>3. flag' = NextOf(h) /\ lock_flag' = lock_flag /\ turns' = turns /\ output' = output
  BY DEF Pass, Lock, Unlock
<1>4. Len(output) \in Nat BY <1>a DEF RelayTypeOK
<1>f. RelayTypeOK' BY <1>a, <1>1, <1>3, <1>h DEF RelayTypeOK
<1>g. PrintsInTurn' BY <1>a, <1>3 DEF PrintsInTurn, Mine
<1>i. RelayLockInv' BY <1>a, <1>1, <1>2, <1>3, <1>n DEF RelayLockInv
<1>j. RelayOrderInv' BY <1>a, <1>1, <1>2, <1>3, <1>4, <1>h DEF RelayOrderInv, RelayLockInv
<1>k. RelayTurnsInv' BY <1>a, <1>1, <1>2, <1>3, RelayAssumption DEF RelayTurnsInv, RelayTypeOK
<1>q. QED BY <1>f, <1>g, <1>i, <1>j, <1>k DEF RelayIInv

\* The letter is the one that is due, and the flag agrees with the letters again.
LEMMA SayTurns ==
  ASSUME RelayIInv, NEW h \in Handler, Say(h)
  PROVE  RelayIInv'
<1>a. RelayTypeOK /\ RelayLockInv /\ RelayOrderInv /\ RelayTurnsInv /\ PrintsInTurn BY DEF RelayIInv
<1>h. h # NoThread /\ Mine(h) \in 1 .. 3 /\ NextOf(h) = (Mine(h) % 3) + 1 BY HandlersFact
<1>n. \A g \in Handler : g # NoThread BY HandlersFact
<1>1. rePc[h] = "print" /\ rePc' = [rePc EXCEPT ![h] = "leave"] BY DEF Say, RelayGoto
<1>2. \A g \in Handler : rePc'[g] = IF g = h THEN "leave" ELSE rePc[g]
  BY <1>a, <1>1 DEF RelayTypeOK
<1>3. flag' = flag /\ lock_flag' = lock_flag /\ output' = Append(output, h)
  BY DEF Say
<1>4. output \in Seq(Handler) /\ Len(output) \in Nat /\ lock_flag = h
  BY <1>a, <1>1 DEF RelayTypeOK, RelayLockInv
<1>5. /\ output' \in Seq(Handler) /\ Len(output') = Len(output) + 1
      /\ output'[Len(output) + 1] = h
      /\ \A n \in 1 .. Len(output) : output'[n] = output[n]
  BY <1>3, <1>4
<1>6. /\ turns' = [turns EXCEPT ![h] = @ + 1] /\ turns[h] < Turns
      /\ turns \in [Handler -> 0 .. Turns]
  BY <1>a, <1>1 DEF Say, RelayTypeOK, RelayTurnsInv
<1>7. turns' \in [Handler -> 0 .. Turns] /\ \A g \in Handler : g # h => turns'[g] = turns[g]
  BY <1>6, RelayAssumption
<1>8. flag = NextOf(h) /\ Mine(h) = (Len(output) % 3) + 1 BY <1>a, <1>1 DEF RelayOrderInv
<1>9. flag = ((Len(output) + 1) % 3) + 1 BY <1>8, <1>h, <1>4
<1>10. \A g \in Handler : rePc'[g] \in {"test", "pass", "print", "leave"} => g = h
  BY <1>a, <1>2, <1>4 DEF RelayLockInv
<1>f. RelayTypeOK' BY <1>a, <1>1, <1>3, <1>5, <1>7 DEF RelayTypeOK
<1>g. PrintsInTurn'
  <2> SUFFICES ASSUME NEW n \in 1 .. Len(output')
               PROVE  Mine(output'[n]) = ((n - 1) % 3) + 1
    BY DEF PrintsInTurn, Mine
  <2>1. CASE n <= Len(output) BY <2>1, <1>a, <1>4, <1>5 DEF PrintsInTurn
  <2>2. CASE n = Len(output) + 1 BY <2>2, <1>5, <1>8, <1>4
  <2>q. QED BY <2>1, <2>2, <1>4, <1>5
<1>i. RelayLockInv' BY <1>a, <1>1, <1>2, <1>3, <1>n DEF RelayLockInv
<1>j. RelayOrderInv' BY <1>2, <1>3, <1>5, <1>9, <1>10 DEF RelayOrderInv
<1>k. RelayTurnsInv' BY <1>a, <1>2, <1>7 DEF RelayTurnsInv
<1>q. QED BY <1>f, <1>g, <1>i, <1>j, <1>k DEF RelayIInv

\* Who goes on has turns left.
LEMMA LeaveTurns ==
  ASSUME RelayIInv, NEW h \in Handler, Leave(h)
  PROVE  RelayIInv'
<1>a. RelayTypeOK /\ RelayLockInv /\ RelayOrderInv /\ RelayTurnsInv /\ PrintsInTurn BY DEF RelayIInv
<1>h. h # NoThread /\ Mine(h) \in 1 .. 3 /\ NextOf(h) = (Mine(h) % 3) + 1 BY HandlersFact
<1>n. \A g \in Handler : g # NoThread BY HandlersFact
<1>1. /\ rePc[h] = "leave"
      /\ rePc' = [rePc EXCEPT ![h] = IF turns[h] >= Turns THEN "ended" ELSE "lock"]
  BY DEF Leave, RelayGoto
<1>2. \A g \in Handler :
            rePc'[g] = IF g = h THEN IF turns[h] >= Turns THEN "ended" ELSE "lock" ELSE rePc[g]
  BY <1>a, <1>1 DEF RelayTypeOK
<1>3. flag' = flag /\ lock_flag' = NoThread /\ turns' = turns /\ output' = output
  BY DEF Leave, Lock, Unlock
<1>4. Len(output) \in Nat BY <1>a DEF RelayTypeOK
<1>f. RelayTypeOK' BY <1>a, <1>1, <1>3, <1>h DEF RelayTypeOK
<1>g. PrintsInTurn' BY <1>a, <1>3 DEF PrintsInTurn, Mine
<1>i. RelayLockInv' BY <1>a, <1>1, <1>2, <1>3, <1>n DEF RelayLockInv
<1>j. RelayOrderInv' BY <1>a, <1>1, <1>2, <1>3, <1>4, <1>h DEF RelayOrderInv, RelayLockInv
<1>k. RelayTurnsInv' BY <1>a, <1>1, <1>2, <1>3, RelayAssumption DEF RelayTurnsInv, RelayTypeOK
<1>q. QED BY <1>f, <1>g, <1>i, <1>j, <1>k DEF RelayIInv

\* 10practice.c: the letters are printed in turn.
THEOREM RelayIsInTurn == RelaySpec => []RelayInv
<1>1. RelayInit => RelayIInv BY RelayStarts
<1>2. RelayIInv /\ [RelayNext]_relayVars => RelayIInv'
  <2> SUFFICES ASSUME RelayIInv, [RelayNext]_relayVars PROVE RelayIInv' OBVIOUS
  <2>1. CASE UNCHANGED relayVars
    BY <2>1
    DEF relayVars, RelayIInv, RelayTypeOK, PrintsInTurn, RelayLockInv, RelayOrderInv,
        RelayTurnsInv, Mine, NextOf
  <2>2. ASSUME NEW h \in Handler, handler(h) PROVE RelayIInv'
    BY <2>2, RelayEnterTurns, TestTurns, PassTurns, SayTurns, LeaveTurns DEF handler
  <2>q. QED BY <2>1, <2>2 DEF RelayNext, RelayTerminated
<1>3. RelayIInv => RelayInv BY DEF RelayIInv, RelayInv
<1>q. QED BY <1>1, <1>2, <1>3, PTL DEF RelaySpec

\* All is well when the threads start.
LEMMA GameStarts == ASSUME GameInit PROVE GameIInv
<1>1. \A p \in Player : ppPc[p] = "lock" /\ ppI[p] = 0 BY DEF GameInit
<1>2. "ping" \in Player /\ "pong" \in Player /\ \A p \in Player : p # NoThread
  BY DEF Player, NoThread
<1>3. g_ready \in BOOLEAN BY DEF GameInit
<1>4. ppI \in [Player -> 0 .. MAX_COUNT] /\ ppIdle \in 0 .. MaxIdle
  BY PingPongAssumption DEF GameInit
<1>5. /\ thr_cond_lock \in Player \cup {NoThread} /\ thr_cond \subseteq Player
      /\ ppPc \in [Player -> {"lock", "begin", "sleep", "wait", "turn", "ended"}]
  BY DEF GameInit
<1>a. GameTypeOK BY <1>3, <1>4, <1>5 DEF GameTypeOK
<1>b. GameLockInv BY <1>1, <1>2 DEF GameInit, GameLockInv
<1>c. GameStartInv BY <1>1, <1>2, PingPongAssumption DEF GameInit, GameStartInv
<1>d. GameDueInv BY <1>1, <1>2 DEF GameInit, GameDueInv, Due, Started
<1>q. QED BY <1>a, <1>b, <1>c, <1>d DEF GameIInv

\* A thread that takes the mutex is where it was in the game.
LEMMA GameEnterKeeps ==
  ASSUME GameIInv, NEW p \in Player, GameEnter(p)
  PROVE  GameIInv'
<1>a. GameTypeOK /\ GameLockInv /\ GameStartInv /\ GameDueInv BY DEF GameIInv
<1>n. /\ Player = {"ping", "pong"} /\ \A r \in Player : r # NoThread
      /\ ppPc \in [Player -> {"lock", "begin", "sleep", "wait", "turn", "ended"}]
      /\ ppI \in [Player -> 0 .. MAX_COUNT] /\ ppIdle \in Nat
  BY <1>a, PingPongAssumption DEF Player, NoThread, GameTypeOK
<1>e. /\ ppPc[p] = "lock" /\ thr_cond_lock = NoThread /\ thr_cond_lock' = p
      /\ g_ready' = g_ready /\ thr_cond' = thr_cond /\ ppI' = ppI /\ ppIdle' = ppIdle
  BY DEF GameEnter, Lock
<1>p. /\ ppPc' = [ppPc EXCEPT ![p] = "begin"]
      /\ \A r \in Player : ppPc'[r] = IF r = p THEN "begin" ELSE ppPc[r]
  BY <1>n DEF GameEnter, GameGoto
<1>w. GameTypeOK' BY <1>a, <1>n, <1>e, <1>p DEF GameTypeOK
<1>x. GameLockInv' BY <1>a, <1>n, <1>e, <1>p DEF GameLockInv
<1>y. GameStartInv' BY <1>a, <1>n, <1>e, <1>p DEF GameStartInv
<1>z. GameDueInv' BY <1>a, <1>n, <1>e, <1>p DEF GameDueInv, Due, Started
<1>q. QED BY <1>w, <1>x, <1>y, <1>z DEF GameIInv

\* ping is ready and sleeps.
LEMMA PingReadyKeeps ==
  ASSUME GameIInv, PingReady
  PROVE  GameIInv'
<1>a. GameTypeOK /\ GameLockInv /\ GameStartInv /\ GameDueInv BY DEF GameIInv
<1>n. /\ Player = {"ping", "pong"} /\ \A r \in Player : r # NoThread
      /\ ppPc \in [Player -> {"lock", "begin", "sleep", "wait", "turn", "ended"}]
      /\ ppI \in [Player -> 0 .. MAX_COUNT] /\ ppIdle \in Nat
  BY <1>a, PingPongAssumption DEF Player, NoThread, GameTypeOK
<1>e. /\ ppPc["ping"] = "begin" /\ thr_cond_lock' = NoThread /\ g_ready' = TRUE
      /\ thr_cond' = thr_cond \cup {"ping"} /\ ppI' = ppI /\ ppIdle' = ppIdle
  BY DEF PingReady, CondWait
<1>p. /\ ppPc' = [ppPc EXCEPT !["ping"] = "wait"]
      /\ \A r \in Player : ppPc'[r] = IF r = "ping" THEN "wait" ELSE ppPc[r]
  BY <1>n DEF PingReady, GameGoto
<1>w. GameTypeOK' BY <1>a, <1>n, <1>e, <1>p DEF GameTypeOK
<1>x. GameLockInv' BY <1>a, <1>n, <1>e, <1>p DEF GameLockInv
<1>y. GameStartInv' BY <1>a, <1>n, <1>e, <1>p DEF GameStartInv
<1>z. GameDueInv' BY <1>a, <1>n, <1>e, <1>p DEF GameDueInv, Due, Started
<1>q. QED BY <1>w, <1>x, <1>y, <1>z DEF GameIInv

\* pong starts, and wakes ping if it sleeps still; or it gives the mutex back.
LEMMA PongPollKeeps ==
  ASSUME GameIInv, PongPoll
  PROVE  GameIInv'
<1>a. GameTypeOK /\ GameLockInv /\ GameStartInv /\ GameDueInv BY DEF GameIInv
<1>n. /\ Player = {"ping", "pong"} /\ \A r \in Player : r # NoThread
      /\ ppPc \in [Player -> {"lock", "begin", "sleep", "wait", "turn", "ended"}]
      /\ ppI \in [Player -> 0 .. MAX_COUNT] /\ ppIdle \in Nat
  BY <1>a, PingPongAssumption DEF Player, NoThread, GameTypeOK
<1>1. /\ ppPc["pong"] = "begin" /\ g_ready' = g_ready /\ ppI' = ppI /\ ppIdle' = ppIdle
      /\ thr_cond_lock = "pong"
  BY <1>a, <1>n DEF PongPoll, GameLockInv
<1>2. CASE ~ g_ready
  <2>e. thr_cond_lock' = NoThread /\ thr_cond' = thr_cond BY <1>2 DEF PongPoll, Unlock
  <2>p. /\ ppPc' = [ppPc EXCEPT !["pong"] = "lock"]
        /\ \A r \in Player : ppPc'[r] = IF r = "pong" THEN "lock" ELSE ppPc[r]
    BY <1>2, <1>n DEF PongPoll, GameGoto
  <2>w. GameTypeOK' BY <1>a, <1>n, <1>1, <2>e, <2>p DEF GameTypeOK
  <2>x. GameLockInv' BY <1>a, <1>n, <1>1, <2>e, <2>p DEF GameLockInv
  <2>y. GameStartInv' BY <1>a, <1>n, <1>1, <2>e, <2>p DEF GameStartInv
  <2>z. GameDueInv' BY <1>a, <1>n, <1>1, <2>e, <2>p DEF GameDueInv, Due, Started
  <2>q. QED BY <2>w, <2>x, <2>y, <2>z DEF GameIInv
<1>3. CASE g_ready
  <2>e. thr_cond_lock' = thr_cond_lock /\ CondSignal(thr_cond) BY <1>3 DEF PongPoll
  <2>t. thr_cond \subseteq {"ping"} /\ thr_cond' = {}
    BY <1>a, <1>n, <1>1, <2>e DEF CondSignal, GameLockInv, GameTypeOK
  <2>p. /\ ppPc' = [ppPc EXCEPT !["pong"] = "sleep"]
        /\ \A r \in Player : ppPc'[r] = IF r = "pong" THEN "sleep" ELSE ppPc[r]
    BY <1>3, <1>n DEF PongPoll, GameGoto, FirstOfPong
  <2>w. GameTypeOK' BY <1>a, <1>n, <1>1, <2>e, <2>t, <2>p DEF GameTypeOK
  <2>x. GameLockInv' BY <1>a, <1>n, <1>1, <2>e, <2>t, <2>p DEF GameLockInv
  <2>r. g_ready' /\ ppPc["ping"] \notin {"lock", "begin"} BY <1>a, <1>1, <1>3 DEF GameStartInv
  <2>s. \A r \in Player : ppI'[r] = MAX_COUNT <=> ppPc'[r] = "ended"
    BY <1>a, <1>n, <1>1, <2>p DEF GameStartInv
  <2>y. GameStartInv' BY <1>n, <2>p, <2>r, <2>s DEF GameStartInv
  <2>z. GameDueInv' BY <1>a, <1>n, <1>1, <2>e, <2>t, <2>p DEF GameDueInv, Due, Started
  <2>q. QED BY <2>w, <2>x, <2>y, <2>z DEF GameIInv
<1>q. QED BY <1>2, <1>3

\* Nobody is due while it sleeps.
LEMMA SleepKeeps ==
  ASSUME GameIInv, NEW p \in Player, Sleep(p)
  PROVE  GameIInv'
<1>a. GameTypeOK /\ GameLockInv /\ GameStartInv /\ GameDueInv BY DEF GameIInv
<1>n. /\ Player = {"ping", "pong"} /\ \A r \in Player : r # NoThread
      /\ ppPc \in [Player -> {"lock", "begin", "sleep", "wait", "turn", "ended"}]
      /\ ppI \in [Player -> 0 .. MAX_COUNT] /\ ppIdle \in Nat
  BY <1>a, PingPongAssumption DEF Player, NoThread, GameTypeOK
<1>e. /\ ppPc[p] = "sleep" /\ thr_cond_lock' = NoThread /\ g_ready' = g_ready
      /\ thr_cond' = thr_cond \cup {p} /\ ppI' = ppI /\ ppIdle' = ppIdle
  BY DEF Sleep, CondWait
<1>p. /\ ppPc' = [ppPc EXCEPT ![p] = "wait"]
      /\ \A r \in Player : ppPc'[r] = IF r = p THEN "wait" ELSE ppPc[r]
  BY <1>n DEF Sleep, GameGoto
<1>w. GameTypeOK' BY <1>a, <1>n, <1>e, <1>p DEF GameTypeOK
<1>x. GameLockInv' BY <1>a, <1>n, <1>e, <1>p DEF GameLockInv
<1>y. GameStartInv' BY <1>a, <1>n, <1>e, <1>p DEF GameStartInv
<1>z. GameDueInv' BY <1>a, <1>n, <1>e, <1>p DEF GameDueInv, Due, Started
<1>q. QED BY <1>w, <1>x, <1>y, <1>z DEF GameIInv

\* Who has been woken is due before and after it has the mutex.
LEMMA WakeUpKeeps ==
  ASSUME GameIInv, NEW p \in Player, WakeUp(p)
  PROVE  GameIInv'
<1>a. GameTypeOK /\ GameLockInv /\ GameStartInv /\ GameDueInv BY DEF GameIInv
<1>n. /\ Player = {"ping", "pong"} /\ \A r \in Player : r # NoThread
      /\ ppPc \in [Player -> {"lock", "begin", "sleep", "wait", "turn", "ended"}]
      /\ ppI \in [Player -> 0 .. MAX_COUNT] /\ ppIdle \in Nat
  BY <1>a, PingPongAssumption DEF Player, NoThread, GameTypeOK
<1>e. /\ ppPc[p] = "wait" /\ thr_cond_lock = NoThread /\ thr_cond_lock' = p /\ g_ready' = g_ready
      /\ p \notin thr_cond /\ thr_cond' = thr_cond /\ ppI' = ppI /\ ppIdle' = ppIdle
  BY DEF WakeUp, CondResume
<1>p. /\ ppPc' = [ppPc EXCEPT ![p] = "turn"]
      /\ \A r \in Player : ppPc'[r] = IF r = p THEN "turn" ELSE ppPc[r]
  BY <1>n DEF WakeUp, GameGoto
<1>w. GameTypeOK' BY <1>a, <1>n, <1>e, <1>p DEF GameTypeOK
<1>x. GameLockInv' BY <1>a, <1>n, <1>e, <1>p DEF GameLockInv
<1>y. GameStartInv' BY <1>a, <1>n, <1>e, <1>p DEF GameStartInv
<1>z. GameDueInv' BY <1>a, <1>n, <1>e, <1>p DEF GameDueInv, Due, Started
<1>q. QED BY <1>w, <1>x, <1>y, <1>z DEF GameIInv

\* A turn taken is no longer due; the other is due for it, if it sleeps.
LEMMA TurnKeeps ==
  ASSUME GameIInv, NEW p \in Player, Turn(p)
  PROVE  GameIInv'
<1>a. GameTypeOK /\ GameLockInv /\ GameStartInv /\ GameDueInv BY DEF GameIInv
<1>n. /\ Player = {"ping", "pong"} /\ \A r \in Player : r # NoThread
      /\ ppPc \in [Player -> {"lock", "begin", "sleep", "wait", "turn", "ended"}]
      /\ ppI \in [Player -> 0 .. MAX_COUNT] /\ ppIdle \in Nat
  BY <1>a, PingPongAssumption DEF Player, NoThread, GameTypeOK
<1>1. /\ ppPc[p] = "turn" /\ g_ready' = g_ready /\ ppIdle' = ppIdle /\ thr_cond_lock = p
      /\ ppI' = [ppI EXCEPT ![p] = @ + 1] /\ CondSignal(thr_cond)
  BY <1>a, <1>n DEF Turn, WakeTheOther, GameLockInv
<1>2. PICK o \in Player : o # p /\ Player = {p, o} BY <1>n
<1>3. ppI[p] \in Nat /\ ppI[p] < MAX_COUNT
  BY <1>a, <1>n, <1>1, PingPongAssumption DEF GameStartInv
<1>4. ppI'[p] = ppI[p] + 1 /\ ppI'[o] = ppI[o] /\ ppI' \in [Player -> 0 .. MAX_COUNT]
  BY <1>n, <1>1, <1>2, <1>3, PingPongAssumption
<1>t. thr_cond \subseteq {o} /\ thr_cond' = {}
  BY <1>a, <1>1, <1>2 DEF CondSignal, GameLockInv, GameTypeOK
<1>s. Due(p) = 1 /\ Due(o) \in {0, 1} BY <1>1 DEF Due
<1>5. ASSUME NEW to \in {"ended", "sleep"}, ppPc' = [ppPc EXCEPT ![p] = to],
             thr_cond_lock' = IF to = "ended" THEN NoThread ELSE thr_cond_lock,
             to = "ended" <=> ppI'[p] = MAX_COUNT
      PROVE  GameIInv'
  <2>p. ppPc'[p] = to /\ ppPc'[o] = ppPc[o] BY <1>n, <1>2, <1>5
  <2>w. GameTypeOK' BY <1>a, <1>n, <1>1, <1>4, <1>t, <1>5, <2>p DEF GameTypeOK
  <2>x. GameLockInv' BY <1>a, <1>n, <1>1, <1>2, <1>t, <1>5, <2>p DEF GameLockInv
  <2>y. GameStartInv' BY <1>a, <1>n, <1>1, <1>2, <1>4, <1>5, <2>p DEF GameStartInv
  <2>z. GameDueInv'
    <3>1. Started' = Started BY <1>n, <1>1, <1>2, <1>5, <2>p DEF Started
    <3>2. Due(p)' = 0 /\ Due(o)' <= 1 /\ (Due(o)' = 0 \/ Due(o)' = 1)
      BY <1>1, <1>5, <2>p DEF Due
    <3>3. CASE p = "ping"
      BY <1>a, <1>n, <1>1, <1>2, <1>4, <1>s, <3>1, <3>2, <3>3 DEF GameDueInv, Started
    <3>4. CASE p = "pong"
      BY <1>a, <1>n, <1>1, <1>2, <1>4, <1>s, <3>1, <3>2, <3>4 DEF GameDueInv, Started
    <3>q. QED BY <1>n, <3>3, <3>4
  <2>q. QED BY <2>w, <2>x, <2>y, <2>z DEF GameIInv
<1>6. CASE ppI'[p] = MAX_COUNT BY <1>5, <1>6 DEF Turn, Last, Unlock, GameGoto
<1>7. CASE ppI'[p] # MAX_COUNT BY <1>5, <1>7 DEF Turn, Last, GameGoto
<1>q. QED BY <1>6, <1>7

\* A wake-up by nobody makes one turn due that is not.
LEMMA GameSpuriousKeeps ==
  ASSUME GameIInv, SpuriousWakeup
  PROVE  GameIInv'
<1>a. GameTypeOK /\ GameLockInv /\ GameStartInv /\ GameDueInv BY DEF GameIInv
<1>n. /\ Player = {"ping", "pong"} /\ \A r \in Player : r # NoThread
      /\ ppPc \in [Player -> {"lock", "begin", "sleep", "wait", "turn", "ended"}]
      /\ ppI \in [Player -> 0 .. MAX_COUNT] /\ ppIdle \in Nat
  BY <1>a, PingPongAssumption DEF Player, NoThread, GameTypeOK
<1>1. /\ g_ready' = g_ready /\ thr_cond_lock' = thr_cond_lock /\ ppPc' = ppPc /\ ppI' = ppI
      /\ ppIdle < MaxIdle /\ ppIdle' = ppIdle + 1
  BY DEF SpuriousWakeup
<1>2. PICK p \in thr_cond : thr_cond' = thr_cond \ {p} BY DEF SpuriousWakeup, Spurious
<1>3. p \in Player /\ ppPc[p] = "wait" BY <1>a DEF GameLockInv, GameTypeOK
<1>w. GameTypeOK' BY <1>a, <1>1, <1>2, PingPongAssumption DEF GameTypeOK
<1>x. GameLockInv' BY <1>a, <1>1, <1>2 DEF GameLockInv
<1>y. GameStartInv' BY <1>a, <1>1 DEF GameStartInv
<1>z. GameDueInv' BY <1>a, <1>n, <1>1, <1>2, <1>3 DEF GameDueInv, Due, Started
<1>q. QED BY <1>w, <1>x, <1>y, <1>z DEF GameIInv

\* With no wake-up by nobody exactly one turn is due from pong's start on, and the other
\* sleeps for it, or has ended.
LEMMA GameInOrder == ASSUME GameIInv PROVE PingPongInv
<1>a. GameTypeOK /\ GameLockInv /\ GameStartInv /\ GameDueInv BY DEF GameIInv
<1>n. /\ Player = {"ping", "pong"} /\ ppI["ping"] \in 0 .. MAX_COUNT
      /\ ppI["pong"] \in 0 .. MAX_COUNT /\ ppIdle \in Nat /\ MAX_COUNT \in Nat
      /\ \A p \in Player : ppPc[p] \in {"lock", "begin", "sleep", "wait", "turn", "ended"}
      /\ \A p \in Player : p \in {"ping", "pong"}
  BY <1>a, PingPongAssumption DEF Player, GameTypeOK
<1>s. /\ Due("ping") \in {0, 1} /\ Due("pong") \in {0, 1} /\ Started \in {0, 1}
      /\ \A p \in Player : ppPc[p] = "turn" => Due(p) = 1
  BY DEF Due, Started
<1>1. AtMostOneTurnEach
  BY <1>a, <1>n, <1>s DEF AtMostOneTurnEach, GameDueInv
<1>2. InTurn BY <1>1, <1>n DEF InTurn, AtMostOneTurnEach
<1>3. NoSignalIsLost
  <2> SUFFICES ASSUME ppIdle = 0, NEW p \in Player, ppPc[p] = "turn"
               PROVE  Other(p) \in thr_cond \/ (p = "pong" /\ ppI["pong"] + 1 = MAX_COUNT)
    BY DEF NoSignalIsLost
  <2>l. /\ thr_cond_lock = p
        /\ \A r \in Player : r # p => ppPc[r] \notin {"begin", "sleep", "turn"}
    BY <1>a, <1>n DEF GameLockInv
  <2>1. CASE p = "ping"
    <3>1. Due("ping") = 1 BY <2>1, <1>s
    <3>2. ppI["ping"] = ppI["pong"] /\ Due("pong") = 0 /\ Started = 1
      BY <1>a, <1>n, <1>s, <3>1 DEF GameDueInv
    <3>3. ppPc["pong"] # "ended" BY <1>a, <1>n, <2>1, <3>2 DEF GameStartInv
    <3>4. ppPc["pong"] = "wait" BY <1>n, <2>l, <2>1, <3>2, <3>3 DEF Started
    <3>q. QED BY <2>1, <3>2, <3>4 DEF Due, Other
  <2>2. CASE p = "pong"
    <3>1. Due("pong") = 1 BY <2>2, <1>s
    <3>2. ppI["ping"] = ppI["pong"] + 1 /\ Due("ping") = 0
      BY <1>a, <1>n, <1>s, <3>1 DEF GameDueInv
    <3>3. ppPc["ping"] \in {"wait", "ended"}
      BY <1>a, <1>n, <2>l, <2>2 DEF GameStartInv
    <3>4. CASE ppPc["ping"] = "wait" BY <2>2, <3>2, <3>4 DEF Due, Other
    <3>5. CASE ppPc["ping"] = "ended" BY <1>a, <1>n, <2>2, <3>2, <3>5 DEF GameStartInv
    <3>q. QED BY <3>3, <3>4, <3>5
  <2>q. QED BY <1>n, <2>1, <2>2
<1>q. QED BY <1>a, <1>1, <1>2, <1>3 DEF PingPongInv

\* ping_pong.c: the game keeps its order as far as nobody wakes up by itself.
THEOREM GameIsInOrder == GameSpec => []PingPongInv
<1>1. GameInit => GameIInv BY GameStarts
<1>2. GameIInv /\ [GameNext]_gameVars => GameIInv'
  <2> SUFFICES ASSUME GameIInv, [GameNext]_gameVars PROVE GameIInv' OBVIOUS
  <2>1. CASE UNCHANGED gameVars
    BY <2>1
    DEF gameVars, GameIInv, GameTypeOK, GameLockInv, GameStartInv, GameDueInv, Due, Started
  <2>n. "ping" \in Player /\ "pong" \in Player BY DEF Player
  <2>2. CASE thread_ping
    BY <2>2, <2>n, PingReadyKeeps, GameEnterKeeps, SleepKeeps, WakeUpKeeps, TurnKeeps
    DEF thread_ping
  <2>3. CASE thread_pong
    BY <2>3, <2>n, PongPollKeeps, GameEnterKeeps, SleepKeeps, WakeUpKeeps, TurnKeeps
    DEF thread_pong
  <2>4. CASE SpuriousWakeup BY <2>4, GameSpuriousKeeps
  <2>q. QED BY <2>1, <2>2, <2>3, <2>4 DEF GameNext, Stopped
<1>3. GameIInv => PingPongInv BY GameInOrder
<1>q. QED BY <1>1, <1>2, <1>3, PTL DEF GameSpec

\* All is well when main() starts.
LEMMA TicksStart == ASSUME TickInit PROVE TicksIInv
<1>1. 1 \in Channel BY TickAssumption DEF Channel
<1>a. TickTypeOK BY <1>1, TickAssumption DEF TickInit, TickTypeOK, NoThread
<1>b. TickLockInv BY DEF TickInit, TickLockInv, NoThread
<1>c. TickWaitInv BY DEF TickInit, TickWaitInv
<1>d. TickBufferInv BY DEF TickInit, TickBufferInv
<1>q. QED BY <1>a, <1>b, <1>c, <1>d DEF TicksIInv

\* The thread that is created has no number to write.
LEMMA CreateKeeps ==
  ASSUME TicksIInv, Create
  PROVE  TicksIInv'
<1>a. TickTypeOK /\ TickLockInv /\ TickWaitInv /\ TickBufferInv BY DEF TicksIInv
<1>n. /\ tcPc \in [Channel -> {"none", "open", "read", "write", "lock", "asleep", "next", "ended"}]
      /\ condTick \in [Channel -> {{}, {Sleeper}}] /\ numbers \in [Channel -> 0 .. MaxNumbers]
      /\ mutexTick \in [Channel -> {"ticks", NoThread}] /\ NoThread # "ticks"
  BY <1>a DEF TickTypeOK, NoThread
<1>c. PICK c \in Channel \ created : created' = created \cup {c} /\ TickGoto(c, "open")
  BY DEF Create
<1>e. /\ mutexTick' = mutexTick /\ condTick' = condTick
      /\ tickPc' = tickPc /\ tickChannel' = tickChannel
      /\ numbers' = numbers /\ ticked' = ticked /\ forgotten' = forgotten
  BY DEF Create, ticks
<1>p. /\ tcPc' = [tcPc EXCEPT ![c] = "open"]
      /\ \A d \in Channel : tcPc'[d] = IF d = c THEN "open" ELSE tcPc[d]
  BY <1>n, <1>c DEF TickGoto
<1>w. TickTypeOK' BY <1>a, <1>c, <1>e, <1>p DEF TickTypeOK
<1>x. TickLockInv' BY <1>a, <1>e DEF TickLockInv
<1>y. TickWaitInv' BY <1>a, <1>c, <1>e, <1>p DEF TickWaitInv, TickBufferInv
<1>z. TickBufferInv' BY <1>a, <1>c, <1>e, <1>p DEF TickBufferInv
<1>q. QED BY <1>w, <1>x, <1>y, <1>z DEF TicksIInv

\* The channel after this one is a channel.
LEMMA NextChannelFact ==
  ASSUME tickChannel \in Channel PROVE NextChannel \in Channel
BY TickAssumption DEF Channel, NextChannel

\* A channel asleep on a condition that is initialised is one of the forgotten.
LEMMA InitChannelKeeps ==
  ASSUME TicksIInv, InitChannel
  PROVE  TicksIInv'
<1>a. TickTypeOK /\ TickLockInv /\ TickWaitInv /\ TickBufferInv BY DEF TicksIInv
<1>n. /\ tcPc \in [Channel -> {"none", "open", "read", "write", "lock", "asleep", "next", "ended"}]
      /\ condTick \in [Channel -> {{}, {Sleeper}}] /\ numbers \in [Channel -> 0 .. MaxNumbers]
      /\ mutexTick \in [Channel -> {"ticks", NoThread}] /\ NoThread # "ticks"
  BY <1>a DEF TickTypeOK, NoThread
<1>e. /\ tickPc = "init" /\ tickPc' \in {"init", "lock"} /\ tickChannel' = NextChannel
      /\ mutexTick' = [mutexTick EXCEPT ![tickChannel] = NoThread]
      /\ condTick' = [condTick EXCEPT ![tickChannel] = {}]
     
      /\ forgotten' = IF condTick[tickChannel] = {} THEN forgotten ELSE forgotten \cup {tickChannel}
      /\ created' = created /\ tcPc' = tcPc /\ numbers' = numbers /\ ticked' = ticked
  BY DEF InitChannel, OfChannel
<1>t. tickChannel \in Channel /\ tickChannel' \in Channel
  BY <1>a, <1>e, NextChannelFact DEF TickTypeOK
<1>m. /\ \A c \in Channel : mutexTick'[c] = NoThread
      /\ mutexTick' \in [Channel -> {"ticks", NoThread}]
  BY <1>a, <1>n, <1>e, <1>t DEF TickLockInv
<1>p. /\ \A c \in Channel : condTick'[c] = IF c = tickChannel THEN {} ELSE condTick[c]
      /\ condTick' \in [Channel -> {{}, {Sleeper}}]
  BY <1>n, <1>e, <1>t
<1>w. TickTypeOK' BY <1>a, <1>n, <1>e, <1>t, <1>m, <1>p DEF TickTypeOK
<1>x. TickLockInv' BY <1>n, <1>e, <1>m DEF TickLockInv
<1>y. TickWaitInv' BY <1>a, <1>e, <1>p DEF TickWaitInv
<1>z. TickBufferInv' BY <1>a, <1>e DEF TickBufferInv
<1>q. QED BY <1>w, <1>x, <1>y, <1>z DEF TicksIInv

\* The ticks take the mutex of the channel that is next.
LEMMA TickLockKeeps ==
  ASSUME TicksIInv, TickLock
  PROVE  TicksIInv'
<1>a. TickTypeOK /\ TickLockInv /\ TickWaitInv /\ TickBufferInv BY DEF TicksIInv
<1>n. /\ tcPc \in [Channel -> {"none", "open", "read", "write", "lock", "asleep", "next", "ended"}]
      /\ condTick \in [Channel -> {{}, {Sleeper}}] /\ numbers \in [Channel -> 0 .. MaxNumbers]
      /\ mutexTick \in [Channel -> {"ticks", NoThread}] /\ NoThread # "ticks"
  BY <1>a DEF TickTypeOK, NoThread
<1>e. /\ tickPc = "lock" /\ tickPc' = "signal" /\ tickChannel' = tickChannel
      /\ mutexTick' = [mutexTick EXCEPT ![tickChannel] = "ticks"] /\ condTick' = condTick
      /\ created' = created /\ tcPc' = tcPc /\ numbers' = numbers
      /\ ticked' = ticked /\ forgotten' = forgotten
  BY DEF TickLock, OfChannel
<1>t. tickChannel \in Channel BY <1>a DEF TickTypeOK
<1>m. /\ \A c \in Channel : mutexTick'[c] = IF c = tickChannel THEN "ticks" ELSE mutexTick[c]
      /\ mutexTick' \in [Channel -> {"ticks", NoThread}]
  BY <1>n, <1>e, <1>t
<1>l. \A c \in Channel : mutexTick[c] # "ticks" BY <1>a, <1>e DEF TickLockInv
<1>w. TickTypeOK' BY <1>a, <1>e, <1>m, <1>l DEF TickTypeOK
<1>x. TickLockInv' BY <1>e, <1>m, <1>l DEF TickLockInv
<1>y. TickWaitInv' BY <1>a, <1>e DEF TickWaitInv
<1>z. TickBufferInv' BY <1>a, <1>e DEF TickBufferInv
<1>q. QED BY <1>w, <1>x, <1>y, <1>z DEF TicksIInv

\* Whom the ticks wake has its tick.
LEMMA TickKeeps ==
  ASSUME TicksIInv, Tick
  PROVE  TicksIInv'
<1>a. TickTypeOK /\ TickLockInv /\ TickWaitInv /\ TickBufferInv BY DEF TicksIInv
<1>n. /\ tcPc \in [Channel -> {"none", "open", "read", "write", "lock", "asleep", "next", "ended"}]
      /\ condTick \in [Channel -> {{}, {Sleeper}}] /\ numbers \in [Channel -> 0 .. MaxNumbers]
      /\ mutexTick \in [Channel -> {"ticks", NoThread}] /\ NoThread # "ticks"
  BY <1>a DEF TickTypeOK, NoThread
<1>t. tickChannel \in Channel /\ NextChannel \in Channel /\ Signalled
  BY <1>a, NextChannelFact, TickAssumption DEF TickTypeOK, Signalled, Channel
<1>e. /\ tickPc = "signal" /\ tickPc' = "lock" /\ tickChannel' = NextChannel
      /\ mutexTick' = [mutexTick EXCEPT ![tickChannel] = NoThread]
      /\ condTick' = [condTick EXCEPT ![tickChannel] = {}]
      /\ ticked' = IF condTick[tickChannel] = {} THEN ticked ELSE ticked \cup {tickChannel}
      /\ created' = created /\ tcPc' = tcPc /\ numbers' = numbers /\ forgotten' = forgotten
  BY <1>t DEF Tick, OfChannel, Awoken
<1>m. /\ \A c \in Channel : mutexTick'[c] = NoThread
      /\ mutexTick' \in [Channel -> {"ticks", NoThread}]
  BY <1>a, <1>n, <1>e, <1>t DEF TickLockInv
<1>p. /\ \A c \in Channel : condTick'[c] = IF c = tickChannel THEN {} ELSE condTick[c]
      /\ condTick' \in [Channel -> {{}, {Sleeper}}]
  BY <1>n, <1>e, <1>t
<1>w. TickTypeOK' BY <1>a, <1>n, <1>e, <1>t, <1>m, <1>p DEF TickTypeOK
<1>x. TickLockInv' BY <1>n, <1>e, <1>m DEF TickLockInv
<1>y. TickWaitInv' BY <1>a, <1>e, <1>p DEF TickWaitInv
<1>z. TickBufferInv' BY <1>a, <1>e DEF TickBufferInv
<1>q. QED BY <1>w, <1>x, <1>y, <1>z DEF TicksIInv

\* The thread reads, or ends.
LEMMA OpenKeeps ==
  ASSUME TicksIInv, NEW c \in Channel, Open(c)
  PROVE  TicksIInv'
<1>a. TickTypeOK /\ TickLockInv /\ TickWaitInv /\ TickBufferInv BY DEF TicksIInv
<1>n. /\ tcPc \in [Channel -> {"none", "open", "read", "write", "lock", "asleep", "next", "ended"}]
      /\ condTick \in [Channel -> {{}, {Sleeper}}] /\ numbers \in [Channel -> 0 .. MaxNumbers]
      /\ mutexTick \in [Channel -> {"ticks", NoThread}] /\ NoThread # "ticks"
  BY <1>a DEF TickTypeOK, NoThread
<1>e. /\ tcPc[c] = "open"
      /\ mutexTick' = mutexTick /\ condTick' = condTick
      /\ tickPc' = tickPc /\ tickChannel' = tickChannel
      /\ created' = created /\ numbers' = numbers /\ ticked' = ticked /\ forgotten' = forgotten
  BY DEF Open, ticks
<1>o. PICK to \in {"read", "ended"} : tcPc' = [tcPc EXCEPT ![c] = to]
  BY DEF Open, TickGoto
<1>p. \A d \in Channel : tcPc'[d] = IF d = c THEN to ELSE tcPc[d] BY <1>n, <1>o
<1>w. TickTypeOK' BY <1>a, <1>n, <1>e, <1>p, <1>o DEF TickTypeOK
<1>x. TickLockInv' BY <1>a, <1>n, <1>e, <1>p, <1>o DEF TickLockInv
<1>y. TickWaitInv' BY <1>a, <1>n, <1>e, <1>p, <1>o DEF TickWaitInv
<1>z. TickBufferInv' BY <1>a, <1>n, <1>e, <1>p, <1>o DEF TickBufferInv
<1>q. QED BY <1>w, <1>x, <1>y, <1>z DEF TicksIInv

\* A buffer that is read is not empty.
LEMMA ReadKeeps ==
  ASSUME TicksIInv, NEW c \in Channel, Read(c)
  PROVE  TicksIInv'
<1>a. TickTypeOK /\ TickLockInv /\ TickWaitInv /\ TickBufferInv BY DEF TicksIInv
<1>n. /\ tcPc \in [Channel -> {"none", "open", "read", "write", "lock", "asleep", "next", "ended"}]
      /\ condTick \in [Channel -> {{}, {Sleeper}}] /\ numbers \in [Channel -> 0 .. MaxNumbers]
      /\ mutexTick \in [Channel -> {"ticks", NoThread}] /\ NoThread # "ticks"
  BY <1>a DEF TickTypeOK, NoThread
<1>k. /\ numbers' \in [Channel -> 0 .. MaxNumbers] /\ numbers'[c] > 0
      /\ \A d \in Channel : d # c => numbers'[d] = numbers[d]
  BY <1>n, TickAssumption DEF Read
<1>e. /\ tcPc[c] = "read"
      /\ mutexTick' = mutexTick /\ condTick' = condTick
      /\ tickPc' = tickPc /\ tickChannel' = tickChannel
      /\ created' = created /\ ticked' = ticked /\ forgotten' = forgotten
  BY DEF Read, ticks
<1>p. /\ tcPc' = [tcPc EXCEPT ![c] = "write"]
      /\ \A d \in Channel : tcPc'[d] = IF d = c THEN "write" ELSE tcPc[d]
  BY <1>n DEF Read, TickGoto
<1>w. TickTypeOK' BY <1>a, <1>n, <1>e, <1>p, <1>k DEF TickTypeOK
<1>x. TickLockInv' BY <1>a, <1>n, <1>e, <1>p, <1>k DEF TickLockInv
<1>y. TickWaitInv' BY <1>a, <1>n, <1>e, <1>p, <1>k DEF TickWaitInv
<1>z. TickBufferInv' BY <1>a, <1>n, <1>e, <1>p, <1>k DEF TickBufferInv
<1>q. QED BY <1>w, <1>x, <1>y, <1>z DEF TicksIInv

\* A number takes the tick away.
LEMMA WriteKeeps ==
  ASSUME TicksIInv, NEW c \in Channel, Write(c)
  PROVE  TicksIInv'
<1>a. TickTypeOK /\ TickLockInv /\ TickWaitInv /\ TickBufferInv BY DEF TicksIInv
<1>n. /\ tcPc \in [Channel -> {"none", "open", "read", "write", "lock", "asleep", "next", "ended"}]
      /\ condTick \in [Channel -> {{}, {Sleeper}}] /\ numbers \in [Channel -> 0 .. MaxNumbers]
      /\ mutexTick \in [Channel -> {"ticks", NoThread}] /\ NoThread # "ticks"
  BY <1>a DEF TickTypeOK, NoThread
<1>e. /\ tcPc[c] = "write"
      /\ mutexTick' = mutexTick /\ condTick' = condTick
      /\ tickPc' = tickPc /\ tickChannel' = tickChannel
      /\ created' = created /\ numbers' = numbers /\ ticked' = ticked \ {c}
      /\ forgotten' = forgotten
  BY DEF Write, ticks
<1>p. /\ tcPc' = [tcPc EXCEPT ![c] = "lock"]
      /\ \A d \in Channel : tcPc'[d] = IF d = c THEN "lock" ELSE tcPc[d]
  BY <1>n DEF Write, AfterWrite, TickGoto
<1>w. TickTypeOK' BY <1>a, <1>n, <1>e, <1>p DEF TickTypeOK
<1>x. TickLockInv' BY <1>a, <1>n, <1>e, <1>p DEF TickLockInv
<1>y. TickWaitInv' BY <1>a, <1>n, <1>e, <1>p DEF TickWaitInv
<1>z. TickBufferInv' BY <1>a, <1>n, <1>e, <1>p DEF TickBufferInv
<1>q. QED BY <1>w, <1>x, <1>y, <1>z DEF TicksIInv

\* The channel sleeps until its condition is signalled.
LEMMA WaitTickKeeps ==
  ASSUME TicksIInv, NEW c \in Channel, WaitTick(c)
  PROVE  TicksIInv'
<1>a. TickTypeOK /\ TickLockInv /\ TickWaitInv /\ TickBufferInv BY DEF TicksIInv
<1>n. /\ tcPc \in [Channel -> {"none", "open", "read", "write", "lock", "asleep", "next", "ended"}]
      /\ condTick \in [Channel -> {{}, {Sleeper}}] /\ numbers \in [Channel -> 0 .. MaxNumbers]
      /\ mutexTick \in [Channel -> {"ticks", NoThread}] /\ NoThread # "ticks"
  BY <1>a DEF TickTypeOK, NoThread
<1>k. /\ condTick' \in [Channel -> {{}, {Sleeper}}]
      /\ \A d \in Channel : condTick'[d] = IF d = c THEN {Sleeper} ELSE condTick[d]
  BY <1>n DEF WaitTick, OfChannel
<1>e. /\ tcPc[c] = "lock"
      /\ mutexTick' = mutexTick
      /\ tickPc' = tickPc /\ tickChannel' = tickChannel
      /\ condTick' = [condTick EXCEPT ![c] = {Sleeper}]
      /\ created' = created /\ numbers' = numbers /\ ticked' = ticked /\ forgotten' = forgotten
  BY DEF WaitTick, OfChannel
<1>p. /\ tcPc' = [tcPc EXCEPT ![c] = "asleep"]
      /\ \A d \in Channel : tcPc'[d] = IF d = c THEN "asleep" ELSE tcPc[d]
  BY <1>n DEF WaitTick, TickGoto
<1>w. TickTypeOK' BY <1>a, <1>n, <1>e, <1>p, <1>k DEF TickTypeOK
<1>x. TickLockInv' BY <1>a, <1>n, <1>e, <1>p, <1>k DEF TickLockInv
<1>y. TickWaitInv' BY <1>a, <1>n, <1>e, <1>p, <1>k DEF TickWaitInv
<1>z. TickBufferInv' BY <1>a, <1>n, <1>e, <1>p, <1>k DEF TickBufferInv
<1>q. QED BY <1>w, <1>x, <1>y, <1>z DEF TicksIInv

\* Who is awake and not forgotten has had its tick.
LEMMA AwakeKeeps ==
  ASSUME TicksIInv, NEW c \in Channel, Awake(c)
  PROVE  TicksIInv'
<1>a. TickTypeOK /\ TickLockInv /\ TickWaitInv /\ TickBufferInv BY DEF TicksIInv
<1>n. /\ tcPc \in [Channel -> {"none", "open", "read", "write", "lock", "asleep", "next", "ended"}]
      /\ condTick \in [Channel -> {{}, {Sleeper}}] /\ numbers \in [Channel -> 0 .. MaxNumbers]
      /\ mutexTick \in [Channel -> {"ticks", NoThread}] /\ NoThread # "ticks"
  BY <1>a DEF TickTypeOK, NoThread
<1>e. /\ tcPc[c] = "asleep" /\ condTick[c] = {} /\ c \notin forgotten
      /\ mutexTick' = mutexTick /\ condTick' = condTick
      /\ tickPc' = tickPc /\ tickChannel' = tickChannel
      /\ created' = created /\ numbers' = numbers /\ ticked' = ticked /\ forgotten' = forgotten
  BY DEF Awake
<1>p. /\ tcPc' = [tcPc EXCEPT ![c] = "next"]
      /\ \A d \in Channel : tcPc'[d] = IF d = c THEN "next" ELSE tcPc[d]
  BY <1>n DEF Awake, TickGoto
<1>w. TickTypeOK' BY <1>a, <1>n, <1>e, <1>p DEF TickTypeOK
<1>x. TickLockInv' BY <1>a, <1>n, <1>e, <1>p DEF TickLockInv
<1>y. TickWaitInv' BY <1>a, <1>n, <1>e, <1>p DEF TickWaitInv
<1>z. TickBufferInv' BY <1>a, <1>n, <1>e, <1>p DEF TickBufferInv
<1>q. QED BY <1>w, <1>x, <1>y, <1>z DEF TicksIInv

\* The next number is written, or the next buffer read, with the tick.
LEMMA NextKeeps ==
  ASSUME TicksIInv, NEW c \in Channel, Next_(c)
  PROVE  TicksIInv'
<1>a. TickTypeOK /\ TickLockInv /\ TickWaitInv /\ TickBufferInv BY DEF TicksIInv
<1>n. /\ tcPc \in [Channel -> {"none", "open", "read", "write", "lock", "asleep", "next", "ended"}]
      /\ condTick \in [Channel -> {{}, {Sleeper}}] /\ numbers \in [Channel -> 0 .. MaxNumbers]
      /\ mutexTick \in [Channel -> {"ticks", NoThread}] /\ NoThread # "ticks"
  BY <1>a DEF TickTypeOK, NoThread
<1>k. /\ numbers[c] \in 1 .. MaxNumbers /\ numbers'[c] = numbers[c] - 1
      /\ numbers' \in [Channel -> 0 .. MaxNumbers]
      /\ \A d \in Channel : d # c => numbers'[d] = numbers[d]
  <2>1. tcPc[c] = "next" /\ numbers' = [numbers EXCEPT ![c] = @ - 1] BY DEF Next_
  <2>2. numbers[c] \in 1 .. MaxNumbers BY <1>a, <1>n, <2>1, TickAssumption DEF TickBufferInv
  <2>q. QED BY <1>n, <2>1, <2>2, TickAssumption
<1>e. /\ tcPc[c] = "next"
      /\ mutexTick' = mutexTick /\ condTick' = condTick
      /\ tickPc' = tickPc /\ tickChannel' = tickChannel
      /\ created' = created /\ ticked' = ticked /\ forgotten' = forgotten
  BY DEF Next_, ticks
<1>p. /\ tcPc' = [tcPc EXCEPT ![c] = (IF numbers[c] = 1 THEN "read" ELSE "write")]
      /\ \A d \in Channel :
            tcPc'[d] = IF d = c THEN (IF numbers[c] = 1 THEN "read" ELSE "write") ELSE tcPc[d]
  BY <1>n DEF Next_, TickGoto
<1>w. TickTypeOK' BY <1>a, <1>n, <1>e, <1>p, <1>k DEF TickTypeOK
<1>x. TickLockInv' BY <1>a, <1>n, <1>e, <1>p, <1>k DEF TickLockInv
<1>y. TickWaitInv' BY <1>a, <1>n, <1>e, <1>p, <1>k DEF TickWaitInv
<1>z. TickBufferInv' BY <1>a, <1>n, <1>e, <1>p, <1>k DEF TickBufferInv
<1>q. QED BY <1>w, <1>x, <1>y, <1>z DEF TicksIInv

\* A wake-up by nobody is taken for a tick.
LEMMA TickSpuriousKeeps ==
  ASSUME TicksIInv, TickSpuriousWakeup
  PROVE  TicksIInv'
<1>a. TickTypeOK /\ TickLockInv /\ TickWaitInv /\ TickBufferInv BY DEF TicksIInv
<1>n. /\ tcPc \in [Channel -> {"none", "open", "read", "write", "lock", "asleep", "next", "ended"}]
      /\ condTick \in [Channel -> {{}, {Sleeper}}] /\ numbers \in [Channel -> 0 .. MaxNumbers]
      /\ mutexTick \in [Channel -> {"ticks", NoThread}] /\ NoThread # "ticks"
  BY <1>a DEF TickTypeOK, NoThread
<1>c. PICK c \in Channel :
        condTick[c] # {} /\ condTick' = [condTick EXCEPT ![c] = {}] /\ ticked' = ticked \cup {c}
  BY DEF TickSpuriousWakeup, OfChannel
<1>e. /\ mutexTick' = mutexTick /\ tickPc' = tickPc /\ tickChannel' = tickChannel
      /\ created' = created /\ tcPc' = tcPc /\ numbers' = numbers /\ forgotten' = forgotten
  BY DEF TickSpuriousWakeup
<1>p. /\ \A d \in Channel : condTick'[d] = IF d = c THEN {} ELSE condTick[d]
      /\ condTick' \in [Channel -> {{}, {Sleeper}}]
  BY <1>n, <1>c
<1>w. TickTypeOK' BY <1>a, <1>c, <1>e, <1>p DEF TickTypeOK
<1>x. TickLockInv' BY <1>a, <1>e DEF TickLockInv
<1>y. TickWaitInv' BY <1>a, <1>c, <1>e, <1>p DEF TickWaitInv
<1>z. TickBufferInv' BY <1>a, <1>e DEF TickBufferInv
<1>q. QED BY <1>w, <1>x, <1>y, <1>z DEF TicksIInv

\* cpap2psg.c: each number that is written has a tick of its own.
THEOREM EachNumberHasItsTick == TickSpec => []TicksInv
<1>1. TickInit => TicksIInv BY TicksStart
<1>2. TicksIInv /\ [TickNext]_tickVars => TicksIInv'
  <2> SUFFICES ASSUME TicksIInv, [TickNext]_tickVars PROVE TicksIInv' OBVIOUS
  <2>1. CASE UNCHANGED tickVars
    BY <2>1 DEF tickVars, ticks, TicksIInv, TickTypeOK, TickLockInv, TickWaitInv, TickBufferInv
  <2>2. CASE functionTickGenerator
    BY <2>2, InitChannelKeeps, TickLockKeeps, TickKeeps DEF functionTickGenerator
  <2>3. ASSUME NEW c \in Channel, functionFIFO2DA(c) PROVE TicksIInv'
    BY <2>3, OpenKeeps, ReadKeeps, WriteKeeps, WaitTickKeeps, AwakeKeeps, NextKeeps
    DEF functionFIFO2DA
  <2>q. QED BY <2>1, <2>2, <2>3, CreateKeeps, TickSpuriousKeeps DEF TickNext
<1>3. TicksIInv => TicksInv BY DEF TicksIInv, TicksInv, TickWaitInv, OneNumberPerTick
<1>q. QED BY <1>1, <1>2, <1>3, PTL DEF TickSpec

\* The three programs whose threads go on in turns.
THEOREM TurnsAreKept == RelaySpec /\ GameSpec /\ TickSpec => []TurnsInv
<1>1. RelayInv /\ PingPongInv /\ TicksInv => TurnsInv BY DEF TurnsInv
<1>q. QED BY <1>1, RelayIsInTurn, GameIsInOrder, EachNumberHasItsTick, PTL
-----------------------------------------------------------------------------

(***************************************************************************)
(* The programs in which one waits for what another is to tell it.         *)
(*                                                                         *)
(* asttest.c: an answer that has been asked for is queued, being given or  *)
(* given.                                                                  *)
(***************************************************************************)
AstThread  == {"main", "dlm"}
BeingGiven == IF atPc["dlm"] = "call" THEN 1 ELSE 0

AstCountInv ==
  /\ DOMAIN atPc = AstThread
  /\ queued \in Nat /\ asked \in Nat /\ called \in Nat /\ pollsFailed \in Nat
  /\ asked = called + queued + BeingGiven
  /\ asked <= 2 /\ (atPc["main"] \in {"begin", "ask"} => asked <= 1)
  /\ atPc["main"] = "begin" => asked = 0

\* Without threads main() has each answer before it goes on, but for one at most of each
\* call of poll() that failed.
Awaited == IF atPc["main"] = "poll" /\ ~ ast_called THEN 1 ELSE 0

AstPollInv ==
  ~ use_threads =>
    /\ cond = {} /\ atPc["dlm"] = "idle" /\ atPc["main"] \notin {"wait", "asleep", "awake"}
    /\ ast_called => atPc["main"] = "poll"
    /\ queued <= pollsFailed + Awaited
    /\ atPc["main"] = "poll" => pollsFailed < asked

\* With threads the mutex keeps the first answer back until main() is asleep.
AstFirstInv ==
  use_threads =>
    /\ atPc["main"] # "poll" /\ (asked = 0 => atPc["dlm"] = "idle")
    /\ atPc["main"] = "ask" /\ asked = 0 => atMutex = "main"
    /\ atPc["main"] = "wait" /\ asked = 1 =>
         atMutex = "main" /\ called = 0 /\ atPc["dlm"] = "idle"
    /\ atPc["main"] \in {"wait", "asleep", "awake"} => asked > 0
    /\ cond # {} => atPc["main"] = "asleep" /\ (asked = 1 => called = 0)

\* Who wakes main() has answered, unless nobody did.
AstAnswerInv ==
  use_threads /\ ~ atIdle =>
    /\ atPc["main"] \in {"awake", "returned", "ask"} => called = asked
    /\ atPc["main"] = "asleep" /\ cond = {} => called = asked
    /\ asked = 2 => called > 0

AstIInv == AstTypeOK /\ AstCountInv /\ AstPollInv /\ AstFirstInv /\ AstAnswerInv

\* The start of asttest.c.
LEMMA AstStart == AstInit => AstIInv
<1> SUFFICES ASSUME AstInit PROVE AstIInv OBVIOUS
<1>e. /\ use_threads \in BOOLEAN /\ do_unlock \in BOOLEAN /\ atIdle = FALSE /\ ast_called = FALSE
      /\ atMutex = NoThread /\ cond = {} /\ queued = 0 /\ asked = 0 /\ called = 0
      /\ pollsFailed = 0 /\ DOMAIN atPc = AstThread /\ atPc["main"] = "begin"
      /\ atPc["dlm"] = "idle"
  BY DEF AstInit, AstThread
<1>v. AstTypeOK
  <2>1. /\ atMutex \in {"main", "dlm", NoThread} /\ cond \subseteq {"main"}
        /\ atPc.main \in {"begin", "ask", "wait", "asleep", "awake", "poll", "returned", "failed"}
        /\ atPc.dlm \in {"idle", "call", "leave"}
        /\ queued \in 0 .. 2 /\ asked \in 0 .. 2 /\ called \in 0 .. 2
        /\ pollsFailed \in 0 .. asked
    BY <1>e
  <2>q. QED BY <1>e, <2>1 DEF AstTypeOK
<1>w. AstCountInv BY <1>e DEF AstCountInv, BeingGiven
<1>x. AstPollInv BY <1>e DEF AstPollInv, Awaited
<1>y. AstFirstInv BY <1>e DEF AstFirstInv
<1>z. AstAnswerInv BY <1>e DEF AstAnswerInv
<1>q. QED BY <1>v, <1>w, <1>x, <1>y, <1>z DEF AstIInv

\* It takes the mutex if there are threads.
LEMMA BeginKeeps ==
  ASSUME AstIInv, Begin
  PROVE  AstIInv'
<1>a. AstTypeOK /\ AstCountInv /\ AstPollInv /\ AstFirstInv /\ AstAnswerInv BY DEF AstIInv
<1>n. /\ DOMAIN atPc = AstThread /\ queued \in Nat /\ asked \in Nat /\ called \in Nat
      /\ pollsFailed \in Nat /\ NoThread = "none"
  BY <1>a DEF AstCountInv, NoThread
<1>e. /\ atPc["main"] = "begin" /\ atMutex' = IF use_threads THEN "main" ELSE atMutex
      /\ (use_threads => atMutex = NoThread)
      /\ DOMAIN atPc' = AstThread /\ atPc'["main"] = "ask"
      /\ atPc'["dlm"] = atPc["dlm"]
      /\ use_threads' = use_threads /\ do_unlock' = do_unlock /\ cond' = cond
      /\ ast_called' = ast_called /\ queued' = queued /\ asked' = asked /\ called' = called
      /\ atIdle' = atIdle
      /\ pollsFailed' = pollsFailed
  BY <1>n DEF Begin, options, AstGoto, AstThread, TakesMutex, Lock
<1>v. AstTypeOK'
  BY <1>a, <1>n, <1>e
  DEF AstTypeOK, AstCountInv, AstThread, BeingGiven, Awaited, AstPollInv, AstFirstInv
<1>w. AstCountInv'
  BY <1>a, <1>n, <1>e
  DEF AstTypeOK, AstCountInv, AstThread, BeingGiven, Awaited, AstPollInv, AstFirstInv
<1>x. AstPollInv' BY <1>a, <1>n, <1>e
                  DEF AstTypeOK, AstCountInv, AstThread, BeingGiven, Awaited, AstPollInv
<1>y. AstFirstInv'
  BY <1>a, <1>n, <1>e
  DEF AstTypeOK, AstCountInv, AstThread, BeingGiven, Awaited, AstPollInv, AstFirstInv
<1>z. AstAnswerInv'
  BY <1>a, <1>n, <1>e
  DEF AstTypeOK, AstCountInv, AstThread, BeingGiven, Awaited, AstPollInv, AstFirstInv,
      AstAnswerInv
<1>q. QED BY <1>v, <1>w, <1>x, <1>y, <1>z DEF AstIInv

\* main() asks with all answers given, and with the mutex the first time.
LEMMA AskKeeps ==
  ASSUME AstIInv, Ask
  PROVE  AstIInv'
<1>a. AstTypeOK /\ AstCountInv /\ AstPollInv /\ AstFirstInv /\ AstAnswerInv BY DEF AstIInv
<1>n. /\ DOMAIN atPc = AstThread /\ queued \in Nat /\ asked \in Nat /\ called \in Nat
      /\ pollsFailed \in Nat /\ NoThread = "none"
  BY <1>a DEF AstCountInv, NoThread
<1>e. /\ atPc["main"] = "ask"
      /\ \/ /\ queued' = queued + 1 /\ asked' = asked + 1
            /\ atPc'["main"] = IF use_threads THEN "wait" ELSE "poll"
         \/ queued' = queued /\ asked' = asked /\ atPc'["main"] = "failed"
      /\ DOMAIN atPc' = AstThread /\ atPc'["dlm"] = atPc["dlm"]
      /\ use_threads' = use_threads /\ do_unlock' = do_unlock /\ atMutex' = atMutex
      /\ cond' = cond /\ ast_called' = ast_called /\ called' = called /\ atIdle' = atIdle
      /\ pollsFailed' = pollsFailed
  BY <1>n DEF Ask, options, AstGoto, AstThread
<1>v. AstTypeOK'
  BY <1>a, <1>n, <1>e
  DEF AstTypeOK, AstCountInv, AstThread, BeingGiven, Awaited, AstPollInv, AstFirstInv
<1>w. AstCountInv'
  BY <1>a, <1>n, <1>e
  DEF AstTypeOK, AstCountInv, AstThread, BeingGiven, Awaited, AstPollInv, AstFirstInv
<1>x. AstPollInv' BY <1>a, <1>n, <1>e
                  DEF AstTypeOK, AstCountInv, AstThread, BeingGiven, Awaited, AstPollInv
<1>y. AstFirstInv'
  BY <1>a, <1>n, <1>e
  DEF AstTypeOK, AstCountInv, AstThread, BeingGiven, Awaited, AstPollInv, AstFirstInv
<1>z. AstAnswerInv'
  BY <1>a, <1>n, <1>e
  DEF AstTypeOK, AstCountInv, AstThread, BeingGiven, Awaited, AstPollInv, AstFirstInv,
      AstAnswerInv
<1>q. QED BY <1>v, <1>w, <1>x, <1>y, <1>z DEF AstIInv

\* The mutex is free once main() is asleep.
LEMMA WaitKeeps ==
  ASSUME AstIInv, Wait
  PROVE  AstIInv'
<1>a. AstTypeOK /\ AstCountInv /\ AstPollInv /\ AstFirstInv /\ AstAnswerInv BY DEF AstIInv
<1>n. /\ DOMAIN atPc = AstThread /\ queued \in Nat /\ asked \in Nat /\ called \in Nat
      /\ pollsFailed \in Nat /\ NoThread = "none"
  BY <1>a DEF AstCountInv, NoThread
<1>e. /\ atPc["main"] = "wait" /\ cond' = cond \cup {"main"} /\ atMutex' = NoThread
      /\ DOMAIN atPc' = AstThread /\ atPc'["main"] = "asleep"
      /\ atPc'["dlm"] = atPc["dlm"]
      /\ use_threads' = use_threads /\ do_unlock' = do_unlock /\ ast_called' = ast_called
      /\ queued' = queued /\ asked' = asked /\ called' = called /\ atIdle' = atIdle
      /\ pollsFailed' = pollsFailed
  BY <1>n DEF Wait, options, AstGoto, AstThread, CondWait
<1>v. AstTypeOK'
  BY <1>a, <1>n, <1>e
  DEF AstTypeOK, AstCountInv, AstThread, BeingGiven, Awaited, AstPollInv, AstFirstInv
<1>w. AstCountInv'
  BY <1>a, <1>n, <1>e
  DEF AstTypeOK, AstCountInv, AstThread, BeingGiven, Awaited, AstPollInv, AstFirstInv
<1>x. AstPollInv' BY <1>a, <1>n, <1>e
                  DEF AstTypeOK, AstCountInv, AstThread, BeingGiven, Awaited, AstPollInv
<1>y. AstFirstInv'
  BY <1>a, <1>n, <1>e
  DEF AstTypeOK, AstCountInv, AstThread, BeingGiven, Awaited, AstPollInv, AstFirstInv
<1>z. AstAnswerInv'
  BY <1>a, <1>n, <1>e
  DEF AstTypeOK, AstCountInv, AstThread, BeingGiven, Awaited, AstPollInv, AstFirstInv,
      AstAnswerInv
<1>q. QED BY <1>v, <1>w, <1>x, <1>y, <1>z DEF AstIInv

\* main() wakes up and takes the mutex again.
LEMMA AstWakeKeeps ==
  ASSUME AstIInv, AstWake
  PROVE  AstIInv'
<1>a. AstTypeOK /\ AstCountInv /\ AstPollInv /\ AstFirstInv /\ AstAnswerInv BY DEF AstIInv
<1>n. /\ DOMAIN atPc = AstThread /\ queued \in Nat /\ asked \in Nat /\ called \in Nat
      /\ pollsFailed \in Nat /\ NoThread = "none"
  BY <1>a DEF AstCountInv, NoThread
<1>e. /\ atPc["main"] = "asleep" /\ "main" \notin cond /\ atMutex = NoThread /\ atMutex' = "main"
      /\ DOMAIN atPc' = AstThread /\ atPc'["main"] = "awake"
      /\ atPc'["dlm"] = atPc["dlm"]
      /\ use_threads' = use_threads /\ do_unlock' = do_unlock /\ cond' = cond
      /\ ast_called' = ast_called /\ queued' = queued /\ asked' = asked /\ called' = called
      /\ atIdle' = atIdle
      /\ pollsFailed' = pollsFailed
  BY <1>n DEF AstWake, options, AstGoto, AstThread, CondResume
<1>v. AstTypeOK'
  BY <1>a, <1>n, <1>e
  DEF AstTypeOK, AstCountInv, AstThread, BeingGiven, Awaited, AstPollInv, AstFirstInv
<1>w. AstCountInv'
  BY <1>a, <1>n, <1>e
  DEF AstTypeOK, AstCountInv, AstThread, BeingGiven, Awaited, AstPollInv, AstFirstInv
<1>x. AstPollInv' BY <1>a, <1>n, <1>e
                  DEF AstTypeOK, AstCountInv, AstThread, BeingGiven, Awaited, AstPollInv
<1>y. AstFirstInv'
  BY <1>a, <1>n, <1>e
  DEF AstTypeOK, AstCountInv, AstThread, BeingGiven, Awaited, AstPollInv, AstFirstInv
<1>z. AstAnswerInv'
  BY <1>a, <1>n, <1>e
  DEF AstTypeOK, AstCountInv, AstThread, BeingGiven, Awaited, AstPollInv, AstFirstInv,
      AstAnswerInv
<1>q. QED BY <1>v, <1>w, <1>x, <1>y, <1>z DEF AstIInv

\* main() asks again, or ends, with the answer it has waited for.
LEMMA AstAwakeKeeps ==
  ASSUME AstIInv, AstAwake
  PROVE  AstIInv'
<1>a. AstTypeOK /\ AstCountInv /\ AstPollInv /\ AstFirstInv /\ AstAnswerInv BY DEF AstIInv
<1>n. /\ DOMAIN atPc = AstThread /\ queued \in Nat /\ asked \in Nat /\ called \in Nat
      /\ pollsFailed \in Nat /\ NoThread = "none"
  BY <1>a DEF AstCountInv, NoThread
<1>e. /\ atPc["main"] = "awake" /\ atMutex' = NoThread
      /\ DOMAIN atPc' = AstThread
      /\ atPc'["main"] = (IF asked = 1 /\ do_unlock THEN "ask" ELSE "returned")
      /\ atPc'["dlm"] = atPc["dlm"]
      /\ use_threads' = use_threads /\ do_unlock' = do_unlock /\ cond' = cond
      /\ ast_called' = ast_called /\ queued' = queued /\ asked' = asked /\ called' = called
      /\ atIdle' = atIdle
      /\ pollsFailed' = pollsFailed
  BY <1>n DEF AstAwake, options, AstGoto, AstThread, Unlock, GoOn
<1>v. AstTypeOK'
  BY <1>a, <1>n, <1>e
  DEF AstTypeOK, AstCountInv, AstThread, BeingGiven, Awaited, AstPollInv, AstFirstInv
<1>w. AstCountInv'
  BY <1>a, <1>n, <1>e
  DEF AstTypeOK, AstCountInv, AstThread, BeingGiven, Awaited, AstPollInv, AstFirstInv
<1>x. AstPollInv' BY <1>a, <1>n, <1>e
                  DEF AstTypeOK, AstCountInv, AstThread, BeingGiven, Awaited, AstPollInv
<1>y. AstFirstInv'
  BY <1>a, <1>n, <1>e
  DEF AstTypeOK, AstCountInv, AstThread, BeingGiven, Awaited, AstPollInv, AstFirstInv
<1>z. AstAnswerInv'
  BY <1>a, <1>n, <1>e
  DEF AstTypeOK, AstCountInv, AstThread, BeingGiven, Awaited, AstPollInv, AstFirstInv,
      AstAnswerInv
<1>q. QED BY <1>v, <1>w, <1>x, <1>y, <1>z DEF AstIInv

\* Without threads main() calls ast_routine itself, then goes on; it goes on without if
\* poll() fails.
LEMMA PollKeeps ==
  ASSUME AstIInv, poll_for_ast
  PROVE  AstIInv'
<1>a. AstTypeOK /\ AstCountInv /\ AstPollInv /\ AstFirstInv /\ AstAnswerInv BY DEF AstIInv
<1>n. /\ DOMAIN atPc = AstThread /\ queued \in Nat /\ asked \in Nat /\ called \in Nat
      /\ pollsFailed \in Nat /\ NoThread = "none"
  BY <1>a DEF AstCountInv, NoThread
<1>e. /\ atPc["main"] = "poll" /\ DOMAIN atPc' = AstThread /\ atPc'["dlm"] = atPc["dlm"]
      /\ use_threads' = use_threads /\ do_unlock' = do_unlock /\ atMutex' = atMutex
      /\ cond' = cond /\ asked' = asked /\ atIdle' = atIdle
  BY <1>n DEF poll_for_ast, options, AstGoto, AstThread, GoOn
<1>t. ~ use_threads /\ asked = called + queued /\ asked <= 2
  BY <1>a, <1>n, <1>e DEF AstCountInv, AstPollInv, AstFirstInv, BeingGiven
<1>u. /\ cond = {} /\ atPc["dlm"] = "idle" /\ pollsFailed < asked
      /\ queued <= pollsFailed + (IF ast_called THEN 0 ELSE 1)
  BY <1>a, <1>e, <1>t DEF AstPollInv, Awaited
<1>g. CASE ast_called /\ ast_called' = FALSE /\ GoOn /\ UNCHANGED <<queued, called, pollsFailed>>
  <2>1. /\ queued' = queued /\ called' = called /\ pollsFailed' = pollsFailed
        /\ atPc'["main"] = IF asked = 1 /\ do_unlock THEN "ask" ELSE "returned"
    BY <1>n, <1>g DEF GoOn, AstGoto, AstThread
  <2>2. queued' \in 0 .. 2 /\ called' \in 0 .. 2 BY <1>a, <2>1 DEF AstTypeOK
  <2>v. AstTypeOK' BY <1>a, <1>n, <1>e, <1>t, <1>g, <2>1, <2>2 DEF AstTypeOK
  <2>w. AstCountInv' BY <1>a, <1>n, <1>e, <1>t, <1>u, <2>1 DEF AstCountInv, BeingGiven
  <2>x. AstPollInv' BY <1>n, <1>e, <1>t, <1>u, <1>g, <2>1 DEF AstPollInv, Awaited
  <2>y. AstFirstInv' /\ AstAnswerInv' BY <1>e, <1>t DEF AstFirstInv, AstAnswerInv
  <2>q. QED BY <2>v, <2>w, <2>x, <2>y DEF AstIInv
<1>d. CASE \E k \in 1 .. queued :
             /\ ~ ast_called /\ ast_called' = TRUE
             /\ queued' = queued - k /\ called' = called + k
             /\ UNCHANGED <<atPc, pollsFailed>>
  <2>1. PICK k \in 1 .. queued :
          /\ ~ ast_called /\ ast_called' = TRUE
          /\ queued' = queued - k /\ called' = called + k
          /\ UNCHANGED <<atPc, pollsFailed>>
    BY <1>d
  <2>2. /\ queued' \in 0 .. 2 /\ called' \in 0 .. 2 /\ asked = called' + queued'
        /\ queued' <= pollsFailed
    BY <1>n, <1>t, <1>u, <2>1
  <2>v. AstTypeOK' BY <1>a, <1>n, <1>e, <1>t, <2>1, <2>2 DEF AstTypeOK
  <2>w. AstCountInv' BY <1>a, <1>n, <1>e, <1>t, <1>u, <2>1, <2>2 DEF AstCountInv, BeingGiven
  <2>x. AstPollInv' BY <1>n, <1>e, <1>t, <1>u, <2>1, <2>2 DEF AstPollInv, Awaited
  <2>y. AstFirstInv' /\ AstAnswerInv' BY <1>e, <1>t DEF AstFirstInv, AstAnswerInv
  <2>q. QED BY <2>v, <2>w, <2>x, <2>y DEF AstIInv
<1>f. CASE ~ ast_called /\ pollsFailed' = pollsFailed + 1 /\ GoOn
             /\ UNCHANGED <<ast_called, queued, called>>
  <2>1. /\ queued' = queued /\ called' = called /\ ast_called' = ast_called
        /\ atPc'["main"] = IF asked = 1 /\ do_unlock THEN "ask" ELSE "returned"
    BY <1>n, <1>f DEF GoOn, AstGoto, AstThread
  <2>2. queued' \in 0 .. 2 /\ called' \in 0 .. 2 /\ pollsFailed' \in 0 .. asked
    BY <1>a, <1>n, <1>u, <1>f, <2>1 DEF AstTypeOK
  <2>v. AstTypeOK' BY <1>a, <1>n, <1>e, <1>t, <2>1, <2>2 DEF AstTypeOK
  <2>w. AstCountInv' BY <1>a, <1>n, <1>e, <1>t, <1>u, <1>f, <2>1 DEF AstCountInv, BeingGiven
  <2>x. AstPollInv' BY <1>n, <1>e, <1>t, <1>u, <1>f, <2>1 DEF AstPollInv, Awaited
  <2>y. AstFirstInv' /\ AstAnswerInv' BY <1>e, <1>t DEF AstFirstInv, AstAnswerInv
  <2>q. QED BY <2>v, <2>w, <2>x, <2>y DEF AstIInv
<1>q. QED BY <1>g, <1>d, <1>f DEF poll_for_ast

\* The lock manager takes the answer when main() has let go of the mutex.
LEMMA AstLockKeeps ==
  ASSUME AstIInv, AstLock
  PROVE  AstIInv'
<1>a. AstTypeOK /\ AstCountInv /\ AstPollInv /\ AstFirstInv /\ AstAnswerInv BY DEF AstIInv
<1>n. /\ DOMAIN atPc = AstThread /\ queued \in Nat /\ asked \in Nat /\ called \in Nat
      /\ pollsFailed \in Nat /\ NoThread = "none"
  BY <1>a DEF AstCountInv, NoThread
<1>e. /\ use_threads /\ atPc["dlm"] = "idle" /\ queued > 0 /\ atMutex = NoThread
      /\ atMutex' = "dlm" /\ queued' = queued - 1
      /\ DOMAIN atPc' = AstThread /\ atPc'["dlm"] = "call"
      /\ atPc'["main"] = atPc["main"]
      /\ use_threads' = use_threads /\ do_unlock' = do_unlock /\ cond' = cond
      /\ ast_called' = ast_called /\ asked' = asked /\ called' = called /\ atIdle' = atIdle
      /\ pollsFailed' = pollsFailed
  BY <1>n DEF AstLock, options, AstGoto, AstThread, Lock
<1>v. AstTypeOK'
  BY <1>a, <1>n, <1>e
  DEF AstTypeOK, AstCountInv, AstThread, BeingGiven, Awaited, AstPollInv, AstFirstInv
<1>w. AstCountInv'
  BY <1>a, <1>n, <1>e
  DEF AstTypeOK, AstCountInv, AstThread, BeingGiven, Awaited, AstPollInv, AstFirstInv
<1>x. AstPollInv' BY <1>a, <1>n, <1>e
                  DEF AstTypeOK, AstCountInv, AstThread, BeingGiven, Awaited, AstPollInv
<1>y. AstFirstInv'
  BY <1>a, <1>n, <1>e
  DEF AstTypeOK, AstCountInv, AstThread, BeingGiven, Awaited, AstPollInv, AstFirstInv
<1>z. AstAnswerInv'
  BY <1>a, <1>n, <1>e
  DEF AstTypeOK, AstCountInv, AstThread, BeingGiven, Awaited, AstPollInv, AstFirstInv,
      AstAnswerInv
<1>q. QED BY <1>v, <1>w, <1>x, <1>y, <1>z DEF AstIInv

\* The call wakes main() if it sleeps.
LEMMA AstCallKeeps ==
  ASSUME AstIInv, AstCall
  PROVE  AstIInv'
<1>a. AstTypeOK /\ AstCountInv /\ AstPollInv /\ AstFirstInv /\ AstAnswerInv BY DEF AstIInv
<1>n. /\ DOMAIN atPc = AstThread /\ queued \in Nat /\ asked \in Nat /\ called \in Nat
      /\ pollsFailed \in Nat /\ NoThread = "none"
  BY <1>a DEF AstCountInv, NoThread
<1>e. /\ atPc["dlm"] = "call" /\ cond' = {} /\ ast_called' = TRUE
      /\ called' = called + 1
      /\ DOMAIN atPc' = AstThread /\ atPc'["dlm"] = "leave"
      /\ atPc'["main"] = atPc["main"]
      /\ use_threads' = use_threads /\ do_unlock' = do_unlock /\ atMutex' = atMutex
      /\ queued' = queued /\ asked' = asked /\ atIdle' = atIdle
      /\ pollsFailed' = pollsFailed
  BY <1>a, <1>n DEF AstCall, options, AstGoto, AstThread, AstSignal, CondSignal, AstTypeOK
<1>v. AstTypeOK'
  BY <1>a, <1>n, <1>e
  DEF AstTypeOK, AstCountInv, AstThread, BeingGiven, Awaited, AstPollInv, AstFirstInv
<1>w. AstCountInv'
  BY <1>a, <1>n, <1>e
  DEF AstTypeOK, AstCountInv, AstThread, BeingGiven, Awaited, AstPollInv, AstFirstInv
<1>x. AstPollInv' BY <1>a, <1>n, <1>e
                  DEF AstTypeOK, AstCountInv, AstThread, BeingGiven, Awaited, AstPollInv
<1>y. AstFirstInv'
  <2> SUFFICES ASSUME use_threads PROVE AstFirstInv' BY <1>e DEF AstFirstInv
  <2>1. asked > 0 /\ atPc["main"] # "poll" /\ ~ (atPc["main"] = "wait" /\ asked = 1)
    BY <1>a, <1>n, <1>e DEF AstFirstInv, AstCountInv, BeingGiven
  <2>2. /\ asked' \in Nat /\ asked' > 0 /\ atPc'["main"] # "poll"
        /\ ~ (atPc'["main"] = "wait" /\ asked' = 1)
    BY <1>n, <1>e, <2>1
  <2>q. QED BY <1>e, <2>2 DEF AstFirstInv
<1>z. AstAnswerInv'
  BY <1>a, <1>n, <1>e
  DEF AstTypeOK, AstCountInv, AstThread, BeingGiven, Awaited, AstPollInv, AstFirstInv,
      AstAnswerInv
<1>q. QED BY <1>v, <1>w, <1>x, <1>y, <1>z DEF AstIInv

\* The lock manager gives the mutex back.
LEMMA AstUnlockKeeps ==
  ASSUME AstIInv, AstUnlock
  PROVE  AstIInv'
<1>a. AstTypeOK /\ AstCountInv /\ AstPollInv /\ AstFirstInv /\ AstAnswerInv BY DEF AstIInv
<1>n. /\ DOMAIN atPc = AstThread /\ queued \in Nat /\ asked \in Nat /\ called \in Nat
      /\ pollsFailed \in Nat /\ NoThread = "none"
  BY <1>a DEF AstCountInv, NoThread
<1>e. /\ atPc["dlm"] = "leave" /\ atMutex' = NoThread
      /\ DOMAIN atPc' = AstThread /\ atPc'["dlm"] = "idle"
      /\ atPc'["main"] = atPc["main"]
      /\ use_threads' = use_threads /\ do_unlock' = do_unlock /\ cond' = cond
      /\ ast_called' = ast_called /\ queued' = queued /\ asked' = asked /\ called' = called
      /\ atIdle' = atIdle
      /\ pollsFailed' = pollsFailed
  BY <1>n DEF AstUnlock, options, AstGoto, AstThread, Unlock
<1>v. AstTypeOK'
  BY <1>a, <1>n, <1>e
  DEF AstTypeOK, AstCountInv, AstThread, BeingGiven, Awaited, AstPollInv, AstFirstInv
<1>w. AstCountInv'
  BY <1>a, <1>n, <1>e
  DEF AstTypeOK, AstCountInv, AstThread, BeingGiven, Awaited, AstPollInv, AstFirstInv
<1>x. AstPollInv' BY <1>a, <1>n, <1>e
                  DEF AstTypeOK, AstCountInv, AstThread, BeingGiven, Awaited, AstPollInv
<1>y. AstFirstInv'
  BY <1>a, <1>n, <1>e
  DEF AstTypeOK, AstCountInv, AstThread, BeingGiven, Awaited, AstPollInv, AstFirstInv
<1>z. AstAnswerInv'
  BY <1>a, <1>n, <1>e
  DEF AstTypeOK, AstCountInv, AstThread, BeingGiven, Awaited, AstPollInv, AstFirstInv,
      AstAnswerInv
<1>q. QED BY <1>v, <1>w, <1>x, <1>y, <1>z DEF AstIInv

\* From now on main() may be ahead of its answers.
LEMMA AstSpuriousKeeps ==
  ASSUME AstIInv, AstSpuriousWakeup
  PROVE  AstIInv'
<1>a. AstTypeOK /\ AstCountInv /\ AstPollInv /\ AstFirstInv /\ AstAnswerInv BY DEF AstIInv
<1>n. /\ DOMAIN atPc = AstThread /\ queued \in Nat /\ asked \in Nat /\ called \in Nat
      /\ pollsFailed \in Nat /\ NoThread = "none"
  BY <1>a DEF AstCountInv, NoThread
<1>e. /\ cond' = {} /\ cond # {} /\ atIdle'
      /\ atPc' = atPc
      /\ use_threads' = use_threads /\ do_unlock' = do_unlock /\ atMutex' = atMutex
      /\ ast_called' = ast_called /\ queued' = queued /\ asked' = asked /\ called' = called
      /\ pollsFailed' = pollsFailed
  BY <1>a, <1>n DEF AstSpuriousWakeup, options, AstGoto, AstThread, Spurious, AstTypeOK
<1>v. AstTypeOK'
  BY <1>a, <1>n, <1>e
  DEF AstTypeOK, AstCountInv, AstThread, BeingGiven, Awaited, AstPollInv, AstFirstInv
<1>w. AstCountInv'
  BY <1>a, <1>n, <1>e
  DEF AstTypeOK, AstCountInv, AstThread, BeingGiven, Awaited, AstPollInv, AstFirstInv
<1>x. AstPollInv' BY <1>a, <1>n, <1>e
                  DEF AstTypeOK, AstCountInv, AstThread, BeingGiven, Awaited, AstPollInv
<1>y. AstFirstInv'
  BY <1>a, <1>n, <1>e
  DEF AstTypeOK, AstCountInv, AstThread, BeingGiven, Awaited, AstPollInv, AstFirstInv
<1>z. AstAnswerInv'
  BY <1>a, <1>n, <1>e
  DEF AstTypeOK, AstCountInv, AstThread, BeingGiven, Awaited, AstPollInv, AstFirstInv,
      AstAnswerInv
<1>q. QED BY <1>v, <1>w, <1>x, <1>y, <1>z DEF AstIInv

\* asttest.c: main() goes on with the answer it has asked for, whatever the options.
THEOREM MainHasTheAnswer == AstSpec => []AstInv
<1>1. AstInit => AstIInv BY AstStart
<1>2. AstIInv /\ [AstNext]_astVars => AstIInv'
  <2> SUFFICES ASSUME AstIInv, [AstNext]_astVars PROVE AstIInv' OBVIOUS
  <2>1. CASE UNCHANGED astVars
    BY <2>1 DEF astVars, options, AstIInv, AstTypeOK, AstCountInv, AstPollInv, AstFirstInv,
                AstAnswerInv, BeingGiven, Awaited
  <2>2. CASE astMain
    BY <2>2, BeginKeeps, AskKeeps, WaitKeeps, AstWakeKeeps, AstAwakeKeeps, PollKeeps DEF astMain
  <2>3. CASE ast_routine BY <2>3, AstLockKeeps, AstCallKeeps, AstUnlockKeeps DEF ast_routine
  <2>q. QED BY <2>1, <2>2, <2>3, AstSpuriousKeeps DEF AstNext, AstTerminated
<1>3. AstIInv => AstInv
  <2> SUFFICES ASSUME AstIInv PROVE AstInv OBVIOUS
  <2>1. GoesOnAnswered
    BY DEF AstIInv, AstTypeOK, AstCountInv, AstPollInv, AstFirstInv, AstAnswerInv, BeingGiven,
           Awaited, GoesOnAnswered
  <2>2. LockAnswerIsSeen
    BY DEF AstIInv, AstTypeOK, AstCountInv, AstPollInv, AstFirstInv, BeingGiven,
           LockAnswerIsSeen
  <2>q. QED BY <2>1, <2>2 DEF AstInv, AstIInv
<1>q. QED BY <1>1, <1>2, <1>3, PTL DEF AstSpec

\* ir_event.c: who has the mutex; the connection is freed by a failure, or at the end.
RemoteLockInv ==
  /\ destroyed => irPc["main"] \in {"join", "ended"}
  /\ irPc["monitor"] = "volume" => mutex1 = "monitor" \/ destroyed
  /\ mutex1 = "main" => irPc["main"] = "switch" \/ kept
RemoteFreedInv ==
  /\ freed => failed \/ noDevice \/ (irPc["main"] = "ended" /\ irPc["monitor"] = "ended")
  /\ noDevice => irPc["main"] \in {"exit", "ended"}
  /\ misused # {} => failed \/ noDevice
  /\ "main" \in misused => failed

RemoteIInv == RemoteTypeOK /\ RemoteLockInv /\ RemoteFreedInv

\* The start of ir_event.c.
LEMMA RemoteStart == RemoteInit => RemoteIInv
<1> SUFFICES ASSUME RemoteInit PROVE RemoteIInv OBVIOUS
<1>e. /\ g_isRunning = TRUE /\ mutex1 = "none" /\ destroyed = FALSE /\ freed = FALSE
      /\ irPc["main"] = "open" /\ irPc["monitor"] = "loop"
      /\ noDevice = FALSE /\ kept = FALSE /\ failed = FALSE /\ misused = {}
  BY DEF RemoteInit, NoThread
<1>p. irPc \in [main : {"open", "exit", "loop", "lock", "switch", "join", "ended"},
              monitor : {"loop", "lock", "volume", "ended"}]
  BY DEF RemoteInit
<1>x. RemoteTypeOK BY <1>e, <1>p DEF RemoteTypeOK, NoThread
<1>y. RemoteLockInv BY <1>e DEF RemoteLockInv
<1>z. RemoteFreedInv BY <1>e DEF RemoteFreedInv
<1>q. QED BY <1>x, <1>y, <1>z DEF RemoteIInv

\* Without the device the connection is freed, and main() is going to exit.
LEMMA OpenDeviceKeeps ==
  ASSUME RemoteIInv, OpenDevice
  PROVE  RemoteIInv'
<1>a. RemoteTypeOK /\ RemoteLockInv /\ RemoteFreedInv BY DEF RemoteIInv
<1>n. /\ DOMAIN irPc = {"main", "monitor"} /\ NoThread = "none"
      /\ irPc \in [main : {"open", "exit", "loop", "lock", "switch", "join", "ended"},
                   monitor : {"loop", "lock", "volume", "ended"}]
  BY <1>a DEF RemoteTypeOK, NoThread
<1>e. /\ irPc["main"] = "open"
      /\ \/ irPc'["main"] = "loop" /\ freed' = freed /\ noDevice' = noDevice
         \/ irPc'["main"] = "exit" /\ freed' = TRUE /\ noDevice' = TRUE
      /\ irPc'["monitor"] = irPc["monitor"]
      /\ irPc' \in [main : {"open", "exit", "loop", "lock", "switch", "join", "ended"},
                    monitor : {"loop", "lock", "volume", "ended"}]
      /\ g_isRunning' = g_isRunning /\ mutex1' = mutex1 /\ destroyed' = destroyed
      /\ kept' = kept /\ failed' = failed /\ misused' = misused
  BY <1>n DEF OpenDevice, RemoteGoto
<1>x. RemoteTypeOK' BY <1>a, <1>n, <1>e DEF RemoteTypeOK, RemoteLockInv
<1>y. RemoteLockInv' BY <1>a, <1>n, <1>e DEF RemoteTypeOK, RemoteLockInv
<1>z. RemoteFreedInv' BY <1>a, <1>n, <1>e DEF RemoteTypeOK, RemoteFreedInv
<1>q. QED BY <1>x, <1>y, <1>z DEF RemoteIInv

\* Both end.
LEMMA ExitRemoteKeeps ==
  ASSUME RemoteIInv, ExitRemote
  PROVE  RemoteIInv'
<1>a. RemoteTypeOK /\ RemoteLockInv /\ RemoteFreedInv BY DEF RemoteIInv
<1>n. DOMAIN irPc = {"main", "monitor"} /\ NoThread = "none"
  BY <1>a DEF RemoteTypeOK, NoThread
<1>e. /\ irPc["main"] = "exit"
      /\ irPc'["main"] = "ended" /\ irPc'["monitor"] = "ended"
      /\ irPc' \in [main : {"open", "exit", "loop", "lock", "switch", "join", "ended"},
                    monitor : {"loop", "lock", "volume", "ended"}]
      /\ g_isRunning' = g_isRunning /\ mutex1' = mutex1 /\ destroyed' = destroyed
      /\ freed' = freed /\ noDevice' = noDevice
      /\ kept' = kept /\ failed' = failed /\ misused' = misused
  BY <1>n DEF ExitRemote
<1>x. RemoteTypeOK' BY <1>a, <1>n, <1>e DEF RemoteTypeOK, RemoteLockInv
<1>y. RemoteLockInv' BY <1>a, <1>n, <1>e DEF RemoteTypeOK, RemoteLockInv
<1>z. RemoteFreedInv' BY <1>a, <1>n, <1>e DEF RemoteTypeOK, RemoteFreedInv
<1>q. QED BY <1>x, <1>y, <1>z DEF RemoteIInv

\* main() reads a key.
LEMMA ReadKeyKeeps ==
  ASSUME RemoteIInv, ReadKey
  PROVE  RemoteIInv'
<1>a. RemoteTypeOK /\ RemoteLockInv /\ RemoteFreedInv BY DEF RemoteIInv
<1>n. /\ DOMAIN irPc = {"main", "monitor"} /\ NoThread = "none"
      /\ irPc \in [main : {"open", "exit", "loop", "lock", "switch", "join", "ended"},
                   monitor : {"loop", "lock", "volume", "ended"}]
  BY <1>a DEF RemoteTypeOK, NoThread
<1>e. /\ irPc["main"] = "loop"
      /\ irPc' \in [main : {"open", "exit", "loop", "lock", "switch", "join", "ended"},
                    monitor : {"loop", "lock", "volume", "ended"}]
      /\ irPc'["main"] = "lock" /\ irPc'["monitor"] = irPc["monitor"]
      /\ g_isRunning' = g_isRunning /\ mutex1' = mutex1 /\ destroyed' = destroyed
      /\ freed' = freed /\ noDevice' = noDevice /\ kept' = kept
      /\ failed' = failed /\ misused' = misused
  BY <1>n DEF ReadKey, RemoteGoto
<1>x. RemoteTypeOK' BY <1>a, <1>n, <1>e DEF RemoteTypeOK, RemoteLockInv
<1>y. RemoteLockInv' BY <1>a, <1>n, <1>e DEF RemoteTypeOK, RemoteLockInv
<1>z. RemoteFreedInv' BY <1>a, <1>n, <1>e DEF RemoteTypeOK, RemoteFreedInv
<1>q. QED BY <1>x, <1>y, <1>z DEF RemoteIInv

\* main() takes the mutex for the key it has read.
LEMMA RemoteLockKeeps ==
  ASSUME RemoteIInv, RemoteLock
  PROVE  RemoteIInv'
<1>a. RemoteTypeOK /\ RemoteLockInv /\ RemoteFreedInv BY DEF RemoteIInv
<1>n. /\ DOMAIN irPc = {"main", "monitor"} /\ NoThread = "none"
      /\ irPc \in [main : {"open", "exit", "loop", "lock", "switch", "join", "ended"},
                   monitor : {"loop", "lock", "volume", "ended"}]
  BY <1>a DEF RemoteTypeOK, NoThread
<1>e. /\ irPc["main"] = "lock" /\ mutex1 = NoThread /\ mutex1' = "main"
      /\ irPc' \in [main : {"open", "exit", "loop", "lock", "switch", "join", "ended"},
                    monitor : {"loop", "lock", "volume", "ended"}]
      /\ irPc'["main"] = "switch" /\ irPc'["monitor"] = irPc["monitor"]
      /\ g_isRunning' = g_isRunning /\ destroyed' = destroyed /\ freed' = freed
      /\ kept' = kept /\ noDevice' = noDevice /\ failed' = failed /\ misused' = misused
  BY <1>n DEF RemoteLock, RemoteGoto, Lock
<1>x. RemoteTypeOK' BY <1>a, <1>n, <1>e DEF RemoteTypeOK, RemoteLockInv
<1>y. RemoteLockInv' BY <1>a, <1>n, <1>e DEF RemoteTypeOK, RemoteLockInv
<1>z. RemoteFreedInv' BY <1>a, <1>n, <1>e DEF RemoteTypeOK, RemoteFreedInv
<1>q. QED BY <1>x, <1>y, <1>z DEF RemoteIInv

\* A command that fails frees the connection.
LEMMA KnownKeyKeeps ==
  ASSUME RemoteIInv, KnownKey
  PROVE  RemoteIInv'
<1>a. RemoteTypeOK /\ RemoteLockInv /\ RemoteFreedInv BY DEF RemoteIInv
<1>n. /\ DOMAIN irPc = {"main", "monitor"} /\ NoThread = "none"
      /\ irPc \in [main : {"open", "exit", "loop", "lock", "switch", "join", "ended"},
                   monitor : {"loop", "lock", "volume", "ended"}]
  BY <1>a DEF RemoteTypeOK, NoThread
<1>e. /\ irPc["main"] = "switch" /\ mutex1' = NoThread
      /\ \/ misused' = misused
         \/ freed /\ misused' = misused \cup {"main"}
      /\ \/ freed' = freed /\ failed' = failed
         \/ freed' = TRUE /\ failed' = TRUE
      /\ irPc' \in [main : {"open", "exit", "loop", "lock", "switch", "join", "ended"},
                    monitor : {"loop", "lock", "volume", "ended"}]
      /\ irPc'["main"] = "loop" /\ irPc'["monitor"] = irPc["monitor"]
      /\ g_isRunning' = g_isRunning /\ destroyed' = destroyed /\ kept' = kept
      /\ noDevice' = noDevice
  BY <1>n DEF KnownKey, RemoteGoto, Unlock, Command
<1>x. RemoteTypeOK' BY <1>a, <1>n, <1>e DEF RemoteTypeOK, RemoteLockInv
<1>y. RemoteLockInv' BY <1>a, <1>n, <1>e DEF RemoteTypeOK, RemoteLockInv
<1>z. RemoteFreedInv' BY <1>a, <1>n, <1>e DEF RemoteTypeOK, RemoteFreedInv
<1>q. QED BY <1>x, <1>y, <1>z DEF RemoteIInv

\* An unknown key leaves main() with the mutex.
LEMMA UnknownKeyKeeps ==
  ASSUME RemoteIInv, UnknownKey
  PROVE  RemoteIInv'
<1>a. RemoteTypeOK /\ RemoteLockInv /\ RemoteFreedInv BY DEF RemoteIInv
<1>n. /\ DOMAIN irPc = {"main", "monitor"} /\ NoThread = "none"
      /\ irPc \in [main : {"open", "exit", "loop", "lock", "switch", "join", "ended"},
                   monitor : {"loop", "lock", "volume", "ended"}]
  BY <1>a DEF RemoteTypeOK, NoThread
<1>e. /\ irPc["main"] = "switch" /\ kept' = TRUE
      /\ irPc' \in [main : {"open", "exit", "loop", "lock", "switch", "join", "ended"},
                    monitor : {"loop", "lock", "volume", "ended"}]
      /\ irPc'["main"] = "loop" /\ irPc'["monitor"] = irPc["monitor"]
      /\ g_isRunning' = g_isRunning /\ mutex1' = mutex1 /\ destroyed' = destroyed
      /\ freed' = freed /\ noDevice' = noDevice /\ failed' = failed /\ misused' = misused
  BY <1>n DEF UnknownKey, RemoteGoto
<1>x. RemoteTypeOK' BY <1>a, <1>n, <1>e DEF RemoteTypeOK, RemoteLockInv
<1>y. RemoteLockInv' BY <1>a, <1>n, <1>e DEF RemoteTypeOK, RemoteLockInv
<1>z. RemoteFreedInv' BY <1>a, <1>n, <1>e DEF RemoteTypeOK, RemoteFreedInv
<1>q. QED BY <1>x, <1>y, <1>z DEF RemoteIInv

\* The mutex is destroyed if nobody has it.
LEMMA DestroyKeeps ==
  ASSUME RemoteIInv, Destroy
  PROVE  RemoteIInv'
<1>a. RemoteTypeOK /\ RemoteLockInv /\ RemoteFreedInv BY DEF RemoteIInv
<1>n. /\ DOMAIN irPc = {"main", "monitor"} /\ NoThread = "none"
      /\ irPc \in [main : {"open", "exit", "loop", "lock", "switch", "join", "ended"},
                   monitor : {"loop", "lock", "volume", "ended"}]
  BY <1>a DEF RemoteTypeOK, NoThread
<1>e. /\ irPc["main"] = "loop" /\ destroyed' = (mutex1 = NoThread)
      /\ irPc' \in [main : {"open", "exit", "loop", "lock", "switch", "join", "ended"},
                    monitor : {"loop", "lock", "volume", "ended"}]
      /\ irPc'["main"] = "join" /\ irPc'["monitor"] = irPc["monitor"]
      /\ g_isRunning' = g_isRunning /\ mutex1' = mutex1 /\ freed' = freed /\ kept' = kept
      /\ noDevice' = noDevice /\ failed' = failed /\ misused' = misused
  BY <1>n DEF Destroy, RemoteGoto
<1>x. RemoteTypeOK' BY <1>a, <1>n, <1>e DEF RemoteTypeOK, RemoteLockInv
<1>y. RemoteLockInv' BY <1>a, <1>n, <1>e DEF RemoteTypeOK, RemoteLockInv
<1>z. RemoteFreedInv' BY <1>a, <1>n, <1>e DEF RemoteTypeOK, RemoteFreedInv
<1>q. QED BY <1>x, <1>y, <1>z DEF RemoteIInv

\* Both have ended when the connection is freed in the end.
LEMMA RemoteJoinKeeps ==
  ASSUME RemoteIInv, RemoteJoin
  PROVE  RemoteIInv'
<1>a. RemoteTypeOK /\ RemoteLockInv /\ RemoteFreedInv BY DEF RemoteIInv
<1>n. /\ DOMAIN irPc = {"main", "monitor"} /\ NoThread = "none"
      /\ irPc \in [main : {"open", "exit", "loop", "lock", "switch", "join", "ended"},
                   monitor : {"loop", "lock", "volume", "ended"}]
  BY <1>a DEF RemoteTypeOK, NoThread
<1>e. /\ irPc["main"] = "join" /\ irPc["monitor"] = "ended" /\ freed' = TRUE
      /\ irPc' \in [main : {"open", "exit", "loop", "lock", "switch", "join", "ended"},
                    monitor : {"loop", "lock", "volume", "ended"}]
      /\ irPc'["main"] = "ended" /\ irPc'["monitor"] = irPc["monitor"]
      /\ g_isRunning' = g_isRunning /\ mutex1' = mutex1 /\ destroyed' = destroyed
      /\ kept' = kept /\ noDevice' = noDevice /\ failed' = failed /\ misused' = misused
  BY <1>n DEF RemoteJoin, RemoteGoto, MonitorEnded
<1>x. RemoteTypeOK' BY <1>a, <1>n, <1>e DEF RemoteTypeOK, RemoteLockInv
<1>y. RemoteLockInv' BY <1>a, <1>n, <1>e DEF RemoteTypeOK, RemoteLockInv
<1>z. RemoteFreedInv' BY <1>a, <1>n, <1>e DEF RemoteTypeOK, RemoteFreedInv
<1>q. QED BY <1>x, <1>y, <1>z DEF RemoteIInv

\* The monitor looks at the flag and goes on or ends.
LEMMA MonitorLoopKeeps ==
  ASSUME RemoteIInv, MonitorLoop
  PROVE  RemoteIInv'
<1>a. RemoteTypeOK /\ RemoteLockInv /\ RemoteFreedInv BY DEF RemoteIInv
<1>n. /\ DOMAIN irPc = {"main", "monitor"} /\ NoThread = "none"
      /\ irPc \in [main : {"open", "exit", "loop", "lock", "switch", "join", "ended"},
                   monitor : {"loop", "lock", "volume", "ended"}]
  BY <1>a DEF RemoteTypeOK, NoThread
<1>e. /\ irPc["monitor"] = "loop"
      /\ irPc' \in [main : {"open", "exit", "loop", "lock", "switch", "join", "ended"},
                    monitor : {"loop", "lock", "volume", "ended"}]
      /\ irPc'["monitor"] = (IF g_isRunning THEN "lock" ELSE "ended")
      /\ irPc'["main"] = irPc["main"]
      /\ g_isRunning' = g_isRunning /\ mutex1' = mutex1 /\ destroyed' = destroyed
      /\ freed' = freed /\ noDevice' = noDevice /\ kept' = kept
      /\ failed' = failed /\ misused' = misused
  BY <1>n DEF MonitorLoop, RemoteGoto, GoesOn
<1>x. RemoteTypeOK' BY <1>a, <1>n, <1>e DEF RemoteTypeOK, RemoteLockInv
<1>y. RemoteLockInv' BY <1>a, <1>n, <1>e DEF RemoteTypeOK, RemoteLockInv
<1>z. RemoteFreedInv' BY <1>a, <1>n, <1>e DEF RemoteTypeOK, RemoteFreedInv
<1>q. QED BY <1>x, <1>y, <1>z DEF RemoteIInv

\* The monitor has the mutex, or there is none any more.
LEMMA KeepaliveKeeps ==
  ASSUME RemoteIInv, Keepalive
  PROVE  RemoteIInv'
<1>a. RemoteTypeOK /\ RemoteLockInv /\ RemoteFreedInv BY DEF RemoteIInv
<1>n. /\ DOMAIN irPc = {"main", "monitor"} /\ NoThread = "none"
      /\ irPc \in [main : {"open", "exit", "loop", "lock", "switch", "join", "ended"},
                   monitor : {"loop", "lock", "volume", "ended"}]
  BY <1>a DEF RemoteTypeOK, NoThread
<1>e. /\ irPc["monitor"] = "lock"
      /\ IF destroyed THEN mutex1' = mutex1 ELSE mutex1 = NoThread /\ mutex1' = "monitor"
      /\ irPc' \in [main : {"open", "exit", "loop", "lock", "switch", "join", "ended"},
                    monitor : {"loop", "lock", "volume", "ended"}]
      /\ irPc'["monitor"] = "volume" /\ irPc'["main"] = irPc["main"]
      /\ g_isRunning' = g_isRunning /\ destroyed' = destroyed /\ freed' = freed
      /\ kept' = kept /\ noDevice' = noDevice /\ failed' = failed /\ misused' = misused
  BY <1>n DEF Keepalive, RemoteGoto, MonitorLock, Lock
<1>x. RemoteTypeOK' BY <1>a, <1>n, <1>e DEF RemoteTypeOK, RemoteLockInv
<1>y. RemoteLockInv' BY <1>a, <1>n, <1>e DEF RemoteTypeOK, RemoteLockInv
<1>z. RemoteFreedInv' BY <1>a, <1>n, <1>e DEF RemoteTypeOK, RemoteFreedInv
<1>q. QED BY <1>x, <1>y, <1>z DEF RemoteIInv

\* The monitor may find a mutex that is not locked.
LEMMA ChangeVolumeKeeps ==
  ASSUME RemoteIInv, ChangeVolume
  PROVE  RemoteIInv'
<1>a. RemoteTypeOK /\ RemoteLockInv /\ RemoteFreedInv BY DEF RemoteIInv
<1>n. /\ DOMAIN irPc = {"main", "monitor"} /\ NoThread = "none"
      /\ irPc \in [main : {"open", "exit", "loop", "lock", "switch", "join", "ended"},
                   monitor : {"loop", "lock", "volume", "ended"}]
  BY <1>a DEF RemoteTypeOK, NoThread
<1>e. /\ irPc["monitor"] = "volume" /\ mutex1' = NoThread
      /\ \/ misused' = misused
         \/ freed /\ misused' = misused \cup {"monitor"}
      /\ \/ freed' = freed /\ failed' = failed
         \/ freed' = TRUE /\ failed' = TRUE
      /\ irPc' \in [main : {"open", "exit", "loop", "lock", "switch", "join", "ended"},
                    monitor : {"loop", "lock", "volume", "ended"}]
      /\ irPc'["monitor"] = "loop" /\ irPc'["main"] = irPc["main"]
      /\ g_isRunning' = g_isRunning /\ destroyed' = destroyed /\ kept' = kept
      /\ noDevice' = noDevice
  BY <1>n DEF ChangeVolume, RemoteGoto, Unlock, Command
<1>x. RemoteTypeOK' BY <1>a, <1>n, <1>e DEF RemoteTypeOK, RemoteLockInv
<1>y. RemoteLockInv' BY <1>a, <1>n, <1>e DEF RemoteTypeOK, RemoteLockInv
<1>z. RemoteFreedInv' BY <1>a, <1>n, <1>e DEF RemoteTypeOK, RemoteFreedInv
<1>q. QED BY <1>x, <1>y, <1>z DEF RemoteIInv

\* SIGINT clears the flag.
LEMMA InterruptKeeps ==
  ASSUME RemoteIInv, INT_handler
  PROVE  RemoteIInv'
<1>a. RemoteTypeOK /\ RemoteLockInv /\ RemoteFreedInv BY DEF RemoteIInv
<1>n. /\ DOMAIN irPc = {"main", "monitor"} /\ NoThread = "none"
      /\ irPc \in [main : {"open", "exit", "loop", "lock", "switch", "join", "ended"},
                   monitor : {"loop", "lock", "volume", "ended"}]
  BY <1>a DEF RemoteTypeOK, NoThread
<1>e. irPc' = irPc /\ g_isRunning' = FALSE
      /\ mutex1' = mutex1 /\ destroyed' = destroyed /\ freed' = freed /\ kept' = kept
      /\ noDevice' = noDevice /\ failed' = failed /\ misused' = misused
  BY <1>n DEF INT_handler
<1>x. RemoteTypeOK' BY <1>a, <1>n, <1>e DEF RemoteTypeOK, RemoteLockInv
<1>y. RemoteLockInv' BY <1>a, <1>n, <1>e DEF RemoteTypeOK, RemoteLockInv
<1>z. RemoteFreedInv' BY <1>a, <1>n, <1>e DEF RemoteTypeOK, RemoteFreedInv
<1>q. QED BY <1>x, <1>y, <1>z DEF RemoteIInv

\* ir_event.c: one command at a time, and nobody is stuck but by an unknown key.
THEOREM PlayerIsInOrder == RemoteSpec => []RemoteInv
<1>1. RemoteInit => RemoteIInv BY RemoteStart
<1>2. RemoteIInv /\ [RemoteNext]_remoteVars => RemoteIInv'
  <2> SUFFICES ASSUME RemoteIInv, [RemoteNext]_remoteVars PROVE RemoteIInv' OBVIOUS
  <2>1. CASE UNCHANGED remoteVars
    BY <2>1 DEF remoteVars, RemoteIInv, RemoteTypeOK, RemoteLockInv, RemoteFreedInv
  <2>2. CASE remoteMain
    BY <2>2, OpenDeviceKeeps, ExitRemoteKeeps, ReadKeyKeeps, RemoteLockKeeps, KnownKeyKeeps,
       UnknownKeyKeeps, DestroyKeeps, RemoteJoinKeeps DEF remoteMain
  <2>3. CASE monitor BY <2>3, MonitorLoopKeeps, KeepaliveKeeps, ChangeVolumeKeeps DEF monitor
  <2>q. QED BY <2>1, <2>2, <2>3, InterruptKeeps DEF RemoteNext, RemoteStopped
<1>3. RemoteIInv => RemoteInv
  <2> SUFFICES ASSUME RemoteIInv PROVE RemoteInv OBVIOUS
  <2>1. OneCommandAtATime /\ MisusedOnlyAfterFailure /\ StuckOnlyIfKept
    BY DEF RemoteIInv, RemoteTypeOK, RemoteLockInv, RemoteFreedInv, OneCommandAtATime,
           MisusedOnlyAfterFailure, StuckOnlyIfKept, Stuck
  <2>q. QED BY <2>1 DEF RemoteInv, RemoteIInv
<1>q. QED BY <1>1, <1>2, <1>3, PTL DEF RemoteSpec

\* pth_condition_variable.c: who has read done as 1 is to wait, and who has read it as 2
\* comes after one that has.
ExecPlaceInv ==
  /\ execPc \in [Thread -> {"not created", "look", "set", "wait", "asleep", "signal", "ended"}]
  /\ sawOne \subseteq Thread /\ lock \in Thread \cup {NoThread} /\ cond1 \subseteq sawOne
  /\ \A t \in Thread :
       /\ execPc[t] \in {"not created", "look", "signal"} => t \notin sawOne
       /\ execPc[t] \in {"set", "wait", "asleep"} => t \in sawOne
       /\ t \in cond1 => execPc[t] = "asleep"
ExecOrderInv ==
  /\ done1 \in {1, 2}
  /\ done1 = 2 => \E u \in sawOne : execPc[u] # "set"
  /\ \A t \in Thread : t \notin sawOne /\ execPc[t] \in {"signal", "ended"} => done1 = 2
  /\ \A t, u \in Thread : t # u /\ t \notin sawOne /\ execPc[t] = "ended" =>
       tooSoon \/ (u \notin cond1 /\ execPc[u] \in {"asleep", "ended"})

ExecIInv == ExecPlaceInv /\ ExecOrderInv

\* The start of pth_condition_variable.c.
LEMMA ExecStart == WaitInit => ExecIInv
<1> SUFFICES ASSUME WaitInit PROVE ExecIInv OBVIOUS
<1>e. /\ done1 = 1 /\ lock = NoThread /\ cond1 = {} /\ sawOne = {}
      /\ execPc \in [Thread -> {"not created", "look"}]
  BY DEF WaitInit
<1>x. ExecPlaceInv BY <1>e DEF ExecPlaceInv
<1>d. done1 = 1 BY DEF WaitInit
<1>y. done1 \in {1, 2} /\ done1 # 2 BY <1>d
<1>p. \A t \in Thread : execPc[t] \notin {"signal", "ended"} BY <1>e
<1>z. ExecOrderInv BY <1>y, <1>p DEF ExecOrderInv
<1>q. QED BY <1>x, <1>z DEF ExecIInv

\* main() creates the second thread.
LEMMA ExecCreateKeeps ==
  ASSUME ExecIInv, ExecCreate
  PROVE  ExecIInv'
<1>a. ExecPlaceInv /\ ExecOrderInv BY DEF ExecIInv
<1>n. /\ execPc \in [Thread -> {"not created", "look", "set", "wait", "asleep", "signal", "ended"}]
      /\ NoThread = "none" /\ "first" \in Thread /\ "second" \in Thread
  BY <1>a DEF ExecPlaceInv, NoThread, Thread
<1>e. /\ execPc["second"] = "not created"
      /\ done1' = done1 /\ lock' = lock /\ cond1' = cond1 /\ sawOne' = sawOne
      /\ tooSoon' = tooSoon
  BY <1>n DEF ExecCreate, Runs
<1>p. /\ execPc' = [execPc EXCEPT !["second"] = "look"]
      /\ \A d \in Thread : execPc'[d] = IF d = "second" THEN "look" ELSE execPc[d]
      /\ execPc' \in [Thread -> {"not created", "look", "set", "wait", "asleep", "signal", "ended"}]
  BY <1>n, <1>e DEF ExecCreate, Runs
<1>x. ExecPlaceInv' BY <1>a, <1>n, <1>e, <1>p DEF ExecPlaceInv
<1>y. ExecOrderInv' BY ZenonT(60), <1>a, <1>n, <1>e, <1>p DEF ExecPlaceInv, ExecOrderInv
<1>q. QED BY <1>x, <1>y DEF ExecIInv

\* Who looks after done is set finds somebody that is to wait.
LEMMA ExecLookKeeps ==
  ASSUME ExecIInv, NEW t \in Thread, ExecLook(t)
  PROVE  ExecIInv'
<1>a. ExecPlaceInv /\ ExecOrderInv BY DEF ExecIInv
<1>n. /\ execPc \in [Thread -> {"not created", "look", "set", "wait", "asleep", "signal", "ended"}]
      /\ NoThread = "none" /\ "first" \in Thread /\ "second" \in Thread
  BY <1>a DEF ExecPlaceInv, NoThread, Thread
<1>e. /\ execPc[t] = "look" /\ sawOne' = IF done1 = 1 THEN sawOne \cup {t} ELSE sawOne
      /\ done1' = done1 /\ lock' = lock /\ cond1' = cond1 /\ tooSoon' = tooSoon
  BY <1>n DEF ExecLook, Runs
<1>p. /\ execPc' = [execPc EXCEPT ![t] = (IF done1 = 1 THEN "set" ELSE "signal")]
      /\ \A d \in Thread :
           execPc'[d] = IF d = t THEN (IF done1 = 1 THEN "set" ELSE "signal") ELSE execPc[d]
      /\ execPc' \in [Thread -> {"not created", "look", "set", "wait", "asleep", "signal", "ended"}]
  BY <1>n, <1>e DEF ExecLook, Runs
<1>x. ExecPlaceInv' BY <1>a, <1>n, <1>e, <1>p DEF ExecPlaceInv
<1>y. ExecOrderInv' BY ZenonT(60), <1>a, <1>n, <1>e, <1>p DEF ExecPlaceInv, ExecOrderInv
<1>q. QED BY <1>x, <1>y DEF ExecIInv

\* Who sets done has read it as 1.
LEMMA SetDoneKeeps ==
  ASSUME ExecIInv, NEW t \in Thread, SetDone(t)
  PROVE  ExecIInv'
<1>a. ExecPlaceInv /\ ExecOrderInv BY DEF ExecIInv
<1>n. /\ execPc \in [Thread -> {"not created", "look", "set", "wait", "asleep", "signal", "ended"}]
      /\ NoThread = "none" /\ "first" \in Thread /\ "second" \in Thread
  BY <1>a DEF ExecPlaceInv, NoThread, Thread
<1>e. /\ execPc[t] = "set" /\ done1' = 2
      /\ lock' = lock /\ cond1' = cond1 /\ sawOne' = sawOne /\ tooSoon' = tooSoon
  BY <1>n DEF SetDone, Runs
<1>p. /\ execPc' = [execPc EXCEPT ![t] = "wait"]
      /\ \A d \in Thread : execPc'[d] = IF d = t THEN "wait" ELSE execPc[d]
      /\ execPc' \in [Thread -> {"not created", "look", "set", "wait", "asleep", "signal", "ended"}]
  BY <1>n, <1>e DEF SetDone, Runs
<1>x. ExecPlaceInv' BY <1>a, <1>n, <1>e, <1>p DEF ExecPlaceInv
<1>y. ExecOrderInv'
  <2>1. done1' \in {1, 2} BY <1>a, <1>e DEF ExecOrderInv
  <2>2. done1' = 2 => \E u \in sawOne' : execPc'[u] # "set"
    BY <1>a, <1>n, <1>e, <1>p DEF ExecPlaceInv, ExecOrderInv
  <2>3. \A u \in Thread : u \notin sawOne' /\ execPc'[u] \in {"signal", "ended"} => done1' = 2
    BY <1>a, <1>n, <1>e, <1>p DEF ExecPlaceInv, ExecOrderInv
  <2>4. \A v, u \in Thread : v # u /\ v \notin sawOne' /\ execPc'[v] = "ended" =>
          tooSoon' \/ (u \notin cond1' /\ execPc'[u] \in {"asleep", "ended"})
    BY ZenonT(60), <1>a, <1>n, <1>e, <1>p DEF ExecPlaceInv, ExecOrderInv
  <2>q. QED BY <2>1, <2>2, <2>3, <2>4 DEF ExecOrderInv
<1>q. QED BY <1>x, <1>y DEF ExecIInv

\* A thread that has read 1 waits.
LEMMA ExecSleepKeeps ==
  ASSUME ExecIInv, NEW t \in Thread, ExecSleep(t)
  PROVE  ExecIInv'
<1>a. ExecPlaceInv /\ ExecOrderInv BY DEF ExecIInv
<1>n. /\ execPc \in [Thread -> {"not created", "look", "set", "wait", "asleep", "signal", "ended"}]
      /\ NoThread = "none" /\ "first" \in Thread /\ "second" \in Thread
  BY <1>a DEF ExecPlaceInv, NoThread, Thread
<1>e. /\ execPc[t] = "wait" /\ cond1' = cond1 \cup {t} /\ lock' = NoThread
      /\ done1' = done1 /\ sawOne' = sawOne /\ tooSoon' = tooSoon
  BY <1>n DEF ExecSleep, Runs, CondWait
<1>p. /\ execPc' = [execPc EXCEPT ![t] = "asleep"]
      /\ \A d \in Thread : execPc'[d] = IF d = t THEN "asleep" ELSE execPc[d]
      /\ execPc' \in [Thread -> {"not created", "look", "set", "wait", "asleep", "signal", "ended"}]
  BY <1>n, <1>e DEF ExecSleep, Runs
<1>x. ExecPlaceInv' BY ZenonT(60), <1>a, <1>n, <1>e, <1>p DEF ExecPlaceInv
<1>y. ExecOrderInv' BY ZenonT(60), <1>a, <1>n, <1>e, <1>p DEF ExecPlaceInv, ExecOrderInv
<1>q. QED BY <1>x, <1>y DEF ExecIInv

\* A thread that was woken takes the lock again, and ends.
LEMMA WaitAwakeKeeps ==
  ASSUME ExecIInv, NEW t \in Thread, WaitAwake(t)
  PROVE  ExecIInv'
<1>a. ExecPlaceInv /\ ExecOrderInv BY DEF ExecIInv
<1>n. /\ execPc \in [Thread -> {"not created", "look", "set", "wait", "asleep", "signal", "ended"}]
      /\ NoThread = "none" /\ "first" \in Thread /\ "second" \in Thread
  BY <1>a DEF ExecPlaceInv, NoThread, Thread
<1>e. /\ execPc[t] = "asleep" /\ t \notin cond1 /\ lock' = t
      /\ done1' = done1 /\ cond1' = cond1 /\ sawOne' = sawOne /\ tooSoon' = tooSoon
  BY <1>n DEF WaitAwake, Runs, CondResume
<1>p. /\ execPc' = [execPc EXCEPT ![t] = "ended"]
      /\ \A d \in Thread : execPc'[d] = IF d = t THEN "ended" ELSE execPc[d]
      /\ execPc' \in [Thread -> {"not created", "look", "set", "wait", "asleep", "signal", "ended"}]
  BY <1>n, <1>e DEF WaitAwake, Runs
<1>x. ExecPlaceInv' BY <1>a, <1>n, <1>e, <1>p DEF ExecPlaceInv
<1>y. ExecOrderInv'
  <2>1. done1' \in {1, 2} BY <1>a, <1>e DEF ExecOrderInv
  <2>2. done1' = 2 => \E u \in sawOne' : execPc'[u] # "set"
    BY <1>a, <1>n, <1>e, <1>p DEF ExecPlaceInv, ExecOrderInv
  <2>3. \A u \in Thread : u \notin sawOne' /\ execPc'[u] \in {"signal", "ended"} => done1' = 2
    BY <1>a, <1>n, <1>e, <1>p DEF ExecPlaceInv, ExecOrderInv
  <2>4. \A v, u \in Thread : v # u /\ v \notin sawOne' /\ execPc'[v] = "ended" =>
          tooSoon' \/ (u \notin cond1' /\ execPc'[u] \in {"asleep", "ended"})
    <3> SUFFICES ASSUME NEW v \in Thread, NEW u \in Thread, v # u, v \notin sawOne',
                        execPc'[v] = "ended", ~ tooSoon'
                 PROVE  u \notin cond1' /\ execPc'[u] \in {"asleep", "ended"}
      OBVIOUS
    <3>1. ~ tooSoon /\ v # t /\ execPc[v] = "ended" /\ v \notin sawOne
      BY <1>a, <1>e, <1>p DEF ExecPlaceInv
    <3>2. u \notin cond1 /\ execPc[u] \in {"asleep", "ended"} BY <1>a, <3>1 DEF ExecOrderInv
    <3>q. QED BY <1>e, <1>p, <3>2
  <2>q. QED BY <2>1, <2>2, <2>3, <2>4 DEF ExecOrderInv
<1>q. QED BY <1>x, <1>y DEF ExecIInv

\* The one that sleeps is woken, if there is one.
LEMMA WaitSignalKeeps ==
  ASSUME ExecIInv, NEW t \in Thread, WaitSignal(t)
  PROVE  ExecIInv'
<1>a. ExecPlaceInv /\ ExecOrderInv BY DEF ExecIInv
<1>n. /\ execPc \in [Thread -> {"not created", "look", "set", "wait", "asleep", "signal", "ended"}]
      /\ NoThread = "none" /\ "first" \in Thread /\ "second" \in Thread
  BY <1>a DEF ExecPlaceInv, NoThread, Thread
<1>e. /\ execPc[t] = "signal" /\ tooSoon' = (cond1 = {})
      /\ \/ cond1 = {} /\ cond1' = cond1
         \/ \E u \in cond1 : cond1' = cond1 \ {u}
      /\ done1' = done1 /\ lock' = lock /\ sawOne' = sawOne
  BY <1>n DEF WaitSignal, Runs, CondSignal
<1>p. /\ execPc' = [execPc EXCEPT ![t] = "ended"]
      /\ \A d \in Thread : execPc'[d] = IF d = t THEN "ended" ELSE execPc[d]
      /\ execPc' \in [Thread -> {"not created", "look", "set", "wait", "asleep", "signal", "ended"}]
  BY <1>n, <1>e DEF WaitSignal, Runs
<1>x. ExecPlaceInv' BY <1>a, <1>n, <1>e, <1>p DEF ExecPlaceInv
<1>y. ExecOrderInv'
  <2>1. done1' \in {1, 2} BY <1>a, <1>e DEF ExecOrderInv
  <2>2. done1' = 2 => \E u \in sawOne' : execPc'[u] # "set"
    BY <1>a, <1>n, <1>e, <1>p DEF ExecPlaceInv, ExecOrderInv
  <2>3. \A u \in Thread : u \notin sawOne' /\ execPc'[u] \in {"signal", "ended"} => done1' = 2
    BY <1>a, <1>n, <1>e, <1>p DEF ExecPlaceInv, ExecOrderInv
  <2>4. \A v, u \in Thread : v # u /\ v \notin sawOne' /\ execPc'[v] = "ended" =>
          tooSoon' \/ (u \notin cond1' /\ execPc'[u] \in {"asleep", "ended"})
    <3> SUFFICES ASSUME NEW v \in Thread, NEW u \in Thread, v # u, v \notin sawOne',
                        execPc'[v] = "ended", ~ tooSoon'
                 PROVE  u \notin cond1' /\ execPc'[u] \in {"asleep", "ended"}
      OBVIOUS
    <3>1. v \notin sawOne /\ cond1 # {} BY <1>e
    <3>2. PICK w \in cond1 : cond1' = cond1 \ {w} BY <1>e, <3>1
    <3>3. w \in Thread /\ w # v /\ w # t /\ execPc[w] = "asleep"
      BY <1>a, <1>e, <3>1, <3>2 DEF ExecPlaceInv
    <3>4. v = t /\ w = u BY <3>3 DEF Thread
    <3>q. QED BY <1>e, <1>p, <3>2, <3>3, <3>4
  <2>q. QED BY <2>1, <2>2, <2>3, <2>4 DEF ExecOrderInv
<1>q. QED BY <1>x, <1>y DEF ExecIInv

\* A thread is woken by nobody.
LEMMA WaitSpuriousKeeps ==
  ASSUME ExecIInv, WaitSpuriousWakeup
  PROVE  ExecIInv'
<1>a. ExecPlaceInv /\ ExecOrderInv BY DEF ExecIInv
<1>n. /\ execPc \in [Thread -> {"not created", "look", "set", "wait", "asleep", "signal", "ended"}]
      /\ NoThread = "none" /\ "first" \in Thread /\ "second" \in Thread
  BY <1>a DEF ExecPlaceInv, NoThread, Thread
<1>e. cond1' \subseteq cond1 /\ execPc' = execPc
      /\ done1' = done1 /\ lock' = lock /\ sawOne' = sawOne /\ tooSoon' = tooSoon
  BY <1>n DEF WaitSpuriousWakeup, Spurious
<1>x. ExecPlaceInv' BY <1>a, <1>n, <1>e DEF ExecPlaceInv
<1>y. ExecOrderInv' BY <1>a, <1>n, <1>e DEF ExecPlaceInv, ExecOrderInv
<1>q. QED BY <1>x, <1>y DEF ExecIInv

\* main() ends when the second thread has.
LEMMA ExitKeeps ==
  ASSUME ExecIInv, Exit
  PROVE  ExecIInv'
<1>a. ExecPlaceInv /\ ExecOrderInv BY DEF ExecIInv
<1>n. /\ execPc \in [Thread -> {"not created", "look", "set", "wait", "asleep", "signal", "ended"}]
      /\ NoThread = "none" /\ "first" \in Thread /\ "second" \in Thread
  BY <1>a DEF ExecPlaceInv, NoThread, Thread
<1>e. execPc' = execPc
      /\ done1' = done1 /\ lock' = lock /\ cond1' = cond1 /\ sawOne' = sawOne
      /\ tooSoon' = tooSoon
  BY <1>n DEF Exit
<1>x. ExecPlaceInv' BY <1>a, <1>n, <1>e DEF ExecPlaceInv
<1>y. ExecOrderInv' BY <1>a, <1>n, <1>e DEF ExecPlaceInv, ExecOrderInv
<1>q. QED BY <1>x, <1>y DEF ExecIInv

\* pth_condition_variable.c: who signals has somebody that waits, or came too early.
THEOREM OneWaitsOrSignals == WaitSpec => []WaitOrSignalInv
<1>1. WaitInit => ExecIInv BY ExecStart
<1>2. ExecIInv /\ [WaitNext]_execVars => ExecIInv'
  <2> SUFFICES ASSUME ExecIInv, [WaitNext]_execVars PROVE ExecIInv' OBVIOUS
  <2>1. CASE UNCHANGED execVars BY <2>1 DEF execVars, ExecIInv, ExecPlaceInv, ExecOrderInv
  <2>2. ASSUME NEW t \in Thread, execute(t) PROVE ExecIInv'
    BY <2>2, ExecLookKeeps, SetDoneKeeps, ExecSleepKeeps, WaitAwakeKeeps, WaitSignalKeeps
    DEF execute
  <2>q. QED BY <2>1, <2>2, ExecCreateKeeps, WaitSpuriousKeeps, ExitKeeps DEF WaitNext, Hangs
<1>3. ExecIInv => WaitOrSignalInv
  <2> SUFFICES ASSUME ExecIInv PROVE WaitOrSignalInv OBVIOUS
  <2>1. OneIsToWait BY ZenonT(60) DEF ExecIInv, ExecPlaceInv, ExecOrderInv, OneIsToWait, Thread
  <2>q. QED BY <2>1 DEF WaitOrSignalInv, ExecIInv, ExecPlaceInv
<1>q. QED BY <1>1, <1>2, <1>3, PTL DEF WaitSpec

\* 124mutex.c: who has the mutex, and what is in work_area when somebody sleeps.
TextLockInv ==
  /\ work_mutex = "main" <=> inputPc \in {"read", "signal", "look"}
  /\ work_mutex = "worker" <=> workPc \in {"look", "signal"}
  /\ inputPc \in {"read", "signal", "lock", "wait", "look", "join", "done"}
  /\ workPc \in {"sleep", "wait", "look", "signal", "done"}
  /\ "main" \in work_cond => inputPc = "wait" /\ work_area # ""
  /\ "worker" \in work_cond => workPc = "wait" /\ (work_area = "" \/ inputPc = "signal")

\* The line in work_area is the one that is not counted.
TextLineInv ==
  /\ typed \in Seq({"text", "end"}) /\ counted \in Seq({"text", "end"})
  /\ IF work_area = "" \/ workPc = "done" THEN typed = counted
                                          ELSE typed = Append(counted, work_area)
  /\ workPc = "done" => work_area = "end"
  /\ time_to_exit => workPc = "done"
  /\ inputPc = "read" \/ workPc = "signal" => work_area = ""

TextIInv == TextTypeOK /\ TextLockInv /\ TextLineInv

\* The start of 124mutex.c.
LEMMA TextStart == TextInit => TextIInv
<1> SUFFICES ASSUME TextInit PROVE TextIInv OBVIOUS
<1>w. TextTypeOK BY DEF TextInit, TextTypeOK
<1>x. TextLockInv BY DEF TextInit, TextLockInv
<1>e. /\ typed = <<>> /\ counted = <<>> /\ workPc = "sleep" /\ work_area = ""
      /\ time_to_exit = FALSE
  BY DEF TextInit
<1>d. typed = <<>> /\ counted = <<>> BY DEF TextInit
<1>f. typed \in Seq({"text", "end"}) /\ counted = typed BY <1>d
<1>g. workPc # "done" /\ workPc # "signal" /\ ~ time_to_exit BY <1>e
<1>y. TextLineInv BY <1>e, <1>f, <1>g DEF TextLineInv
<1>q. QED BY <1>w, <1>x, <1>y DEF TextIInv

\* A line is read into an empty work_area.
LEMMA FgetsKeeps ==
  ASSUME TextIInv, Fgets
  PROVE  TextIInv'
<1>a. TextTypeOK /\ TextLockInv /\ TextLineInv BY DEF TextIInv
<1>n. /\ work_area \in {"", "text", "end"} /\ work_cond \subseteq {"main", "worker"}
      /\ typed \in Seq({"text", "end"}) /\ counted \in Seq({"text", "end"}) /\ NoThread = "none"
  BY <1>a DEF TextTypeOK, TextLineInv, NoThread
<1>e. /\ inputPc = "read" /\ ~ time_to_exit /\ inputPc' = "signal"
      /\ \/ work_area' \in {"text", "end"} /\ typed' = Append(typed, work_area')
         \/ work_area' = work_area /\ typed' = typed
      /\ time_to_exit' = time_to_exit /\ work_mutex' = work_mutex /\ work_cond' = work_cond
      /\ workPc' = workPc /\ counted' = counted
  BY <1>n DEF Fgets, MainUnchanged
<1>w. TextTypeOK' BY <1>a, <1>n, <1>e DEF TextTypeOK
<1>x. TextLockInv' BY <1>a, <1>n, <1>e DEF TextLockInv, TextLineInv
<1>r. work_area = "" /\ typed = counted /\ workPc # "done" BY <1>a, <1>e DEF TextLineInv
<1>s. /\ typed' \in Seq({"text", "end"}) /\ workPc' # "done"
      /\ \/ work_area' = "" /\ typed' = counted'
         \/ work_area' # "" /\ typed' = Append(counted', work_area')
  <2>1. CASE work_area' \in {"text", "end"} /\ typed' = Append(typed, work_area')
    <3>1. typed \in Seq({"text", "end"}) /\ counted' = typed /\ workPc' = workPc BY <1>n, <1>e,
                                                                                    <1>r
    <3>2. typed' \in Seq({"text", "end"}) BY <2>1, <3>1
    <3>3. typed' = Append(counted', work_area') BY <2>1, <3>1
    <3>4. work_area' # "" BY <2>1
    <3>q. QED BY <1>r, <3>1, <3>2, <3>3, <3>4
  <2>2. CASE work_area' = work_area /\ typed' = typed BY <1>n, <1>e, <1>r, <2>2
  <2>q. QED BY <1>e, <2>1, <2>2
<1>y. TextLineInv' BY <1>a, <1>n, <1>e, <1>s DEF TextLineInv, TextLockInv
<1>q. QED BY <1>w, <1>x, <1>y DEF TextIInv

\* main() signals that it has read a line, and gives the mutex back.
LEMMA MainSignalKeeps ==
  ASSUME TextIInv, MainSignal
  PROVE  TextIInv'
<1>a. TextTypeOK /\ TextLockInv /\ TextLineInv BY DEF TextIInv
<1>n. /\ work_area \in {"", "text", "end"} /\ work_cond \subseteq {"main", "worker"}
      /\ typed \in Seq({"text", "end"}) /\ counted \in Seq({"text", "end"}) /\ NoThread = "none"
  BY <1>a DEF TextTypeOK, TextLineInv, NoThread
<1>e. /\ inputPc = "signal" /\ inputPc' = "lock" /\ work_mutex' = NoThread
      /\ \/ work_cond = {} /\ work_cond' = {}
         \/ \E t \in work_cond : work_cond' = work_cond \ {t}
      /\ work_area' = work_area /\ time_to_exit' = time_to_exit /\ workPc' = workPc
      /\ typed' = typed /\ counted' = counted
  BY <1>n DEF MainSignal, MainUnchanged, CondSignal, Unlock
<1>w. TextTypeOK' BY <1>a, <1>n, <1>e DEF TextTypeOK
<1>x. TextLockInv' BY <1>a, <1>n, <1>e DEF TextLockInv, TextLineInv
<1>y. TextLineInv' BY <1>a, <1>n, <1>e DEF TextLockInv, TextLineInv
<1>q. QED BY <1>w, <1>x, <1>y DEF TextIInv

\* main() takes the mutex, at first or woken, to look at its line.
LEMMA MainLooksKeeps ==
  ASSUME TextIInv, MainLooks
  PROVE  TextIInv'
<1>a. TextTypeOK /\ TextLockInv /\ TextLineInv BY DEF TextIInv
<1>n. /\ work_area \in {"", "text", "end"} /\ work_cond \subseteq {"main", "worker"}
      /\ typed \in Seq({"text", "end"}) /\ counted \in Seq({"text", "end"}) /\ NoThread = "none"
  BY <1>a DEF TextTypeOK, TextLineInv, NoThread
<1>e. /\ inputPc = "lock" \/ (inputPc = "wait" /\ "main" \notin work_cond)
      /\ work_mutex = NoThread /\ work_mutex' = "main" /\ inputPc' = "look"
      /\ work_area' = work_area /\ time_to_exit' = time_to_exit /\ work_cond' = work_cond
      /\ workPc' = workPc /\ typed' = typed /\ counted' = counted
  BY <1>n DEF MainLooks, MainUnchanged, CondResume, Lock
<1>w. TextTypeOK' BY <1>a, <1>n, <1>e DEF TextTypeOK
<1>x. TextLockInv' BY <1>a, <1>n, <1>e DEF TextLockInv, TextLineInv
<1>y. TextLineInv' BY <1>a, <1>n, <1>e DEF TextLockInv, TextLineInv
<1>q. QED BY <1>w, <1>x, <1>y DEF TextIInv

\* main() sleeps while there is a line to count.
LEMMA MainWaitsKeeps ==
  ASSUME TextIInv, MainWaits
  PROVE  TextIInv'
<1>a. TextTypeOK /\ TextLockInv /\ TextLineInv BY DEF TextIInv
<1>n. /\ work_area \in {"", "text", "end"} /\ work_cond \subseteq {"main", "worker"}
      /\ typed \in Seq({"text", "end"}) /\ counted \in Seq({"text", "end"}) /\ NoThread = "none"
  BY <1>a DEF TextTypeOK, TextLineInv, NoThread
<1>e. /\ inputPc = "look" /\ work_area # "" /\ work_mutex' = NoThread
      /\ work_cond' = work_cond \cup {"main"} /\ inputPc' = "wait"
      /\ work_area' = work_area /\ time_to_exit' = time_to_exit /\ workPc' = workPc
      /\ typed' = typed /\ counted' = counted
  BY <1>n DEF MainWaits, MainUnchanged, CondWait
<1>w. TextTypeOK' BY <1>a, <1>n, <1>e DEF TextTypeOK
<1>x. TextLockInv' BY <1>a, <1>n, <1>e DEF TextLockInv, TextLineInv
<1>y. TextLineInv' BY <1>a, <1>n, <1>e DEF TextLockInv, TextLineInv
<1>q. QED BY <1>w, <1>x, <1>y DEF TextIInv

\* main() reads on when the line is counted.
LEMMA MainGoesOnKeeps ==
  ASSUME TextIInv, MainGoesOn
  PROVE  TextIInv'
<1>a. TextTypeOK /\ TextLockInv /\ TextLineInv BY DEF TextIInv
<1>n. /\ work_area \in {"", "text", "end"} /\ work_cond \subseteq {"main", "worker"}
      /\ typed \in Seq({"text", "end"}) /\ counted \in Seq({"text", "end"}) /\ NoThread = "none"
  BY <1>a DEF TextTypeOK, TextLineInv, NoThread
<1>e. /\ inputPc = "look" /\ work_area = ""
      /\ \/ time_to_exit /\ inputPc' = "join" /\ work_mutex' = NoThread
         \/ ~ time_to_exit /\ inputPc' = "read" /\ work_mutex' = work_mutex
      /\ work_area' = work_area /\ time_to_exit' = time_to_exit /\ work_cond' = work_cond
      /\ workPc' = workPc /\ typed' = typed /\ counted' = counted
  BY <1>n DEF MainGoesOn, MainUnchanged
<1>w. TextTypeOK' BY <1>a, <1>n, <1>e DEF TextTypeOK
<1>x. TextLockInv' BY <1>a, <1>n, <1>e DEF TextLockInv, TextLineInv
<1>y. TextLineInv' BY <1>a, <1>n, <1>e DEF TextLockInv, TextLineInv
<1>q. QED BY <1>w, <1>x, <1>y DEF TextIInv

\* main() has joined the thread.
LEMMA TextJoinKeeps ==
  ASSUME TextIInv, TextJoin
  PROVE  TextIInv'
<1>a. TextTypeOK /\ TextLockInv /\ TextLineInv BY DEF TextIInv
<1>n. /\ work_area \in {"", "text", "end"} /\ work_cond \subseteq {"main", "worker"}
      /\ typed \in Seq({"text", "end"}) /\ counted \in Seq({"text", "end"}) /\ NoThread = "none"
  BY <1>a DEF TextTypeOK, TextLineInv, NoThread
<1>e. inputPc = "join" /\ workPc = "done" /\ inputPc' = "done"
      /\ work_area' = work_area /\ time_to_exit' = time_to_exit /\ work_mutex' = work_mutex
      /\ work_cond' = work_cond /\ workPc' = workPc /\ typed' = typed /\ counted' = counted
  BY <1>n DEF TextJoin, MainUnchanged
<1>w. TextTypeOK' BY <1>a, <1>n, <1>e DEF TextTypeOK
<1>x. TextLockInv' BY <1>a, <1>n, <1>e DEF TextLockInv, TextLineInv
<1>y. TextLineInv' BY <1>a, <1>n, <1>e DEF TextLockInv, TextLineInv
<1>q. QED BY <1>w, <1>x, <1>y DEF TextIInv

\* The thread takes the mutex.
LEMMA WorkerLockKeeps ==
  ASSUME TextIInv, WorkerLock
  PROVE  TextIInv'
<1>a. TextTypeOK /\ TextLockInv /\ TextLineInv BY DEF TextIInv
<1>n. /\ work_area \in {"", "text", "end"} /\ work_cond \subseteq {"main", "worker"}
      /\ typed \in Seq({"text", "end"}) /\ counted \in Seq({"text", "end"}) /\ NoThread = "none"
  BY <1>a DEF TextTypeOK, TextLineInv, NoThread
<1>e. /\ workPc = "sleep" \/ (workPc = "wait" /\ "worker" \notin work_cond)
      /\ work_mutex = NoThread /\ work_mutex' = "worker" /\ workPc' = "look"
      /\ work_area' = work_area /\ time_to_exit' = time_to_exit /\ work_cond' = work_cond
      /\ inputPc' = inputPc /\ typed' = typed /\ counted' = counted
  BY <1>n DEF WorkerLock, WorkerUnchanged, CondResume, Lock
<1>w. TextTypeOK' BY <1>a, <1>n, <1>e DEF TextTypeOK
<1>x. TextLockInv' BY <1>a, <1>n, <1>e DEF TextLockInv, TextLineInv
<1>y. TextLineInv' BY <1>a, <1>n, <1>e DEF TextLockInv, TextLineInv
<1>q. QED BY <1>w, <1>x, <1>y DEF TextIInv

\* The line that was to be counted is.
LEMMA CountLineKeeps ==
  ASSUME TextIInv, CountLine
  PROVE  TextIInv'
<1>a. TextTypeOK /\ TextLockInv /\ TextLineInv BY DEF TextIInv
<1>n. /\ work_area \in {"", "text", "end"} /\ work_cond \subseteq {"main", "worker"}
      /\ typed \in Seq({"text", "end"}) /\ counted \in Seq({"text", "end"}) /\ NoThread = "none"
  BY <1>a DEF TextTypeOK, TextLineInv, NoThread
<1>e. /\ workPc = "look" /\ work_area # "end" /\ work_area' = ""
      /\ counted' = IF work_area = "" THEN counted ELSE Append(counted, work_area)
      /\ workPc' = "signal"
      /\ \/ work_cond = {} /\ work_cond' = {}
         \/ \E t \in work_cond : work_cond' = work_cond \ {t}
      /\ time_to_exit' = time_to_exit /\ work_mutex' = work_mutex /\ inputPc' = inputPc
      /\ typed' = typed
  BY <1>n DEF CountLine, WorkerUnchanged, AreaAfter, CondSignal
<1>w. TextTypeOK' BY <1>a, <1>n, <1>e DEF TextTypeOK
<1>x. TextLockInv' BY <1>a, <1>n, <1>e DEF TextLockInv, TextLineInv
<1>y. TextLineInv' BY <1>a, <1>n, <1>e DEF TextLockInv, TextLineInv
<1>q. QED BY <1>w, <1>x, <1>y DEF TextIInv

\* The worker sleeps with nothing left to count.
LEMMA WorkerWaitsKeeps ==
  ASSUME TextIInv, WorkerWaits
  PROVE  TextIInv'
<1>a. TextTypeOK /\ TextLockInv /\ TextLineInv BY DEF TextIInv
<1>n. /\ work_area \in {"", "text", "end"} /\ work_cond \subseteq {"main", "worker"}
      /\ typed \in Seq({"text", "end"}) /\ counted \in Seq({"text", "end"}) /\ NoThread = "none"
  BY <1>a DEF TextTypeOK, TextLineInv, NoThread
<1>e. /\ workPc = "signal" /\ work_mutex' = NoThread
      /\ work_cond' = work_cond \cup {"worker"} /\ workPc' = "wait"
      /\ work_area' = work_area /\ time_to_exit' = time_to_exit /\ inputPc' = inputPc
      /\ typed' = typed /\ counted' = counted
  BY <1>n DEF WorkerWaits, WorkerUnchanged, CondWait
<1>w. TextTypeOK' BY <1>a, <1>n, <1>e DEF TextTypeOK
<1>x. TextLockInv' BY <1>a, <1>n, <1>e DEF TextLockInv, TextLineInv
<1>y. TextLineInv' BY <1>a, <1>n, <1>e DEF TextLockInv, TextLineInv
<1>q. QED BY <1>w, <1>x, <1>y DEF TextIInv

\* The last line is counted as well.
LEMMA EndsWorkKeeps ==
  ASSUME TextIInv, EndsWork
  PROVE  TextIInv'
<1>a. TextTypeOK /\ TextLockInv /\ TextLineInv BY DEF TextIInv
<1>n. /\ work_area \in {"", "text", "end"} /\ work_cond \subseteq {"main", "worker"}
      /\ typed \in Seq({"text", "end"}) /\ counted \in Seq({"text", "end"}) /\ NoThread = "none"
  BY <1>a DEF TextTypeOK, TextLineInv, NoThread
<1>e. /\ workPc = "look" /\ work_area = "end" /\ counted' = Append(counted, work_area)
      /\ time_to_exit' = TRUE /\ work_mutex' = NoThread /\ workPc' = "done"
      /\ \/ work_cond = {} /\ work_cond' = {}
         \/ \E t \in work_cond : work_cond' = work_cond \ {t}
      /\ work_area' = work_area /\ inputPc' = inputPc /\ typed' = typed
  BY <1>n DEF EndsWork, WorkerUnchanged, CondSignal, Unlock
<1>w. TextTypeOK' BY <1>a, <1>n, <1>e DEF TextTypeOK
<1>x. TextLockInv' BY <1>a, <1>n, <1>e DEF TextLockInv, TextLineInv
<1>y. TextLineInv' BY <1>a, <1>n, <1>e DEF TextLockInv, TextLineInv
<1>q. QED BY <1>w, <1>x, <1>y DEF TextIInv

\* A thread of 124mutex.c is woken by nobody.
LEMMA TextSpuriousKeeps ==
  ASSUME TextIInv, TextSpuriousWakeup
  PROVE  TextIInv'
<1>a. TextTypeOK /\ TextLockInv /\ TextLineInv BY DEF TextIInv
<1>n. /\ work_area \in {"", "text", "end"} /\ work_cond \subseteq {"main", "worker"}
      /\ typed \in Seq({"text", "end"}) /\ counted \in Seq({"text", "end"}) /\ NoThread = "none"
  BY <1>a DEF TextTypeOK, TextLineInv, NoThread
<1>e. work_cond' \subseteq work_cond
      /\ work_area' = work_area /\ time_to_exit' = time_to_exit /\ work_mutex' = work_mutex
      /\ inputPc' = inputPc /\ workPc' = workPc /\ typed' = typed /\ counted' = counted
  BY <1>n DEF TextSpuriousWakeup, Spurious
<1>w. TextTypeOK' BY <1>a, <1>n, <1>e DEF TextTypeOK
<1>x. TextLockInv' BY <1>a, <1>n, <1>e DEF TextLockInv, TextLineInv
<1>y. TextLineInv' BY <1>a, <1>n, <1>e DEF TextLockInv, TextLineInv
<1>q. QED BY <1>w, <1>x, <1>y DEF TextIInv

\* 124mutex.c: each line is counted before the next is read, whatever is typed.
THEOREM EachLineIsCounted == TextSpec => []TextInputInv
<1>1. TextInit => TextIInv BY TextStart
<1>2. TextIInv /\ [TextNext]_textVars => TextIInv'
  <2> SUFFICES ASSUME TextIInv, [TextNext]_textVars PROVE TextIInv' OBVIOUS
  <2>1. CASE UNCHANGED textVars
    BY <2>1 DEF textVars, TextIInv, TextTypeOK, TextLockInv, TextLineInv
  <2>2. CASE input
    BY <2>2, FgetsKeeps, MainSignalKeeps, MainLooksKeeps, MainWaitsKeeps, MainGoesOnKeeps,
       TextJoinKeeps DEF input
  <2>3. CASE thread_function
    BY <2>3, WorkerLockKeeps, CountLineKeeps, WorkerWaitsKeeps, EndsWorkKeeps
    DEF thread_function
  <2>q. QED BY <2>1, <2>2, <2>3, TextSpuriousKeeps DEF TextNext, TextStopped
<1>3. TextIInv => TextInputInv
  <2> SUFFICES ASSUME TextIInv PROVE TextInputInv OBVIOUS
  <2>1. /\ typed \in Seq({"text", "end"}) /\ counted \in Seq({"text", "end"})
        /\ typed = counted \/ (typed = Append(counted, work_area) /\ work_area \in {"text", "end"})
    BY DEF TextIInv, TextTypeOK, TextLineInv
  <2>2. counted = SubSeq(typed, 1, Len(counted)) /\ Len(typed) <= Len(counted) + 1
    BY <2>1
  <2>3. work_area = "text" <=> counted # typed /\ typed[Len(typed)] = "text"
    <3>1. CASE typed = counted
      <4>1. Append(counted, work_area) # counted \/ work_area \notin {"text", "end"} BY <2>1
      <4>2. work_area # "text" BY <2>1, <3>1, <4>1 DEF TextIInv, TextTypeOK, TextLineInv
      <4>q. QED BY <3>1, <4>2
    <3>2. CASE typed = Append(counted, work_area) /\ work_area \in {"text", "end"}
      BY <2>1, <3>2
    <3>q. QED BY <2>1, <3>1, <3>2
  <2>4. inputPc = "read" => typed = counted BY DEF TextIInv, TextTypeOK, TextLineInv
  <2>5. SomebodyIsAwake BY DEF TextIInv, TextLockInv, SomebodyIsAwake
  <2>q. QED BY <2>2, <2>3, <2>4, <2>5 DEF TextInputInv, LinesAreCounted, TextIInv
<1>q. QED BY <1>1, <1>2, <1>3, PTL DEF TextSpec

\* 06mutex.c: where main() and the thread are, and how far.
SortPlaceInv ==
  /\ arr \in [0 .. N - 1 -> Int] /\ temp \in Int /\ given \in Seq(Nat)
  /\ Len(given) = entry /\ overtaken \in BOOLEAN
  /\ entryPc \in {"scanf", "lock", "join", "done"}
  /\ entryPc = "scanf" <=> sortMutex = "main"
  /\ IF entryPc = "scanf" THEN entry < N ELSE entryPc # "lock" => entry = N
  /\ sorterPc \in {"lock", "move", "done"} /\ (sorterPc = "done" <=> next = N)
  /\ sorterPc = "move" => j <= next /\ next < N
  /\ entryPc = "done" => sorterPc = "done"
  /\ ~ overtaken => next <= entry /\ (sorterPc = "move" => next < entry)

\* The array with the element that the thread has in its hand.
Held == IF sorterPc = "move" THEN [arr EXCEPT ![j] = temp] ELSE arr

\* Whatever the thread moves, the numbers in the places that are read are those that were
\* read, each in its turn ...
Places == 0 .. entry - 1
Readings == 1 .. entry
SortNumbersInv ==
  ~ overtaken => \E p \in Bijection(Places, Readings) : \A k \in Places : Held[k] = given[p[k]]

\* ... and the first ones are in order but for the one in its hand.
SortOrderInv ==
  ~ overtaken =>
    /\ sorterPc # "move" => \A k \in 1 .. next - 1 : arr[k - 1] <= arr[k]
    /\ sorterPc = "move" => /\ \A k \in 1 .. next : k # j => Held[k - 1] <= Held[k]
                            /\ j > 0 /\ j < next => Held[j - 1] <= Held[j + 1]

SortIInv == SortTypeOK /\ SortPlaceInv /\ SortNumbersInv /\ SortOrderInv

\* One number more is the last of both.
LEMMA PairingGrows ==
  ASSUME NEW S, NEW T, NEW p \in Bijection(S, T), NEW a, a \notin S, NEW c, c \notin T,
         NEW g, NEW s, \A k \in S : g[k] = s[p[k]], g[a] = s[c]
  PROVE  \E q \in Bijection(S \cup {a}, T \cup {c}) : \A k \in S \cup {a} : g[k] = s[q[k]]
<1> DEFINE q == [k \in S \cup {a} |-> IF k = a THEN c ELSE p[k]]
<1>p. /\ p \in [S -> T] /\ \A k, l \in S : p[k] = p[l] => k = l
      /\ \A t \in T : \E k \in S : p[k] = t
  BY DEF Bijection, Injection, Surjection, IsInjective
<1>1. q \in [S \cup {a} -> T \cup {c}] /\ q[a] = c /\ \A k \in S : q[k] = p[k] /\ p[k] # c
  BY <1>p
<1>2. \A k, l \in S \cup {a} : q[k] = q[l] => k = l BY <1>1, <1>p
<1>3. \A t \in T \cup {c} : \E k \in S \cup {a} : q[k] = t BY <1>1, <1>p
<1>4. \A k \in S \cup {a} : g[k] = s[q[k]] BY <1>1
<1> HIDE DEF q
<1>5. q \in Bijection(S \cup {a}, T \cup {c})
  BY <1>1, <1>2, <1>3 DEF Bijection, Injection, Surjection, IsInjective
<1>q. QED BY <1>4, <1>5

\* A bijection whose values change places is one.
LEMMA PairingSwaps ==
  ASSUME NEW S, NEW T, NEW p \in Bijection(S, T), NEW i \in S, NEW l \in S
  PROVE  \E q \in Bijection(S, T) : /\ q[i] = p[l] /\ q[l] = p[i]
                                   /\ \A k \in S : k # i /\ k # l => q[k] = p[k]
<1> DEFINE q == [k \in S |-> IF k = i THEN p[l] ELSE IF k = l THEN p[i] ELSE p[k]]
<1>p. /\ p \in [S -> T] /\ \A k, m \in S : p[k] = p[m] => k = m
      /\ \A t \in T : \E k \in S : p[k] = t
  BY DEF Bijection, Injection, Surjection, IsInjective
<1>1. /\ q \in [S -> T]
      /\ \A k \in S : q[k] = IF k = i THEN p[l] ELSE IF k = l THEN p[i] ELSE p[k]
  BY <1>p
<1>2. \A k, m \in S : q[k] = q[m] => k = m BY <1>1, <1>p
<1>3. \A t \in T : \E k \in S : q[k] = t
  <2> TAKE t \in T
  <2>1. PICK k \in S : p[k] = t BY <1>p
  <2>2. CASE k = i BY <1>1, <2>1, <2>2
  <2>3. CASE k = l BY <1>1, <2>1, <2>3
  <2>4. CASE k # i /\ k # l BY <1>1, <2>1, <2>4
  <2>q. QED BY <2>2, <2>3, <2>4
<1>4. q[i] = p[l] /\ q[l] = p[i] /\ \A k \in S : k # i /\ k # l => q[k] = p[k] BY <1>1
<1> HIDE DEF q
<1>5. q \in Bijection(S, T)
  BY <1>1, <1>2, <1>3 DEF Bijection, Injection, Surjection, IsInjective
<1>q. QED BY <1>4, <1>5

\* What Held is.
LEMMA HeldIs ==
  ASSUME SortTypeOK, SortPlaceInv
  PROVE  /\ Held \in [0 .. N - 1 -> Int]
         /\ \A k \in 0 .. N - 1 : Held[k] = IF sorterPc = "move" /\ k = j THEN temp ELSE arr[k]
BY DEF SortTypeOK, SortPlaceInv, Held

\* The start of 06mutex.c.
LEMMA SortStart == SortInit => SortIInv
<1> SUFFICES ASSUME SortInit PROVE SortIInv OBVIOUS
<1>n. N \in Nat \ {0} /\ MaxNumber \in Nat \ {0} BY InputSortAssumption
<1>e. /\ entryPc = "scanf" /\ entry = 0 /\ sorterPc = "lock" /\ next = 0 /\ temp = 0 /\ j = 0
      /\ sortMutex = "main" /\ arr \in [0 .. N - 1 -> Int] /\ overtaken = FALSE
  BY <1>n DEF SortInit
<1>g. given = <<>> BY DEF SortInit
<1>h. given \in Seq(Nat) /\ Len(given) = 0 BY <1>g
<1>w. SortTypeOK BY <1>n, <1>e DEF SortTypeOK
<1>x. SortPlaceInv
  <2>1. temp \in Int /\ Len(given) = entry /\ next <= entry /\ entry < N /\ next # N BY <1>n,
                                                                                        <1>e,
                                                                                        <1>h
  <2>q. QED BY <1>e, <1>h, <2>1 DEF SortPlaceInv
<1>y. SortNumbersInv
  <2> DEFINE p == [k \in {} |-> 0]
  <2>1. Places = {} /\ Readings = {} BY <1>e DEF Places, Readings
  <2>2. p \in Bijection({}, {}) BY DEF Bijection, Injection, Surjection, IsInjective
  <2>q. QED BY <2>1, <2>2 DEF SortNumbersInv
<1>z. SortOrderInv BY <1>e DEF SortOrderInv
<1>q. QED BY <1>w, <1>x, <1>y, <1>z DEF SortIInv

\* A number more is in both, behind those that the thread looks at.
LEMMA ScanfKeeps ==
  ASSUME SortIInv, ScanfAndUnlock
  PROVE  SortIInv'
<1>a. SortTypeOK /\ SortPlaceInv /\ SortNumbersInv /\ SortOrderInv BY DEF SortIInv
<1>n. /\ N \in Nat \ {0} /\ MaxNumber \in Nat \ {0} /\ entry \in 0 .. N /\ next \in 0 .. N
      /\ j \in 0 .. N - 1 /\ arr \in [0 .. N - 1 -> Int] /\ temp \in Int
      /\ given \in Seq(Nat) /\ Len(given) = entry /\ overtaken \in BOOLEAN
  BY <1>a, InputSortAssumption DEF SortTypeOK, SortPlaceInv
<1>e. /\ entryPc = "scanf" /\ sortMutex' = "none" /\ entryPc' = "lock" /\ entry' = entry + 1
      /\ \E x \in 1 .. MaxNumber : arr' = [arr EXCEPT ![entry] = x] /\ given' = Append(given, x)
      /\ sorterPc' = sorterPc /\ next' = next /\ temp' = temp /\ j' = j
      /\ overtaken' = overtaken
  BY <1>n DEF ScanfAndUnlock
<1>c. PICK x \in 1 .. MaxNumber : arr' = [arr EXCEPT ![entry] = x] /\ given' = Append(given, x)
  BY <1>e
<1>t. entry < N BY <1>a, <1>e DEF SortPlaceInv
<1>f. /\ arr' \in [0 .. N - 1 -> Int]
      /\ \A k \in 0 .. N - 1 : arr'[k] = IF k = entry THEN x ELSE arr[k]
  BY <1>n, <1>c, <1>t
<1>g. given' \in Seq(Nat) /\ Len(given') = entry + 1 BY <1>n, <1>c
<1>w. SortTypeOK' BY <1>a, <1>n, <1>e, <1>t DEF SortTypeOK, SortPlaceInv
<1>x. SortPlaceInv' BY <1>a, <1>n, <1>e, <1>t, <1>f, <1>g DEF SortTypeOK, SortPlaceInv
<1>h. /\ \A k \in 0 .. N - 1 : Held[k] = IF sorterPc = "move" /\ k = j THEN temp ELSE arr[k]
      /\ \A k \in 0 .. N - 1 : Held'[k] = IF sorterPc' = "move" /\ k = j' THEN temp' ELSE arr'[k]
      /\ Held \in [0 .. N - 1 -> Int] /\ Held' \in [0 .. N - 1 -> Int]
  <2>1. (/\ Held \in [0 .. N - 1 -> Int]
         /\ \A k \in 0 .. N - 1 : Held[k] = IF sorterPc = "move" /\ k = j THEN temp ELSE arr[k])'
    BY <1>w, <1>x, HeldIs, PTL
  <2>q. QED BY <1>a, <1>w, <1>x, <2>1, HeldIs
<1>b. ~ overtaken => next <= entry /\ (sorterPc = "move" => next < entry /\ j <= next)
  BY <1>a DEF SortPlaceInv
<1>i. ~ overtaken => \A k \in 0 .. N - 1 : Held'[k] = IF k = entry THEN x ELSE Held[k]
  <2> SUFFICES ASSUME ~ overtaken, NEW k \in 0 .. N - 1
               PROVE  Held'[k] = IF k = entry THEN x ELSE Held[k]
    OBVIOUS
  <2>1. ~ (sorterPc = "move" /\ entry = j) BY <1>n, <1>b
  <2>q. QED BY <1>e, <1>f, <1>h, <2>1
<1>y. SortNumbersInv'
  <2> SUFFICES ASSUME ~ overtaken PROVE SortNumbersInv' BY <1>e DEF SortNumbersInv
  <2>1. PICK p \in Bijection(Places, Readings) : \A k \in Places : Held[k] = given[p[k]]
    BY <1>a DEF SortNumbersInv
  <2>2. ASSUME NEW k \in Places PROVE Held'[k] = given'[p[k]]
    <3>1. k \in 0 .. N - 1 /\ k # entry BY <1>n DEF Places
    <3>2. p[k] \in Readings BY DEF Bijection, Injection
    <3>3. given'[p[k]] = given[p[k]] BY <1>n, <1>c, <3>2 DEF Readings
    <3>q. QED BY <1>i, <2>1, <3>1, <3>3
  <2>3. Held'[entry] = given'[entry + 1] BY <1>n, <1>c, <1>i, <1>t
  <2>4. entry \notin Places /\ entry + 1 \notin Readings BY <1>n DEF Places, Readings
  <2>5. Places' = Places \cup {entry} /\ Readings' = Readings \cup {entry + 1}
    <3>1. Places' = 0 .. entry /\ Readings' = 1 .. entry + 1 BY <1>n, <1>e DEF Places, Readings
    <3>2. 0 .. entry = (0 .. entry - 1) \cup {entry} BY <1>n
    <3>3. 1 .. entry + 1 = (1 .. entry) \cup {entry + 1} BY <1>n
    <3>q. QED BY <3>1, <3>2, <3>3 DEF Places, Readings
  <2>6. \E q \in Bijection(Places \cup {entry}, Readings \cup {entry + 1}) :
          \A k \in Places \cup {entry} : Held'[k] = given'[q[k]]
    BY <2>2, <2>3, <2>4, PairingGrows
  <2>q. QED BY <2>5, <2>6 DEF SortNumbersInv
<1>z. SortOrderInv'
  <2> SUFFICES ASSUME ~ overtaken PROVE SortOrderInv' BY <1>e DEF SortOrderInv
  <2>1. ASSUME sorterPc # "move", NEW k \in 1 .. next - 1 PROVE arr'[k - 1] <= arr'[k]
    BY <1>a, <1>n, <1>b, <1>f, <2>1 DEF SortOrderInv
  <2>2. ASSUME sorterPc = "move", NEW k \in 1 .. next, k # j PROVE Held'[k - 1] <= Held'[k]
    BY <1>a, <1>n, <1>b, <1>i, <2>2 DEF SortOrderInv
  <2>3. ASSUME sorterPc = "move", j > 0, j < next PROVE Held'[j - 1] <= Held'[j + 1]
    BY <1>a, <1>n, <1>b, <1>i, <2>3 DEF SortOrderInv
  <2>q. QED BY <1>e, <2>1, <2>2, <2>3 DEF SortOrderInv
<1>q. QED BY <1>w, <1>x, <1>y, <1>z DEF SortIInv

\* The thread takes the mutex for the next number.
LEMMA EntryLockKeeps ==
  ASSUME SortIInv, EntryLock
  PROVE  SortIInv'
<1>a. SortTypeOK /\ SortPlaceInv /\ SortNumbersInv /\ SortOrderInv BY DEF SortIInv
<1>n. /\ N \in Nat \ {0} /\ MaxNumber \in Nat \ {0} /\ entry \in 0 .. N /\ next \in 0 .. N
      /\ j \in 0 .. N - 1 /\ arr \in [0 .. N - 1 -> Int] /\ temp \in Int
      /\ given \in Seq(Nat) /\ Len(given) = entry /\ overtaken \in BOOLEAN
  BY <1>a, InputSortAssumption DEF SortTypeOK, SortPlaceInv
<1>e. /\ entryPc = "lock" /\ sortMutex = "none"
      /\ IF entry < N THEN sortMutex' = "main" /\ entryPc' = "scanf"
                      ELSE entryPc' = "join" /\ sortMutex' = sortMutex
      /\ arr' = arr /\ entry' = entry /\ sorterPc' = sorterPc /\ next' = next
      /\ temp' = temp /\ j' = j /\ given' = given /\ overtaken' = overtaken
  BY <1>n DEF EntryLock
<1>i. Held' = Held BY <1>e DEF Held
<1>w. SortTypeOK' BY <1>a, <1>n, <1>e DEF SortTypeOK, SortPlaceInv
<1>x. SortPlaceInv' BY <1>a, <1>n, <1>e DEF SortTypeOK, SortPlaceInv
<1>y. SortNumbersInv' BY <1>a, <1>e, <1>i DEF SortNumbersInv, Places, Readings
<1>z. SortOrderInv' BY <1>a, <1>e, <1>i DEF SortOrderInv
<1>q. QED BY <1>w, <1>x, <1>y, <1>z DEF SortIInv

\* main() has joined the thread that sorts.
LEMMA SortJoinKeeps ==
  ASSUME SortIInv, SortJoin
  PROVE  SortIInv'
<1>a. SortTypeOK /\ SortPlaceInv /\ SortNumbersInv /\ SortOrderInv BY DEF SortIInv
<1>n. /\ N \in Nat \ {0} /\ MaxNumber \in Nat \ {0} /\ entry \in 0 .. N /\ next \in 0 .. N
      /\ j \in 0 .. N - 1 /\ arr \in [0 .. N - 1 -> Int] /\ temp \in Int
      /\ given \in Seq(Nat) /\ Len(given) = entry /\ overtaken \in BOOLEAN
  BY <1>a, InputSortAssumption DEF SortTypeOK, SortPlaceInv
<1>e. entryPc = "join" /\ sorterPc = "done" /\ entryPc' = "done"
      /\ arr' = arr /\ sortMutex' = sortMutex /\ entry' = entry /\ sorterPc' = sorterPc
      /\ next' = next /\ temp' = temp /\ j' = j /\ given' = given /\ overtaken' = overtaken
  BY <1>n DEF SortJoin
<1>i. Held' = Held BY <1>e DEF Held
<1>w. SortTypeOK' BY <1>a, <1>n, <1>e DEF SortTypeOK, SortPlaceInv
<1>x. SortPlaceInv' BY <1>a, <1>n, <1>e DEF SortTypeOK, SortPlaceInv
<1>y. SortNumbersInv' BY <1>a, <1>e, <1>i DEF SortNumbersInv, Places, Readings
<1>z. SortOrderInv' BY <1>a, <1>e, <1>i DEF SortOrderInv
<1>q. QED BY <1>w, <1>x, <1>y, <1>z DEF SortIInv

\* The thread takes the next number in its hand.
LEMMA TakeKeeps ==
  ASSUME SortIInv, Take
  PROVE  SortIInv'
<1>a. SortTypeOK /\ SortPlaceInv /\ SortNumbersInv /\ SortOrderInv BY DEF SortIInv
<1>n. /\ N \in Nat \ {0} /\ MaxNumber \in Nat \ {0} /\ entry \in 0 .. N /\ next \in 0 .. N
      /\ j \in 0 .. N - 1 /\ arr \in [0 .. N - 1 -> Int] /\ temp \in Int
      /\ given \in Seq(Nat) /\ Len(given) = entry /\ overtaken \in BOOLEAN
  BY <1>a, InputSortAssumption DEF SortTypeOK, SortPlaceInv
<1>e. /\ sorterPc = "lock" /\ sortMutex = "none" /\ next < N
      /\ temp' = arr[next] /\ j' = next /\ sorterPc' = "move"
      /\ overtaken' = (overtaken \/ next >= entry)
      /\ arr' = arr /\ sortMutex' = sortMutex /\ entryPc' = entryPc /\ entry' = entry
      /\ next' = next /\ given' = given
  BY <1>n DEF Take
<1>o. overtaken' \in BOOLEAN /\ (~ overtaken' => ~ overtaken /\ next < entry)
  <2>1. CASE next >= entry BY <1>e, <2>1
  <2>2. CASE ~ (next >= entry)
    <3>1. next < entry BY <1>n, <2>2
    <3>q. QED BY <1>n, <1>e, <2>2, <3>1
  <2>q. QED BY <2>1, <2>2
<1>w. SortTypeOK' BY <1>a, <1>n, <1>e DEF SortTypeOK
<1>x. SortPlaceInv'
  <2>1. temp' \in Int BY <1>n, <1>e
  <2>q. QED BY <1>a, <1>n, <1>e, <1>o, <2>1 DEF SortTypeOK, SortPlaceInv
<1>h. /\ \A k \in 0 .. N - 1 : Held[k] = IF sorterPc = "move" /\ k = j THEN temp ELSE arr[k]
      /\ \A k \in 0 .. N - 1 : Held'[k] = IF sorterPc' = "move" /\ k = j' THEN temp' ELSE arr'[k]
      /\ Held \in [0 .. N - 1 -> Int] /\ Held' \in [0 .. N - 1 -> Int]
  <2>1. (/\ Held \in [0 .. N - 1 -> Int]
         /\ \A k \in 0 .. N - 1 : Held[k] = IF sorterPc = "move" /\ k = j THEN temp ELSE arr[k])'
    BY <1>w, <1>x, HeldIs, PTL
  <2>q. QED BY <1>a, <1>w, <1>x, <2>1, HeldIs
<1>i. \A k \in 0 .. N - 1 : Held[k] = arr[k] /\ Held'[k] = arr[k] BY <1>e, <1>h
<1>y. SortNumbersInv'
  <2> SUFFICES ASSUME ~ overtaken' PROVE SortNumbersInv' BY DEF SortNumbersInv
  <2>0. Places' = Places /\ Readings' = Readings BY <1>e DEF Places, Readings
  <2>1. \A k \in Places : Held'[k] = Held[k] BY <1>n, <1>i DEF Places
  <2>2. PICK p \in Bijection(Places, Readings) : \A k \in Places : Held[k] = given[p[k]]
    BY <1>a, <1>o DEF SortNumbersInv
  <2>3. \A k \in Places : Held'[k] = given[p[k]] BY <2>1, <2>2
  <2>q. QED BY <1>e, <2>0, <2>3 DEF SortNumbersInv
<1>z. SortOrderInv'
  <2> SUFFICES ASSUME ~ overtaken' PROVE SortOrderInv' BY DEF SortOrderInv
  <2>1. ASSUME NEW k \in 1 .. next, k # next PROVE Held'[k - 1] <= Held'[k]
    <3>1. k \in 1 .. next - 1 /\ k \in 0 .. N - 1 /\ k - 1 \in 0 .. N - 1 BY <1>n, <1>e, <2>1
    <3>2. arr[k - 1] <= arr[k] BY <1>a, <1>e, <1>o, <3>1 DEF SortOrderInv
    <3>q. QED BY <1>i, <3>1, <3>2
  <2>2. ~ (j' < next') BY <1>n, <1>e
  <2>q. QED BY <1>e, <2>1, <2>2 DEF SortOrderInv
<1>q. QED BY <1>w, <1>x, <1>y, <1>z DEF SortIInv

\* A larger number changes places with the one in the hand.
LEMMA MoveKeeps ==
  ASSUME SortIInv, Move
  PROVE  SortIInv'
<1>a. SortTypeOK /\ SortPlaceInv /\ SortNumbersInv /\ SortOrderInv BY DEF SortIInv
<1>n. /\ N \in Nat \ {0} /\ MaxNumber \in Nat \ {0} /\ entry \in 0 .. N /\ next \in 0 .. N
      /\ j \in 0 .. N - 1 /\ arr \in [0 .. N - 1 -> Int] /\ temp \in Int
      /\ given \in Seq(Nat) /\ Len(given) = entry /\ overtaken \in BOOLEAN
  BY <1>a, InputSortAssumption DEF SortTypeOK, SortPlaceInv
<1>e. /\ sorterPc = "move" /\ j > 0 /\ temp < arr[j - 1]
      /\ arr' = [arr EXCEPT ![j] = arr[j - 1]] /\ j' = j - 1
      /\ sortMutex' = sortMutex /\ entryPc' = entryPc /\ entry' = entry
      /\ sorterPc' = sorterPc /\ next' = next /\ temp' = temp /\ given' = given
      /\ overtaken' = overtaken
  BY <1>n DEF Move, Smaller
<1>f. /\ arr' \in [0 .. N - 1 -> Int]
      /\ \A k \in 0 .. N - 1 : arr'[k] = IF k = j THEN arr[j - 1] ELSE arr[k]
  BY <1>n, <1>e
<1>w. SortTypeOK' BY <1>a, <1>n, <1>e DEF SortTypeOK
<1>x. SortPlaceInv' BY <1>a, <1>n, <1>e, <1>f DEF SortTypeOK, SortPlaceInv
<1>h. /\ \A k \in 0 .. N - 1 : Held[k] = IF sorterPc = "move" /\ k = j THEN temp ELSE arr[k]
      /\ \A k \in 0 .. N - 1 : Held'[k] = IF sorterPc' = "move" /\ k = j' THEN temp' ELSE arr'[k]
      /\ Held \in [0 .. N - 1 -> Int] /\ Held' \in [0 .. N - 1 -> Int]
  <2>1. (/\ Held \in [0 .. N - 1 -> Int]
         /\ \A k \in 0 .. N - 1 : Held[k] = IF sorterPc = "move" /\ k = j THEN temp ELSE arr[k])'
    BY <1>w, <1>x, HeldIs, PTL
  <2>q. QED BY <1>a, <1>w, <1>x, <2>1, HeldIs
<1>b. j <= next /\ (~ overtaken => next < entry) BY <1>a, <1>e DEF SortPlaceInv
<1>i. \A k \in 0 .. N - 1 :
        Held'[k] = IF k = j THEN Held[j - 1] ELSE IF k = j - 1 THEN Held[j] ELSE Held[k]
  BY <1>n, <1>e, <1>f, <1>h
<1>y. SortNumbersInv'
  <2> SUFFICES ASSUME ~ overtaken PROVE SortNumbersInv' BY <1>e DEF SortNumbersInv
  <2>1. PICK p \in Bijection(Places, Readings) : \A k \in Places : Held[k] = given[p[k]]
    BY <1>a DEF SortNumbersInv
  <2>2. j \in Places /\ j - 1 \in Places BY <1>n, <1>e, <1>b DEF Places
  <2>3. \A k \in Places :
          Held'[k] = IF k = j THEN Held[j - 1] ELSE IF k = j - 1 THEN Held[j] ELSE Held[k]
    BY <1>n, <1>i DEF Places
  <2>4. \E q \in Bijection(Places, Readings) : \A k \in Places : Held'[k] = given[q[k]]
    <3>1. PICK q \in Bijection(Places, Readings) :
            /\ q[j] = p[j - 1] /\ q[j - 1] = p[j]
            /\ \A k \in Places : k # j /\ k # j - 1 => q[k] = p[k]
      BY <2>2, PairingSwaps
    <3>2. \A k \in Places : Held'[k] = given[q[k]] BY <2>1, <2>2, <2>3, <3>1
    <3>q. QED BY <3>2
  <2>5. Places' = Places /\ Readings' = Readings BY <1>e DEF Places, Readings
  <2>q. QED BY <1>e, <2>4, <2>5 DEF SortNumbersInv
<1>z. SortOrderInv'
  <2> SUFFICES ASSUME ~ overtaken PROVE SortOrderInv' BY <1>e DEF SortOrderInv
  <2>1. /\ \A k \in 1 .. next : k # j => Held[k - 1] <= Held[k]
        /\ j < next => Held[j - 1] <= Held[j + 1]
        /\ Held[j] <= Held[j - 1] /\ next < N
    BY <1>a, <1>n, <1>e, <1>h, <1>b DEF SortOrderInv, SortPlaceInv
  <2>2. ASSUME NEW k \in 1 .. next, k # j - 1 PROVE Held'[k - 1] <= Held'[k]
    <3>1. k \in 0 .. N - 1 /\ k - 1 \in 0 .. N - 1 BY <1>n, <2>1
    <3>2. CASE k = j BY <1>n, <1>i, <2>1, <3>1, <3>2
    <3>3. CASE k = j + 1 BY <1>n, <1>i, <2>1, <3>1, <3>3
    <3>4. CASE k # j /\ k # j + 1 BY <1>n, <1>i, <2>1, <2>2, <3>1, <3>4
    <3>q. QED BY <3>2, <3>3, <3>4
  <2>3. j - 1 > 0 => Held'[j - 2] <= Held'[j] BY <1>n, <1>e, <1>b, <1>i, <2>1
  <2>4. j' - 1 = j - 2 /\ j' + 1 = j BY <1>n, <1>e
  <2>q. QED BY <1>e, <2>2, <2>3, <2>4 DEF SortOrderInv
<1>q. QED BY <1>w, <1>x, <1>y, <1>z DEF SortIInv

\* The number in the hand is put down where it belongs.
LEMMA PutKeeps ==
  ASSUME SortIInv, Put
  PROVE  SortIInv'
<1>a. SortTypeOK /\ SortPlaceInv /\ SortNumbersInv /\ SortOrderInv BY DEF SortIInv
<1>n. /\ N \in Nat \ {0} /\ MaxNumber \in Nat \ {0} /\ entry \in 0 .. N /\ next \in 0 .. N
      /\ j \in 0 .. N - 1 /\ arr \in [0 .. N - 1 -> Int] /\ temp \in Int
      /\ given \in Seq(Nat) /\ Len(given) = entry /\ overtaken \in BOOLEAN
  BY <1>a, InputSortAssumption DEF SortTypeOK, SortPlaceInv
<1>e. /\ sorterPc = "move" /\ ~ (j > 0 /\ temp < arr[j - 1])
      /\ arr' = [arr EXCEPT ![j] = temp] /\ next' = next + 1
      /\ sorterPc' = IF next' = N THEN "done" ELSE "lock"
      /\ sortMutex' = sortMutex /\ entryPc' = entryPc /\ entry' = entry /\ temp' = temp
      /\ j' = j /\ given' = given /\ overtaken' = overtaken
  BY <1>n DEF Put, Smaller
<1>f. /\ arr' \in [0 .. N - 1 -> Int]
      /\ \A k \in 0 .. N - 1 : arr'[k] = IF k = j THEN temp ELSE arr[k]
  BY <1>n, <1>e
<1>b. j <= next /\ next < N /\ (~ overtaken => next < entry) BY <1>a, <1>e DEF SortPlaceInv
<1>w. SortTypeOK' BY <1>a, <1>n, <1>e, <1>b DEF SortTypeOK
<1>x. SortPlaceInv' BY <1>a, <1>n, <1>e, <1>f, <1>b DEF SortTypeOK, SortPlaceInv
<1>h. /\ \A k \in 0 .. N - 1 : Held[k] = IF sorterPc = "move" /\ k = j THEN temp ELSE arr[k]
      /\ \A k \in 0 .. N - 1 : Held'[k] = IF sorterPc' = "move" /\ k = j' THEN temp' ELSE arr'[k]
      /\ Held \in [0 .. N - 1 -> Int] /\ Held' \in [0 .. N - 1 -> Int]
  <2>1. (/\ Held \in [0 .. N - 1 -> Int]
         /\ \A k \in 0 .. N - 1 : Held[k] = IF sorterPc = "move" /\ k = j THEN temp ELSE arr[k])'
    BY <1>w, <1>x, HeldIs, PTL
  <2>q. QED BY <1>a, <1>w, <1>x, <2>1, HeldIs
<1>i. /\ \A k \in 0 .. N - 1 : Held'[k] = Held[k] /\ arr'[k] = Held[k]
      /\ sorterPc' # "move" BY <1>n, <1>e, <1>f, <1>h
<1>y. SortNumbersInv'
  <2> SUFFICES ASSUME ~ overtaken PROVE SortNumbersInv' BY <1>e DEF SortNumbersInv
  <2>0. Places' = Places /\ Readings' = Readings BY <1>e DEF Places, Readings
  <2>1. \A k \in Places : Held'[k] = Held[k] BY <1>n, <1>i DEF Places
  <2>2. PICK p \in Bijection(Places, Readings) : \A k \in Places : Held[k] = given[p[k]]
    BY <1>a DEF SortNumbersInv
  <2>3. \A k \in Places : Held'[k] = given[p[k]] BY <2>1, <2>2
  <2>q. QED BY <1>e, <2>0, <2>3 DEF SortNumbersInv
<1>z. SortOrderInv'
  <2> SUFFICES ASSUME ~ overtaken, NEW k \in 1 .. next PROVE arr'[k - 1] <= arr'[k]
    BY <1>n, <1>e, <1>i DEF SortOrderInv
  <2>1. k \in 0 .. N - 1 /\ k - 1 \in 0 .. N - 1 BY <1>n, <1>b
  <2>2. CASE k = j BY <1>n, <1>e, <1>h, <1>i, <2>1, <2>2
  <2>3. CASE k # j
    <3>1. Held[k - 1] <= Held[k] BY <1>a, <1>e, <2>3 DEF SortOrderInv
    <3>q. QED BY <1>i, <2>1, <3>1
  <2>q. QED BY <2>2, <2>3
<1>q. QED BY <1>w, <1>x, <1>y, <1>z DEF SortIInv

\* An array and a sequence with the same numbers have each of them as often.
LEMMA PairingCounts ==
  ASSUME NEW S, NEW T, NEW p \in Bijection(S, T), IsFiniteSet(S), NEW f, NEW s, NEW x,
         DOMAIN f = S, DOMAIN s = T, \A k \in S : f[k] = s[p[k]]
  PROVE  CountIn(x, f) = CountIn(x, s)
<1> DEFINE F == {k \in S : f[k] = x}
           G == {k \in T : s[k] = x}
           q == [k \in F |-> p[k]]
<1>p. /\ p \in [S -> T] /\ \A k, l \in S : p[k] = p[l] => k = l
      /\ \A t \in T : \E k \in S : p[k] = t
  BY DEF Bijection, Injection, Surjection, IsInjective
<1>1. q \in [F -> G] /\ \A k \in F : q[k] = p[k] BY <1>p
<1>2. \A k, l \in F : q[k] = q[l] => k = l BY <1>1, <1>p
<1>3. \A t \in G : \E k \in F : q[k] = t BY <1>1, <1>p
<1>4. IsFiniteSet(F) BY FS_Subset
<1>5. CountIn(x, f) = Cardinality(F) /\ CountIn(x, s) = Cardinality(G) BY DEF CountIn
<1> HIDE DEF F, G, q
<1>6. q \in Bijection(F, G)
  BY <1>1, <1>2, <1>3 DEF Bijection, Injection, Surjection, IsInjective
<1>7. ExistsBijection(F, G) BY <1>6 DEF ExistsBijection
<1>q. QED BY <1>4, <1>5, <1>7, FS_Bijection

\* 06mutex.c: the array is sorted, whatever is read, if the thread stays behind.
THEOREM NumbersAreSorted == SortSpec => []InputSortInv
<1>1. SortInit => SortIInv BY SortStart
<1>2. SortIInv /\ [SortNext]_sortVars => SortIInv'
  <2> SUFFICES ASSUME SortIInv, [SortNext]_sortVars PROVE SortIInv' OBVIOUS
  <2>1. CASE UNCHANGED sortVars
    <3>1. Held' = Held /\ Places' = Places /\ Readings' = Readings
      BY <2>1 DEF sortVars, Held, Places, Readings
    <3>2. SortNumbersInv' BY <2>1, <3>1 DEF sortVars, SortIInv, SortNumbersInv
    <3>3. SortOrderInv' BY <2>1, <3>1 DEF sortVars, SortIInv, SortOrderInv
    <3>q. QED
      BY <2>1, <3>2, <3>3 DEF sortVars, SortIInv, SortTypeOK, SortPlaceInv
  <2>2. CASE func BY <2>2, TakeKeeps, MoveKeeps, PutKeeps DEF func
  <2>q. QED BY <2>1, <2>2, ScanfKeeps, EntryLockKeeps, SortJoinKeeps DEF SortNext, SortStopped
<1>3. SortIInv => InputSortInv
  <2> SUFFICES ASSUME SortIInv PROVE InputSortInv OBVIOUS
  <2>a. SortTypeOK /\ SortPlaceInv /\ SortNumbersInv /\ SortOrderInv BY DEF SortIInv
  <2>1. ASSUME ~ overtaken, sorterPc = "lock" PROVE \A k \in 1 .. next - 1 : arr[k - 1] <= arr[k]
    BY <2>a, <2>1 DEF SortOrderInv
  <2>2. ASSUME ~ overtaken, entryPc = "done"
        PROVE  IsSorted /\ \A x \in 1 .. MaxNumber : CountIn(x, arr) = CountIn(x, given)
    <3>1. sorterPc = "done" /\ next = N /\ entry = N BY <2>a, <2>2 DEF SortPlaceInv
    <3>2. IsSorted BY <2>a, <2>2, <3>1 DEF SortOrderInv, IsSorted
    <3>3. PICK p \in Bijection(Places, Readings) : \A k \in Places : arr[k] = given[p[k]]
      BY <2>a, <2>2, <3>1 DEF SortNumbersInv, Held
    <3>4. DOMAIN arr = Places /\ DOMAIN given = Readings
      BY <2>a, <3>1, InputSortAssumption DEF SortPlaceInv, Places, Readings
    <3>5. IsFiniteSet(Places) BY <3>1, InputSortAssumption, FS_Interval DEF Places
    <3>q. QED BY <3>2, <3>3, <3>4, <3>5, PairingCounts
  <2>q. QED BY <2>a, <2>1, <2>2 DEF InputSortInv, SortsWhatWasRead
<1>q. QED BY <1>1, <1>2, <1>3, PTL DEF SortSpec

\* The five programs whose threads wait for an answer.
THEOREM AnswersAreGiven ==
  AstSpec /\ RemoteSpec /\ WaitSpec /\ TextSpec /\ SortSpec => []AnswersInv
<1>1. AstInv /\ RemoteInv /\ WaitOrSignalInv /\ TextInputInv /\ InputSortInv => AnswersInv
  BY DEF AnswersInv
<1>q. QED
  BY <1>1, MainHasTheAnswer, PlayerIsInOrder, OneWaitsOrSignals, EachLineIsCounted,
     NumbersAreSorted, PTL
-----------------------------------------------------------------------------

(***************************************************************************)
(* The programs that measure a time between threads.                       *)
(*                                                                         *)
(* perf_index.c: the workers that are ready are those that are counted.    *)
(***************************************************************************)
Counted == {w \in Worker : piPc[w] \in {"asleep", "execute", "ended"}}
PerfLabels == {"create", "lock", "await", "asleep", "start", "broadcast", "join", "returned",
               "unborn", "setup", "ready", "execute", "ended"}
WorkerLabels == {"unborn", "setup", "ready", "asleep", "execute", "ended"}
MainLabels   == {"create", "lock", "await", "asleep", "start", "broadcast", "join", "returned"}

PerfPlaceInv ==
  /\ piPc \in [PerfThread -> PerfLabels] /\ piPc["main"] \in MainLabels
  /\ \A w \in Worker : piPc[w] \in WorkerLabels
  /\ ready_thread_count_lock \in PerfThread \cup {NoThread} /\ piIdle \subseteq PerfThread
  /\ start_cvar \subseteq {w \in Worker : piPc[w] = "asleep"}
  /\ threads_ready_cvar \subseteq {"main"}
  /\ threads_ready_cvar # {} => piPc["main"] = "asleep"
  /\ ready_thread_count = Cardinality(Counted)

\* main() goes on when all are counted, and a worker when main() has, unless somebody was
\* woken up by nobody.
PerfStartInv ==
  /\ "main" \notin piIdle =>
       /\ piPc["main"] \in {"start", "broadcast", "join", "returned"} => Counted = Worker
       /\ piPc["main"] = "asleep" /\ threads_ready_cvar = {} => Counted = Worker
       /\ HasStarted => start_cvar = {}
  /\ \A w \in Worker \ piIdle :
       piPc[w] \in {"execute", "ended"} \/ (piPc[w] = "asleep" /\ w \notin start_cvar) => HasStarted

\* Each worker executes its share once; the timer is started with the first reading.
PerfTimeInv ==
  /\ executed \in [Worker -> 0 .. length]
  /\ \A w \in Worker : piPc[w] # "ended" => executed[w] = 0
  /\ clock \in [start : Time, end : Time] /\ timer \in [tv_sec : Time, tv_usec : 0 .. Million - 1]
  /\ piPc["main"] \in {"broadcast", "join"} => timer = TimeOfDay(clock.start)
  /\ TimeIsRight

PerfIInv == PerfPlaceInv /\ PerfStartInv /\ PerfTimeInv

\* Division with remainder, and that there is only one.
LEMMA DivisionIs ==
  ASSUME NEW m \in Nat \ {0}, NEW u \in Nat
  PROVE  /\ u \div m \in 0 .. u /\ u % m \in 0 .. m - 1
         /\ u = m * (u \div m) + (u % m)
<1>1. u \div m \in Nat /\ u \div m <= u /\ u % m \in 0 .. m - 1 BY SMTT(60)
<1>2. u % m = u - m * (u \div m) BY SMTT(60)
<1>3. m * (u \div m) \in Int BY <1>1
<1>q. QED BY <1>1, <1>2, <1>3

\* There is only one quotient and remainder.
LEMMA DivisionIsUnique ==
  ASSUME NEW m \in Nat \ {0}, NEW q \in Int, NEW r \in 0 .. m - 1
  PROVE  (m * q + r) \div m = q /\ (m * q + r) % m = r
<1>1. (m * q + r) \div m = q BY SMTT(60)
<1>2. (m * q + r) % m = r BY SMTT(60)
<1>q. QED BY <1>1, <1>2

\* The difference of two times of day, without and with a borrow.
LEMMA TimesAreLinear ==
  ASSUME NEW m \in Int, NEW p \in Int, NEW q \in Int, NEW a \in Int, NEW b \in Int,
         NEW e, NEW s, e = m * q + a, s = m * p + b
  PROVE  /\ e - s = m * (q - p) + (a - b)
         /\ e - s = m * ((q - p) - 1) + ((a - b) + m)
<1>1. m * q - m * p = m * (q - p) OBVIOUS
<1>2. m * ((q - p) - 1) = m * (q - p) - m OBVIOUS
<1>3. m * q \in Int /\ m * p \in Int /\ m * (q - p) \in Int /\ m * ((q - p) - 1) \in Int OBVIOUS
<1>4. e - s = (m * q - m * p) + (a - b) BY <1>3
<1>5. e - s = m * (q - p) + (a - b) BY <1>1, <1>4
<1>6. m * (q - p) + (a - b) = m * ((q - p) - 1) + ((a - b) + m) BY <1>2, <1>3
<1>q. QED BY <1>5, <1>6

\* A time of day, and the time from one to another.
LEMMA TimeOfDayIs ==
  ASSUME NEW us \in Time
  PROVE  /\ TimeOfDay(us) \in [tv_sec : Time, tv_usec : 0 .. Million - 1]
         /\ us = Million * TimeOfDay(us).tv_sec + TimeOfDay(us).tv_usec
<1>1. Million \in Nat \ {0} /\ MaxClock \in Nat /\ us \in Nat /\ us <= MaxClock
  BY PerfIndexAssumption DEF Time
<1>2. /\ us \div Million \in 0 .. us /\ us % Million \in 0 .. Million - 1
      /\ us = Million * (us \div Million) + (us % Million)
  BY <1>1, DivisionIs
<1>3. us \div Million \in Time BY <1>1, <1>2 DEF Time
<1>q. QED BY <1>2, <1>3 DEF TimeOfDay

\* What end_timer gives is the time of day of the difference.
LEMMA EndTimerIs ==
  ASSUME NEW s \in Time, NEW e \in Time, s <= e, timer = TimeOfDay(s)
  PROVE  e - s \in Time /\ end_timer(TimeOfDay(e)) = TimeOfDay(e - s)
<1>1. Million \in Nat \ {0} /\ MaxClock \in Nat /\ s \in Nat /\ e \in Nat /\ e - s \in Time
  BY PerfIndexAssumption DEF Time
<1> DEFINE q == TimeOfDay(e).tv_sec  - TimeOfDay(s).tv_sec
           r == TimeOfDay(e).tv_usec - TimeOfDay(s).tv_usec
<1>2. /\ TimeOfDay(e).tv_sec \in Int /\ TimeOfDay(e).tv_usec \in 0 .. Million - 1
      /\ TimeOfDay(s).tv_sec \in Int /\ TimeOfDay(s).tv_usec \in 0 .. Million - 1
      /\ e = Million * TimeOfDay(e).tv_sec + TimeOfDay(e).tv_usec
      /\ s = Million * TimeOfDay(s).tv_sec + TimeOfDay(s).tv_usec
  <2>1. Time \subseteq Int BY <1>1 DEF Time
  <2>q. QED BY <2>1, TimeOfDayIs
<1>5. e - s = Million * q + r /\ e - s = Million * (q - 1) + (r + Million)
  <2> DEFINE es == TimeOfDay(e).tv_sec
             eu == TimeOfDay(e).tv_usec
             ss == TimeOfDay(s).tv_sec
             su == TimeOfDay(s).tv_usec
  <2>1. /\ es \in Int /\ eu \in Int /\ ss \in Int /\ su \in Int /\ Million \in Int
        /\ e = Million * es + eu /\ s = Million * ss + su
    BY <1>1, <1>2
  <2> HIDE DEF es, eu, ss, su
  <2>2. /\ e - s = Million * (es - ss) + (eu - su)
        /\ e - s = Million * ((es - ss) - 1) + ((eu - su) + Million)
    BY <2>1, TimesAreLinear
  <2>q. QED BY <2>2 DEF es, eu, ss, su
<1>3. CASE NoBorrow(TimeOfDay(e))
  <2>1. q \in Int /\ r \in 0 .. Million - 1 BY <1>1, <1>2, <1>3 DEF NoBorrow
  <2>2. e - s = Million * q + r BY <1>5
  <2>3. end_timer(TimeOfDay(e)) = [tv_sec |-> q, tv_usec |-> r] BY <1>1, <1>2, <1>3
                                                                DEF end_timer
  <2> HIDE DEF q, r
  <2>4. (e - s) \div Million = q /\ (e - s) % Million = r BY <1>1, <2>1, <2>2, DivisionIsUnique
  <2>q. QED BY <1>1, <2>3, <2>4 DEF TimeOfDay
<1>4. CASE ~ NoBorrow(TimeOfDay(e))
  <2>1. q - 1 \in Int /\ r + Million \in 0 .. Million - 1 BY <1>1, <1>2, <1>4 DEF NoBorrow
  <2>2. e - s = Million * (q - 1) + (r + Million) BY <1>5
  <2>3. end_timer(TimeOfDay(e)) = [tv_sec |-> q - 1, tv_usec |-> r + Million]
    BY <1>1, <1>2, <1>4 DEF end_timer
  <2> HIDE DEF q, r
  <2>4. (e - s) \div Million = q - 1 /\ (e - s) % Million = r + Million
    BY <1>1, <2>1, <2>2, DivisionIsUnique
  <2>q. QED BY <1>1, <2>3, <2>4 DEF TimeOfDay
<1>q. QED BY <1>3, <1>4

\* What the workers are, and what a share is.
LEMMA PerfThreads ==
  /\ num_threads \in Nat \ {0} /\ "main" \notin Worker /\ PerfMain = "main"
  /\ "main" \in PerfThread /\ Worker \subseteq PerfThread /\ NoThread \notin PerfThread
  /\ PerfThread = Worker \cup {"main"} /\ IsFiniteSet(Worker)
<1>1. num_threads \in Nat BY PerfIndexAssumption, FS_CardinalityType DEF num_threads
<1>q. QED BY <1>1, PerfIndexAssumption DEF PerfThread, PerfMain, NoThread

\* A share is never more than the work.
LEMMA ShareIs ==
  ASSUME NEW w \in Worker
  PROVE  work_size(w) \in 0 .. length
<1>1. num_threads \in Nat \ {0} /\ length \in Nat /\ my_index[w] \in Nat
  BY PerfThreads, PerfIndexAssumption
<1>2. /\ length \div num_threads \in 0 .. length /\ length % num_threads \in 0 .. num_threads - 1
      /\ length = num_threads * (length \div num_threads) + (length % num_threads)
  BY <1>1, DivisionIs
<1> DEFINE q == length \div num_threads
           n == num_threads
<1>3. n * q >= q
  <2>1. q \in Nat /\ n \in Nat \ {0} BY <1>1, <1>2
  <2> HIDE DEF q, n
  <2>q. QED BY <2>1, SMTT(60)
<1>4. length % num_threads > my_index[w] => q + 1 <= length
  <2>1. n * q \in Nat /\ q \in Nat BY <1>1, <1>2
  <2>q. QED BY <1>1, <1>2, <1>3, <2>1
<1>q. QED BY <1>1, <1>2, <1>4 DEF work_size

\* All are counted when as many are counted as there are.
LEMMA CountedAll ==
  /\ IsFiniteSet(Counted) /\ Cardinality(Counted) \in 0 .. num_threads
  /\ Cardinality(Counted) = num_threads <=> Counted = Worker
<1>1. Counted \subseteq Worker BY DEF Counted
<1>2. IsFiniteSet(Worker) /\ num_threads \in Nat BY PerfThreads
<1>3. /\ IsFiniteSet(Counted) /\ Cardinality(Counted) <= Cardinality(Worker)
      /\ Cardinality(Counted) = Cardinality(Worker) => Counted = Worker
  BY <1>1, <1>2, FS_Subset
<1>4. Cardinality(Counted) \in Nat BY <1>3, FS_CardinalityType
<1>q. QED BY <1>2, <1>3, <1>4 DEF num_threads

\* The start of perf_index.c.
LEMMA PerfStart == PerfInit => PerfIInv
<1> SUFFICES ASSUME PerfInit PROVE PerfIInv OBVIOUS
<1>n. /\ "main" \notin Worker /\ PerfMain = "main" /\ "main" \in PerfThread
      /\ Worker \subseteq PerfThread
      /\ Million \in Nat \ {0} /\ MaxClock \in Nat /\ length \in Nat /\ num_threads \in Nat \ {0}
  BY PerfThreads, PerfIndexAssumption
<1>e. /\ ready_thread_count = 0 /\ ready_thread_count_lock = NoThread
      /\ start_cvar = {} /\ threads_ready_cvar = {} /\ piIdle = {}
      /\ piPc \in [PerfThread -> {"create", "unborn"}] /\ piPc["main"] = "create"
      /\ \A w \in Worker : piPc[w] = "unborn"
  BY <1>n DEF PerfInit
<1>t. /\ timer = [tv_sec |-> 0, tv_usec |-> 0] /\ clock = [start |-> 0, end |-> 0]
      /\ executed = [w \in Worker |-> 0]
  BY DEF PerfInit
<1>c. Cardinality(Counted) = 0
  <2>1. Counted = {} BY <1>e DEF Counted
  <2>q. QED BY <2>1, FS_EmptySet
<1>x. PerfPlaceInv BY <1>n, <1>e, <1>c DEF PerfPlaceInv, PerfLabels, WorkerLabels, MainLabels
<1>y. PerfStartInv BY <1>n, <1>e DEF PerfStartInv, HasStarted
<1>z. PerfTimeInv
  <2>1. 0 \in Time /\ 0 \in 0 .. Million - 1 /\ 0 \in 0 .. length BY <1>n DEF Time
  <2>2. TimeIsRight BY <1>n, <1>e DEF TimeIsRight
  <2>q. QED BY <1>e, <1>t, <2>1, <2>2 DEF PerfTimeInv
<1>q. QED BY <1>x, <1>y, <1>z DEF PerfIInv

\* The worker has the lock.
LEMMA EnterSetupKeeps ==
  ASSUME PerfIInv, NEW w \in Worker, EnterSetup(w)
  PROVE  PerfIInv'
<1>a. PerfPlaceInv /\ PerfStartInv /\ PerfTimeInv BY DEF PerfIInv
<1>n. /\ "main" \notin Worker /\ PerfMain = "main" /\ "main" \in PerfThread
      /\ Worker \subseteq PerfThread /\ NoThread \notin PerfThread
      /\ PerfThread = Worker \cup {"main"}
      /\ piPc \in [PerfThread -> PerfLabels]
  BY <1>a, PerfThreads DEF PerfPlaceInv
<1>e. /\ piPc[w] = "setup"
      /\ ready_thread_count_lock' = w
      /\ ready_thread_count' = ready_thread_count /\ start_cvar' = start_cvar
      /\ threads_ready_cvar' = threads_ready_cvar /\ timer' = timer /\ executed' = executed
      /\ clock' = clock /\ piIdle' = piIdle
  BY <1>n DEF EnterSetup, PerfGoto, sync, Lock
<1>p. /\ piPc' \in [PerfThread -> PerfLabels]
      /\ \A d \in PerfThread : piPc'[d] = IF d = w THEN "ready" ELSE piPc[d]
  BY <1>n DEF EnterSetup, PerfGoto, PerfLabels, Lock
<1>c. Counted' = Counted BY <1>n, <1>e, <1>p DEF Counted
<1>x. PerfPlaceInv' BY <1>a, <1>n, <1>e, <1>p, <1>c DEF PerfPlaceInv, WorkerLabels, MainLabels
<1>y. PerfStartInv' BY <1>a, <1>n, <1>e, <1>p, <1>c DEF PerfStartInv, PerfPlaceInv, HasStarted,
    Counted
<1>z. PerfTimeInv' BY <1>a, <1>n, <1>e, <1>p DEF PerfTimeInv, PerfPlaceInv, TimeIsRight
<1>q. QED BY <1>x, <1>y, <1>z DEF PerfIInv

\* The last worker to get ready makes all of them counted, and wakes main() if it sleeps.
LEMMA ReadyKeeps ==
  ASSUME PerfIInv, NEW w \in Worker, Ready(w)
  PROVE  PerfIInv'
<1>a. PerfPlaceInv /\ PerfStartInv /\ PerfTimeInv BY DEF PerfIInv
<1>n. /\ "main" \notin Worker /\ PerfMain = "main" /\ "main" \in PerfThread
      /\ Worker \subseteq PerfThread /\ NoThread \notin PerfThread
      /\ PerfThread = Worker \cup {"main"}
      /\ piPc \in [PerfThread -> PerfLabels]
  BY <1>a, PerfThreads DEF PerfPlaceInv
<1>e. /\ piPc[w] = "ready"
      /\ ready_thread_count' = ready_thread_count + 1
      /\ start_cvar' = start_cvar \cup {w} /\ ready_thread_count_lock' = NoThread
      /\ IF ready_thread_count + 1 = num_threads
           THEN \/ threads_ready_cvar = {} /\ threads_ready_cvar' = {}
                \/ \E t \in threads_ready_cvar : threads_ready_cvar' = threads_ready_cvar \ {t}
           ELSE threads_ready_cvar' = threads_ready_cvar
      /\ timer' = timer /\ executed' = executed /\ clock' = clock /\ piIdle' = piIdle
  BY <1>n DEF Ready, PerfGoto, sync, AllReady, CondSignal, WorkerSleep, CondWait
<1>p. /\ piPc' \in [PerfThread -> PerfLabels]
      /\ \A d \in PerfThread : piPc'[d] = IF d = w THEN "asleep" ELSE piPc[d]
  BY <1>n DEF Ready, PerfGoto, PerfLabels, AllReady, CondSignal, WorkerSleep, CondWait
<1>d. Counted' = Counted \cup {w} /\ w \notin Counted BY <1>n, <1>e, <1>p DEF Counted
<1>c. /\ ready_thread_count' = Cardinality(Counted')
      /\ ready_thread_count + 1 = num_threads <=> Counted' = Worker
  <2>1. IsFiniteSet(Counted) /\ ready_thread_count = Cardinality(Counted)
    BY <1>a, CountedAll DEF PerfPlaceInv
  <2>2. Cardinality(Counted') = ready_thread_count + 1 BY <1>d, <2>1, FS_AddElement
  <2>3. (Cardinality(Counted) = num_threads <=> Counted = Worker)' BY CountedAll, PTL
  <2>q. QED BY <1>e, <2>2, <2>3
<1>x. PerfPlaceInv' BY <1>a, <1>n, <1>e, <1>p, <1>c, <1>d DEF PerfPlaceInv, WorkerLabels,
    MainLabels
<1>y. PerfStartInv' BY <1>a, <1>n, <1>e, <1>p, <1>c, <1>d DEF PerfStartInv, PerfPlaceInv,
    HasStarted, Counted
<1>z. PerfTimeInv' BY <1>a, <1>n, <1>e, <1>p DEF PerfTimeInv, PerfPlaceInv, TimeIsRight
<1>q. QED BY <1>x, <1>y, <1>z DEF PerfIInv

\* Who is awake has been woken by the broadcast, or by nobody.
LEMMA WorkerWakeKeeps ==
  ASSUME PerfIInv, NEW w \in Worker, WorkerWake(w)
  PROVE  PerfIInv'
<1>a. PerfPlaceInv /\ PerfStartInv /\ PerfTimeInv BY DEF PerfIInv
<1>n. /\ "main" \notin Worker /\ PerfMain = "main" /\ "main" \in PerfThread
      /\ Worker \subseteq PerfThread /\ NoThread \notin PerfThread
      /\ PerfThread = Worker \cup {"main"}
      /\ piPc \in [PerfThread -> PerfLabels]
  BY <1>a, PerfThreads DEF PerfPlaceInv
<1>e. /\ piPc[w] = "asleep"
      /\ w \notin start_cvar
      /\ ready_thread_count' = ready_thread_count
      /\ ready_thread_count_lock' = ready_thread_count_lock /\ start_cvar' = start_cvar
      /\ threads_ready_cvar' = threads_ready_cvar /\ timer' = timer /\ executed' = executed
      /\ clock' = clock /\ piIdle' = piIdle
  BY <1>n DEF WorkerWake, PerfGoto, sync
<1>p. /\ piPc' \in [PerfThread -> PerfLabels]
      /\ \A d \in PerfThread : piPc'[d] = IF d = w THEN "execute" ELSE piPc[d]
  BY <1>n DEF WorkerWake, PerfGoto, PerfLabels
<1>c. Counted' = Counted BY <1>n, <1>e, <1>p DEF Counted
<1>x. PerfPlaceInv' BY <1>a, <1>n, <1>e, <1>p, <1>c DEF PerfPlaceInv, WorkerLabels, MainLabels
<1>y. PerfStartInv' BY <1>a, <1>n, <1>e, <1>p, <1>c DEF PerfStartInv, PerfPlaceInv, HasStarted,
    Counted
<1>z. PerfTimeInv' BY <1>a, <1>n, <1>e, <1>p DEF PerfTimeInv, PerfPlaceInv, TimeIsRight
<1>q. QED BY <1>x, <1>y, <1>z DEF PerfIInv

\* The worker executes its share.
LEMMA ExecuteKeeps ==
  ASSUME PerfIInv, NEW w \in Worker, Execute(w)
  PROVE  PerfIInv'
<1>a. PerfPlaceInv /\ PerfStartInv /\ PerfTimeInv BY DEF PerfIInv
<1>n. /\ "main" \notin Worker /\ PerfMain = "main" /\ "main" \in PerfThread
      /\ Worker \subseteq PerfThread /\ NoThread \notin PerfThread
      /\ PerfThread = Worker \cup {"main"}
      /\ piPc \in [PerfThread -> PerfLabels]
  BY <1>a, PerfThreads DEF PerfPlaceInv
<1>e. /\ piPc[w] = "execute"
      /\ executed' = [executed EXCEPT ![w] = executed[w] + work_size(w)]
      /\ ready_thread_count' = ready_thread_count
      /\ ready_thread_count_lock' = ready_thread_count_lock /\ start_cvar' = start_cvar
      /\ threads_ready_cvar' = threads_ready_cvar /\ timer' = timer /\ clock' = clock
      /\ piIdle' = piIdle
  BY <1>n DEF Execute, PerfGoto, sync
<1>p. /\ piPc' \in [PerfThread -> PerfLabels]
      /\ \A d \in PerfThread : piPc'[d] = IF d = w THEN "ended" ELSE piPc[d]
  BY <1>n DEF Execute, PerfGoto, PerfLabels
<1>c. Counted' = Counted BY <1>n, <1>e, <1>p DEF Counted
<1>x. PerfPlaceInv' BY <1>a, <1>n, <1>e, <1>p, <1>c DEF PerfPlaceInv, WorkerLabels, MainLabels
<1>y. PerfStartInv' BY <1>a, <1>n, <1>e, <1>p, <1>c DEF PerfStartInv, PerfPlaceInv, HasStarted,
    Counted
<1>z. PerfTimeInv'
  <2>1. executed \in [Worker -> 0 .. length] /\ executed[w] = 0 BY <1>a, <1>e DEF PerfTimeInv
  <2>2. executed[w] + work_size(w) = work_size(w) /\ work_size(w) \in 0 .. length
    BY <2>1, ShareIs
  <2>3. /\ executed' \in [Worker -> 0 .. length]
        /\ \A v \in Worker : v # w => executed'[v] = executed[v]
    BY <1>e, <2>1, <2>2
  <2>4. TimeIsRight' BY <1>a, <1>n, <1>e, <1>p DEF PerfTimeInv, TimeIsRight
  <2>q. QED BY <1>a, <1>n, <1>e, <1>p, <2>3, <2>4 DEF PerfTimeInv
<1>q. QED BY <1>x, <1>y, <1>z DEF PerfIInv

\* main() creates the next worker.
LEMMA PerfCreateKeeps ==
  ASSUME PerfIInv, PerfCreate
  PROVE  PerfIInv'
<1>a. PerfPlaceInv /\ PerfStartInv /\ PerfTimeInv BY DEF PerfIInv
<1>n. /\ "main" \notin Worker /\ PerfMain = "main" /\ "main" \in PerfThread
      /\ Worker \subseteq PerfThread /\ NoThread \notin PerfThread
      /\ PerfThread = Worker \cup {"main"}
      /\ piPc \in [PerfThread -> PerfLabels]
  BY <1>a, PerfThreads DEF PerfPlaceInv
<1>e. /\ piPc["main"] = "create"
      /\ \E w \in Worker : piPc[w] = "unborn"
      /\ ready_thread_count' = ready_thread_count
      /\ ready_thread_count_lock' = ready_thread_count_lock /\ start_cvar' = start_cvar
      /\ threads_ready_cvar' = threads_ready_cvar /\ timer' = timer /\ executed' = executed
      /\ clock' = clock /\ piIdle' = piIdle
  BY <1>n DEF PerfCreate, PerfGoto, sync
<1>p. PICK w \in Worker :
        /\ piPc[w] = "unborn" /\ piPc' \in [PerfThread -> PerfLabels]
        /\ piPc'[w] = "setup" /\ piPc'["main"] \in {"lock", "create"}
        /\ \A d \in Worker : d # w => piPc'[d] = piPc[d]
  BY <1>n DEF PerfCreate, PerfLabels
<1>c. Counted' = Counted BY <1>n, <1>e, <1>p DEF Counted
<1>x. PerfPlaceInv' BY <1>a, <1>n, <1>e, <1>p, <1>c DEF PerfPlaceInv, WorkerLabels, MainLabels
<1>y. PerfStartInv' BY <1>a, <1>n, <1>e, <1>p, <1>c DEF PerfStartInv, PerfPlaceInv, HasStarted,
    Counted
<1>z. PerfTimeInv' BY <1>a, <1>n, <1>e, <1>p DEF PerfTimeInv, PerfPlaceInv, TimeIsRight
<1>q. QED BY <1>x, <1>y, <1>z DEF PerfIInv

\* main() has the lock.
LEMMA MainLockKeeps ==
  ASSUME PerfIInv, MainLock
  PROVE  PerfIInv'
<1>a. PerfPlaceInv /\ PerfStartInv /\ PerfTimeInv BY DEF PerfIInv
<1>n. /\ "main" \notin Worker /\ PerfMain = "main" /\ "main" \in PerfThread
      /\ Worker \subseteq PerfThread /\ NoThread \notin PerfThread
      /\ PerfThread = Worker \cup {"main"}
      /\ piPc \in [PerfThread -> PerfLabels]
  BY <1>a, PerfThreads DEF PerfPlaceInv
<1>e. /\ piPc["main"] = "lock"
      /\ ready_thread_count_lock' = "main"
      /\ ready_thread_count' = ready_thread_count /\ start_cvar' = start_cvar
      /\ threads_ready_cvar' = threads_ready_cvar /\ timer' = timer /\ executed' = executed
      /\ clock' = clock /\ piIdle' = piIdle
  BY <1>n DEF MainLock, PerfGoto, sync, Lock
<1>p. /\ piPc' \in [PerfThread -> PerfLabels]
      /\ \A d \in PerfThread : piPc'[d] = IF d = "main" THEN "await" ELSE piPc[d]
  BY <1>n DEF MainLock, PerfGoto, PerfLabels, Lock
<1>c. Counted' = Counted BY <1>n, <1>e, <1>p DEF Counted
<1>x. PerfPlaceInv' BY <1>a, <1>n, <1>e, <1>p, <1>c DEF PerfPlaceInv, WorkerLabels, MainLabels
<1>y. PerfStartInv' BY <1>a, <1>n, <1>e, <1>p, <1>c DEF PerfStartInv, PerfPlaceInv, HasStarted,
    Counted
<1>z. PerfTimeInv' BY <1>a, <1>n, <1>e, <1>p DEF PerfTimeInv, PerfPlaceInv, TimeIsRight
<1>q. QED BY <1>x, <1>y, <1>z DEF PerfIInv

\* main() sleeps only before all are counted.
LEMMA AwaitKeeps ==
  ASSUME PerfIInv, Await
  PROVE  PerfIInv'
<1>a. PerfPlaceInv /\ PerfStartInv /\ PerfTimeInv BY DEF PerfIInv
<1>n. /\ "main" \notin Worker /\ PerfMain = "main" /\ "main" \in PerfThread
      /\ Worker \subseteq PerfThread /\ NoThread \notin PerfThread
      /\ PerfThread = Worker \cup {"main"}
      /\ piPc \in [PerfThread -> PerfLabels]
  BY <1>a, PerfThreads DEF PerfPlaceInv
<1>e. /\ piPc["main"] = "await"
      /\ ready_thread_count_lock' = NoThread
      /\ threads_ready_cvar' = IF ready_thread_count # num_threads
                                 THEN threads_ready_cvar \cup {"main"} ELSE threads_ready_cvar
      /\ ready_thread_count' = ready_thread_count /\ start_cvar' = start_cvar
      /\ timer' = timer /\ executed' = executed /\ clock' = clock /\ piIdle' = piIdle
  BY <1>n DEF Await, PerfGoto, sync, CondWait, Unlock
<1>p. /\ piPc' \in [PerfThread -> PerfLabels]
      /\ \A d \in PerfThread : piPc'[d] =
           IF d # "main" THEN piPc[d]
           ELSE IF ready_thread_count # num_threads THEN "asleep" ELSE "start"
  BY <1>n DEF Await, PerfGoto, PerfLabels, CondWait, Unlock
<1>c. Counted' = Counted BY <1>n, <1>e, <1>p DEF Counted
<1>d. ready_thread_count = num_threads <=> Counted = Worker BY <1>a, CountedAll DEF PerfPlaceInv
<1>x. PerfPlaceInv' BY <1>a, <1>n, <1>e, <1>p, <1>c, <1>d DEF PerfPlaceInv, WorkerLabels,
    MainLabels
<1>y. PerfStartInv' BY <1>a, <1>n, <1>e, <1>p, <1>c, <1>d DEF PerfStartInv, PerfPlaceInv,
    HasStarted, Counted
<1>z. PerfTimeInv' BY <1>a, <1>n, <1>e, <1>p DEF PerfTimeInv, PerfPlaceInv, TimeIsRight
<1>q. QED BY <1>x, <1>y, <1>z DEF PerfIInv

\* main() is woken when all are counted, or by nobody.
LEMMA MainWakeKeeps ==
  ASSUME PerfIInv, MainWake
  PROVE  PerfIInv'
<1>a. PerfPlaceInv /\ PerfStartInv /\ PerfTimeInv BY DEF PerfIInv
<1>n. /\ "main" \notin Worker /\ PerfMain = "main" /\ "main" \in PerfThread
      /\ Worker \subseteq PerfThread /\ NoThread \notin PerfThread
      /\ PerfThread = Worker \cup {"main"}
      /\ piPc \in [PerfThread -> PerfLabels]
  BY <1>a, PerfThreads DEF PerfPlaceInv
<1>e. /\ piPc["main"] = "asleep"
      /\ "main" \notin threads_ready_cvar
      /\ ready_thread_count' = ready_thread_count
      /\ ready_thread_count_lock' = ready_thread_count_lock /\ start_cvar' = start_cvar
      /\ threads_ready_cvar' = threads_ready_cvar /\ timer' = timer /\ executed' = executed
      /\ clock' = clock /\ piIdle' = piIdle
  BY <1>n DEF MainWake, PerfGoto, sync
<1>p. /\ piPc' \in [PerfThread -> PerfLabels]
      /\ \A d \in PerfThread : piPc'[d] = IF d = "main" THEN "start" ELSE piPc[d]
  BY <1>n DEF MainWake, PerfGoto, PerfLabels
<1>c. Counted' = Counted BY <1>n, <1>e, <1>p DEF Counted
<1>w. threads_ready_cvar' = {} /\ start_cvar' = start_cvar BY <1>a, <1>e DEF PerfPlaceInv
<1>x. PerfPlaceInv' BY <1>a, <1>n, <1>e, <1>p, <1>c, <1>w DEF PerfPlaceInv, WorkerLabels,
    MainLabels
<1>y. PerfStartInv' BY <1>a, <1>n, <1>e, <1>p, <1>c, <1>w DEF PerfStartInv, PerfPlaceInv,
    HasStarted, Counted
<1>z. PerfTimeInv' BY <1>a, <1>n, <1>e, <1>p DEF PerfTimeInv, PerfPlaceInv, TimeIsRight
<1>q. QED BY <1>x, <1>y, <1>z DEF PerfIInv

\* main() reads the clock for the first time.
LEMMA StartTimerKeeps ==
  ASSUME PerfIInv, StartTimer
  PROVE  PerfIInv'
<1>a. PerfPlaceInv /\ PerfStartInv /\ PerfTimeInv BY DEF PerfIInv
<1>n. /\ "main" \notin Worker /\ PerfMain = "main" /\ "main" \in PerfThread
      /\ Worker \subseteq PerfThread /\ NoThread \notin PerfThread
      /\ PerfThread = Worker \cup {"main"}
      /\ piPc \in [PerfThread -> PerfLabels]
  BY <1>a, PerfThreads DEF PerfPlaceInv
<1>e. /\ piPc["main"] = "start"
      /\ \E us \in Time : timer' = TimeOfDay(us) /\ clock' = [start |-> us, end |-> us]
      /\ ready_thread_count' = ready_thread_count
      /\ ready_thread_count_lock' = ready_thread_count_lock /\ start_cvar' = start_cvar
      /\ threads_ready_cvar' = threads_ready_cvar /\ executed' = executed
      /\ piIdle' = piIdle
  BY <1>n DEF StartTimer, PerfGoto, sync
<1>p. /\ piPc' \in [PerfThread -> PerfLabels]
      /\ \A d \in PerfThread : piPc'[d] = IF d = "main" THEN "broadcast" ELSE piPc[d]
  BY <1>n DEF StartTimer, PerfGoto, PerfLabels
<1>c. Counted' = Counted BY <1>n, <1>e, <1>p DEF Counted
<1>x. PerfPlaceInv' BY <1>a, <1>n, <1>e, <1>p, <1>c DEF PerfPlaceInv, WorkerLabels, MainLabels
<1>y. PerfStartInv' BY <1>a, <1>n, <1>e, <1>p, <1>c DEF PerfStartInv, PerfPlaceInv, HasStarted,
    Counted
<1>z. PerfTimeInv'
  <2>1. PICK us \in Time : timer' = TimeOfDay(us) /\ clock' = [start |-> us, end |-> us] BY <1>e
  <2>2. /\ timer' \in [tv_sec : Time, tv_usec : 0 .. Million - 1]
        /\ clock' \in [start : Time, end : Time] /\ timer' = TimeOfDay(clock'.start)
    BY <2>1, TimeOfDayIs
  <2>3. TimeIsRight' BY <1>n, <1>p DEF TimeIsRight
  <2>q. QED BY <1>a, <1>n, <1>e, <1>p, <2>2, <2>3 DEF PerfTimeInv, TimeOfDay
<1>q. QED BY <1>x, <1>y, <1>z DEF PerfIInv

\* Nobody sleeps after the broadcast.
LEMMA BroadcastKeeps ==
  ASSUME PerfIInv, Broadcast
  PROVE  PerfIInv'
<1>a. PerfPlaceInv /\ PerfStartInv /\ PerfTimeInv BY DEF PerfIInv
<1>n. /\ "main" \notin Worker /\ PerfMain = "main" /\ "main" \in PerfThread
      /\ Worker \subseteq PerfThread /\ NoThread \notin PerfThread
      /\ PerfThread = Worker \cup {"main"}
      /\ piPc \in [PerfThread -> PerfLabels]
  BY <1>a, PerfThreads DEF PerfPlaceInv
<1>e. /\ piPc["main"] = "broadcast"
      /\ start_cvar' = {}
      /\ ready_thread_count' = ready_thread_count
      /\ ready_thread_count_lock' = ready_thread_count_lock
      /\ threads_ready_cvar' = threads_ready_cvar /\ timer' = timer /\ executed' = executed
      /\ clock' = clock /\ piIdle' = piIdle
  BY <1>n DEF Broadcast, PerfGoto, sync, WakeWorkers, CondBroadcast
<1>p. /\ piPc' \in [PerfThread -> PerfLabels]
      /\ \A d \in PerfThread : piPc'[d] = IF d = "main" THEN "join" ELSE piPc[d]
  BY <1>n DEF Broadcast, PerfGoto, PerfLabels, WakeWorkers, CondBroadcast
<1>c. Counted' = Counted BY <1>n, <1>e, <1>p DEF Counted
<1>x. PerfPlaceInv' BY <1>a, <1>n, <1>e, <1>p, <1>c DEF PerfPlaceInv, WorkerLabels, MainLabels
<1>y. PerfStartInv' BY <1>a, <1>n, <1>e, <1>p, <1>c DEF PerfStartInv, PerfPlaceInv, HasStarted,
    Counted
<1>z. PerfTimeInv' BY <1>a, <1>n, <1>e, <1>p DEF PerfTimeInv, PerfPlaceInv, TimeIsRight
<1>q. QED BY <1>x, <1>y, <1>z DEF PerfIInv

\* main() reads the clock again, and the difference is right.
LEMMA PerfJoinKeeps ==
  ASSUME PerfIInv, PerfJoin
  PROVE  PerfIInv'
<1>a. PerfPlaceInv /\ PerfStartInv /\ PerfTimeInv BY DEF PerfIInv
<1>n. /\ "main" \notin Worker /\ PerfMain = "main" /\ "main" \in PerfThread
      /\ Worker \subseteq PerfThread /\ NoThread \notin PerfThread
      /\ PerfThread = Worker \cup {"main"}
      /\ piPc \in [PerfThread -> PerfLabels]
  BY <1>a, PerfThreads DEF PerfPlaceInv
<1>e. /\ piPc["main"] = "join"
      /\ \E us \in clock.start .. MaxClock :
           timer' = end_timer(TimeOfDay(us)) /\ clock' = [clock EXCEPT !.end = us]
      /\ ready_thread_count' = ready_thread_count
      /\ ready_thread_count_lock' = ready_thread_count_lock /\ start_cvar' = start_cvar
      /\ threads_ready_cvar' = threads_ready_cvar /\ executed' = executed
      /\ piIdle' = piIdle
  BY <1>n DEF PerfJoin, PerfGoto, sync
<1>p. /\ piPc' \in [PerfThread -> PerfLabels]
      /\ \A d \in PerfThread : piPc'[d] = IF d = "main" THEN "returned" ELSE piPc[d]
  BY <1>n DEF PerfJoin, PerfGoto, PerfLabels
<1>c. Counted' = Counted BY <1>n, <1>e, <1>p DEF Counted
<1>x. PerfPlaceInv' BY <1>a, <1>n, <1>e, <1>p, <1>c DEF PerfPlaceInv, WorkerLabels, MainLabels
<1>y. PerfStartInv' BY <1>a, <1>n, <1>e, <1>p, <1>c DEF PerfStartInv, PerfPlaceInv, HasStarted,
    Counted
<1>z. PerfTimeInv'
  <2>1. PICK us \in clock.start .. MaxClock :
          timer' = end_timer(TimeOfDay(us)) /\ clock' = [clock EXCEPT !.end = us]
    BY <1>e
  <2>2. /\ clock \in [start : Time, end : Time] /\ clock.start \in Time
        /\ timer = TimeOfDay(clock.start) /\ MaxClock \in Nat
    BY <1>a, <1>e, PerfIndexAssumption DEF PerfTimeInv
  <2>3. us \in Time /\ clock.start <= us BY <2>1, <2>2 DEF Time
  <2>4. us - clock.start \in Time /\ timer' = TimeOfDay(us - clock.start)
    BY <2>1, <2>2, <2>3, EndTimerIs
  <2>5. clock' \in [start : Time, end : Time] /\ clock'.end - clock'.start = us - clock.start
    BY <2>1, <2>2, <2>3
  <2>6. timer' \in [tv_sec : Time, tv_usec : 0 .. Million - 1] BY <2>4, TimeOfDayIs
  <2>7. TimeIsRight'
    <3>1. TimeOfDay(us - clock.start) = TimeOfDay(clock'.end - clock'.start) BY <2>5
    <3>q. QED BY <2>4, <3>1 DEF TimeIsRight, TimeOfDay
  <2>q. QED BY <1>a, <1>n, <1>e, <1>p, <2>5, <2>6, <2>7 DEF PerfTimeInv
<1>q. QED BY <1>x, <1>y, <1>z DEF PerfIInv

\* From now on who was woken up by nobody may be too early.
LEMMA PerfSpuriousKeeps ==
  ASSUME PerfIInv, PerfSpuriousWakeup
  PROVE  PerfIInv'
<1>a. PerfPlaceInv /\ PerfStartInv /\ PerfTimeInv BY DEF PerfIInv
<1>n. "main" \notin Worker /\ Worker \subseteq PerfThread /\ "main" \in PerfThread BY PerfThreads
<1>e. /\ start_cvar' \subseteq start_cvar /\ threads_ready_cvar' \subseteq threads_ready_cvar
      /\ piIdle' = piIdle \cup (start_cvar \ start_cvar')
                          \cup (threads_ready_cvar \ threads_ready_cvar')
  BY DEF PerfSpuriousWakeup, Spurious
<1>f. /\ piPc' = piPc /\ ready_thread_count' = ready_thread_count /\ timer' = timer
      /\ ready_thread_count_lock' = ready_thread_count_lock /\ executed' = executed
      /\ clock' = clock /\ Counted' = Counted
  BY DEF PerfSpuriousWakeup, Counted
<1>x. PerfPlaceInv' BY <1>a, <1>n, <1>e, <1>f DEF PerfPlaceInv
<1>y. PerfStartInv' BY <1>a, <1>n, <1>e, <1>f DEF PerfStartInv, PerfPlaceInv, HasStarted
<1>z. PerfTimeInv' BY <1>a, <1>f DEF PerfTimeInv, TimeIsRight, TimeOfDay
<1>q. QED BY <1>x, <1>y, <1>z DEF PerfIInv

\* perf_index.c: all of the work, and nothing else, is measured, but for wake-ups by nobody.
THEOREM WorkIsMeasured == PerfSpec => []PerfInv
<1>1. PerfInit => PerfIInv BY PerfStart
<1>2. PerfIInv /\ [PerfNext]_perfVars => PerfIInv'
  <2> SUFFICES ASSUME PerfIInv, [PerfNext]_perfVars PROVE PerfIInv' OBVIOUS
  <2>1. CASE UNCHANGED perfVars
    <3>1. /\ ready_thread_count' = ready_thread_count /\ start_cvar' = start_cvar /\ timer' = timer
          /\ ready_thread_count_lock' = ready_thread_count_lock /\ executed' = executed
          /\ threads_ready_cvar' = threads_ready_cvar /\ piPc' = piPc /\ clock' = clock
          /\ piIdle' = piIdle /\ Counted' = Counted
      BY <2>1 DEF perfVars, sync, Counted
    <3>2. PerfPlaceInv' /\ PerfStartInv' BY <3>1
                                         DEF PerfIInv, PerfPlaceInv, PerfStartInv, HasStarted
    <3>3. PerfTimeInv' BY <3>1 DEF PerfIInv, PerfTimeInv, TimeIsRight, TimeOfDay
    <3>q. QED BY <3>2, <3>3 DEF PerfIInv
  <2>2. CASE perfMain
    BY <2>2, PerfCreateKeeps, MainLockKeeps, AwaitKeeps, MainWakeKeeps, StartTimerKeeps,
       BroadcastKeeps, PerfJoinKeeps DEF perfMain
  <2>3. ASSUME NEW w \in Worker, thread_setup(w) PROVE PerfIInv'
    BY <2>3, EnterSetupKeeps, ReadyKeeps, WorkerWakeKeeps, ExecuteKeeps DEF thread_setup
  <2>q. QED BY <2>1, <2>2, <2>3, PerfSpuriousKeeps DEF PerfNext, PerfTerminated
<1>3. PerfIInv => PerfInv
  <2> SUFFICES ASSUME PerfIInv PROVE PerfInv OBVIOUS
  <2>a. PerfPlaceInv /\ PerfStartInv /\ PerfTimeInv /\ PerfMain = "main" BY PerfThreads
                                                                         DEF PerfIInv
  <2>1. PerfTypeOK
    <3>1. ready_thread_count \in 0 .. num_threads BY <2>a, CountedAll DEF PerfPlaceInv
    <3>q. QED BY <2>a, <3>1 DEF PerfTypeOK, PerfPlaceInv, PerfTimeInv, PerfLabels
  <2>2. NoWorkBeforeTheStart BY <2>a DEF NoWorkBeforeTheStart, PerfStartInv
  <2>3. NobodyMissesTheStart
    BY <2>a DEF NobodyMissesTheStart, PerfStartInv, HasStarted, Counted
  <2>q. QED BY <2>a, <2>1, <2>2, <2>3 DEF PerfInv, PerfTimeInv
<1>q. QED BY <1>1, <1>2, <1>3, PTL DEF PerfSpec

\* semaphore_mutex_release.c: main() and the keeper have gone through the barrier as often
\* as each other, here an even number of times, or, as below, an odd one.
MainIsEven ==
  \/ rtPc["main"] \in {"set_status", "loop", "first", "last", "acquire", "release"}
  \/ rtPc["main"] \in {"in_first", "in_last"} /\ "main" \in barr
  \/ rtPc["main"] = "in_second" /\ "main" \notin barr
KeeperIsEven ==
  \/ rtPc["keeper"] \in {"top", "first", "release", "left"}
  \/ rtPc["keeper"] = "in_first" /\ "keeper" \in barr
  \/ rtPc["keeper"] = "in_second" /\ "keeper" \notin barr
MainIsOdd ==
  \/ rtPc["main"] \in {"second", "join"}
  \/ rtPc["main"] \in {"in_first", "in_last"} /\ "main" \notin barr
  \/ rtPc["main"] = "in_second" /\ "main" \in barr
KeeperIsOdd ==
  \/ rtPc["keeper"] \in {"test", "acquire", "second", "ended"}
  \/ rtPc["keeper"] = "in_first" /\ "keeper" \notin barr
  \/ rtPc["keeper"] = "in_second" /\ "keeper" \in barr

ReleasePairInv ==
  /\ \/ MainIsEven /\ KeeperIsEven
     \/ MainIsOdd /\ KeeperIsOdd
     \/ rtPc["main"] = "create" /\ rtPc["keeper"] \in {"unborn", "ended"}
     \/ rtPc["main"] = "returned" /\ rtPc["keeper"] = "ended"
  /\ barr = {} \/ (barr = {"main"} /\ rtPc["main"] \in {"in_first", "in_second", "in_last"})
               \/ (barr = {"keeper"} /\ rtPc["keeper"] \in {"in_first", "in_second"})

\* status tells the keeper to end when main() is at the last barrier.
ReleaseStatusInv ==
  /\ rtPc["main"] \in {"last", "in_last", "join"} => status = -1
  /\ status = -1 => \/ rtPc["main"] \in {"last", "in_last", "join", "create", "returned"}
                    \/ rtPc["main"] = "set_status" /\ ~ Now.status_first
  /\ rtPc["main"] = "set_status" => rtI = 0 /\ ~ Now.status_first
  /\ rtPc["keeper"] = "left" =>
       \/ rtPc["main"] \in {"last", "in_last"}
       \/ rtPc["main"] \in {"set_status", "loop", "first", "in_first"}
          /\ rtI = 0 /\ ~ Now.status_first
  /\ rtPc["keeper"] = "ended" => rtPc["main"] \in {"in_last", "join", "create", "returned"}
  /\ rtPc["keeper"] \in {"acquire", "second"} =>
       rtPc["main"] \in {"in_first", "second", "in_second"}
  /\ rtPc["keeper"] = "in_second" /\ "keeper" \in barr =>
       rtPc["main"] \in {"in_first", "second", "in_second"}
  /\ rtPc["keeper"] \in {"in_second", "release"} => rtPc["main"] # "create"
  /\ rtPc["main"] \in {"first", "in_first", "second", "in_second", "acquire", "release"} =>
       rtI < Now.iterations

\* The device is with the one that has acquired it, and the other one is not used.
KeeperHolds == rtPc["keeper"] \in {"second", "in_second", "release"}
ReleaseDeviceInv ==
  /\ IF Now.device = "id"
       THEN rtMutex = NoThread /\ id = IF KeeperHolds \/ rtPc["main"] = "release" THEN 0 ELSE 1
       ELSE id = 1 /\ rtMutex = IF KeeperHolds THEN "keeper"
                                ELSE IF rtPc["main"] = "release" THEN "main" ELSE NoThread
  /\ ~ (KeeperHolds /\ rtPc["main"] = "release")

ReleaseIInv == ReleaseTypeOK /\ ReleasePairInv /\ ReleaseStatusInv /\ ReleaseDeviceInv

ReleaseLabels ==
  {"create", "set_status", "loop", "first", "in_first", "second", "in_second", "last", "in_last",
   "acquire", "release", "join", "returned", "unborn", "top", "test", "left", "ended"}

\* One, or one of each of two pairs.
LEMMA TwoOrFour ==
  ASSUME NEW P, NEW p \in P, NEW q \in P, NEW r \in P, NEW t \in P, NEW c \in BOOLEAN
  PROVE  /\ <<p>> \o (IF c THEN <<q>> ELSE <<>>) \o <<r>> \o (IF c THEN <<t>> ELSE <<>>) \in Seq(P)
         /\ Len(<<p>> \o (IF c THEN <<q>> ELSE <<>>) \o <<r>> \o (IF c THEN <<t>> ELSE <<>>))
              \in Nat \ {0}
<1> DEFINE Q == IF c THEN <<q>> ELSE <<>>
           T == IF c THEN <<t>> ELSE <<>>
<1>1. <<p>> \in Seq(P) /\ Len(<<p>>) = 1 OBVIOUS
<1>2. <<r>> \in Seq(P) /\ Len(<<r>>) = 1 OBVIOUS
<1>3. Q \in Seq(P)
  <2>1. CASE c BY <2>1
  <2>2. CASE ~ c BY <2>2
  <2>q. QED BY <2>1, <2>2
<1>4. T \in Seq(P)
  <2>1. CASE c BY <2>1
  <2>2. CASE ~ c BY <2>2
  <2>q. QED BY <2>1, <2>2
<1> HIDE DEF Q, T
<1>5. <<p>> \o Q \in Seq(P) /\ Len(<<p>> \o Q) = 1 + Len(Q) /\ Len(Q) \in Nat BY <1>1, <1>3
<1>6. <<p>> \o Q \o <<r>> \in Seq(P) /\ Len(<<p>> \o Q \o <<r>>) = 2 + Len(Q) BY <1>2, <1>5
<1>7. /\ <<p>> \o Q \o <<r>> \o T \in Seq(P)
      /\ Len(<<p>> \o Q \o <<r>> \o T) = 2 + Len(Q) + Len(T) /\ Len(T) \in Nat
  BY <1>4, <1>6
<1>8. Len(<<p>> \o Q \o <<r>> \o T) \in Nat \ {0} BY <1>5, <1>7
<1>q. QED BY <1>7, <1>8 DEF Q, T

\* What a phase is.
PhaseSet == [device : {"id", "mutex"}, iterations : 0 .. w_iterations, status_first : BOOLEAN]

\* There is a first phase, and what follows it is one too.
LEMMA PhasesAre == Len(Phases) \in Nat \ {0} /\ Phases \in Seq(PhaseSet)
<1>1. /\ w_iterations \in 0 .. w_iterations /\ w_iterations \div 10 \in 0 .. w_iterations
      /\ w_drop_cache \in BOOLEAN
  BY ReleaseAssumption
<1>2. /\ Phase("id", w_iterations, TRUE) \in PhaseSet
      /\ Phase("mutex", w_iterations, TRUE) \in PhaseSet
      /\ Phase("id", w_iterations \div 10, FALSE) \in PhaseSet
      /\ Phase("mutex", w_iterations \div 10, TRUE) \in PhaseSet
  BY <1>1 DEF Phase, PhaseSet
<1>q. QED BY ZenonT(60), <1>1, <1>2, TwoOrFour DEF Phases

\* The phase main() is in is one of them.
LEMMA NowIs ==
  ASSUME phase \in 1 .. Len(Phases)
  PROVE  /\ Now.device \in {"id", "mutex"} /\ Now.iterations \in 0 .. w_iterations
         /\ Now.status_first \in BOOLEAN
<1>1. Now \in PhaseSet BY PhasesAre DEF Now
<1>q. QED BY <1>1 DEF PhaseSet

\* The barrier for two.
LEMMA BarrierOfTwo ==
  ASSUME NEW t \in {"main", "keeper"}, NEW u \in {"main", "keeper"}, u # t,
         barr = {} \/ barr = {u}, BarrierArrive(barr, 2, t)
  PROVE  barr' = IF barr = {} THEN {t} ELSE {}
<1>1. Cardinality({t}) = 1 BY FS_Singleton
<1>2. Cardinality({u, t}) = 2
  <2>1. IsFiniteSet({u}) /\ Cardinality({u}) = 1 BY FS_Singleton
  <2>2. Cardinality({u} \cup {t}) = 2 BY <2>1, FS_AddElement
  <2>3. {u} \cup {t} = {u, t} OBVIOUS
  <2>q. QED BY <2>2, <2>3
<1>3. CASE barr = {}
  <2>1. barr \cup {t} = {t} BY <1>3
  <2>q. QED BY <1>1, <1>3, <2>1 DEF BarrierArrive
<1>4. CASE barr = {u}
  <2>1. barr \cup {t} = {u, t} BY <1>4
  <2>q. QED BY <1>2, <1>4, <2>1 DEF BarrierArrive
<1>q. QED BY <1>3, <1>4

\* The start of semaphore_mutex_release.c.
LEMMA ReleaseStart == ReleaseInit => ReleaseIInv
<1> SUFFICES ASSUME ReleaseInit PROVE ReleaseIInv OBVIOUS
<1>e. /\ phase = 1 /\ rtI = 0 /\ status = 1 /\ barr = {} /\ id = 1 /\ rtMutex = "none"
      /\ rtPc["main"] = "create" /\ rtPc["keeper"] = "unborn"
      /\ rtPc \in [ReleaseThread -> {"create", "unborn"}] /\ ReleaseThread = {"main", "keeper"}
  BY DEF ReleaseInit, ReleaseThread, ReleaseMain, Keeper, NoThread
<1>p. phase \in 1 .. Len(Phases) BY <1>e, PhasesAre
<1>n. Now.device \in {"id", "mutex"} BY <1>p, NowIs
<1>w. ReleaseTypeOK
  <2>1. /\ rtI \in 0 .. w_iterations /\ status \in {1, -1} /\ id \in 0 .. 1
    BY <1>e, ReleaseAssumption
  <2>2. rtPc \in [ReleaseThread -> ReleaseLabels] BY <1>e DEF ReleaseLabels
  <2>q. QED BY <1>e, <1>p, <2>1, <2>2 DEF ReleaseTypeOK, ReleaseLabels, NoThread
<1>x. ReleasePairInv BY <1>e DEF ReleasePairInv
<1>y. ReleaseStatusInv
  <2>1. status # -1 BY <1>e
  <2>q. QED BY <1>e, <2>1 DEF ReleaseStatusInv
<1>z. ReleaseDeviceInv BY <1>e, <1>n DEF ReleaseDeviceInv, KeeperHolds, NoThread
<1>q. QED BY <1>w, <1>x, <1>y, <1>z DEF ReleaseIInv

\* The keeper leaves if status is still the last one.
LEMMA TopKeeps ==
  ASSUME ReleaseIInv, Top
  PROVE  ReleaseIInv'
<1>a. ReleaseTypeOK /\ ReleasePairInv /\ ReleaseStatusInv /\ ReleaseDeviceInv
  BY DEF ReleaseIInv
<1>n. /\ rtPc \in [ReleaseThread -> ReleaseLabels] /\ ReleaseThread = {"main", "keeper"}
      /\ ReleaseMain = "main" /\ Keeper = "keeper" /\ NoThread = "none" /\ rtI \in Nat
      /\ phase \in 1 .. Len(Phases) /\ w_iterations \in Nat
  BY <1>a, ReleaseAssumption
  DEF ReleaseTypeOK, ReleaseThread, ReleaseMain, Keeper, NoThread, ReleaseLabels
<1>i. /\ Now.device \in {"id", "mutex"} /\ Now.iterations \in 0 .. w_iterations
      /\ Now.status_first \in BOOLEAN
  BY <1>n, NowIs
<1>e. /\ rtPc["keeper"] = "top"
      /\ rtPc'["keeper"] = (IF status = -1 THEN "left" ELSE "first") /\ rtPc'["main"] = rtPc["main"]
      /\ phase' = phase /\ rtI' = rtI /\ status' = status /\ barr' = barr /\ id' = id
      /\ rtMutex' = rtMutex
  BY <1>n DEF Top, ReleaseGoto
<1>p. rtPc' \in [ReleaseThread -> ReleaseLabels]
  BY <1>n DEF Top, ReleaseGoto, ReleaseLabels
<1>j. Now' = Now BY <1>e DEF Now
<1>w. ReleaseTypeOK' BY <1>a, <1>n, <1>i, <1>e, <1>p DEF ReleaseTypeOK, ReleaseLabels,
    ReleaseStatusInv, ReleaseDeviceInv, KeeperHolds
<1>x. ReleasePairInv' BY <1>a, <1>n, <1>e DEF ReleasePairInv, MainIsEven, MainIsOdd,
    KeeperIsEven, KeeperIsOdd, ReleaseStatusInv
<1>y. ReleaseStatusInv' BY <1>a, <1>n, <1>i, <1>e, <1>j DEF ReleaseStatusInv, ReleasePairInv,
    MainIsEven, MainIsOdd, KeeperIsEven, KeeperIsOdd
<1>z. ReleaseDeviceInv' BY <1>a, <1>n, <1>i, <1>e, <1>j DEF ReleaseDeviceInv, KeeperHolds,
    ReleasePairInv, MainIsEven, MainIsOdd, KeeperIsEven, KeeperIsOdd
<1>q. QED BY <1>w, <1>x, <1>y, <1>z DEF ReleaseIInv

\* It ends when main() is at the last barrier.
LEMMA KeeperTestKeeps ==
  ASSUME ReleaseIInv, KeeperTest
  PROVE  ReleaseIInv'
<1>a. ReleaseTypeOK /\ ReleasePairInv /\ ReleaseStatusInv /\ ReleaseDeviceInv
  BY DEF ReleaseIInv
<1>n. /\ rtPc \in [ReleaseThread -> ReleaseLabels] /\ ReleaseThread = {"main", "keeper"}
      /\ ReleaseMain = "main" /\ Keeper = "keeper" /\ NoThread = "none" /\ rtI \in Nat
      /\ phase \in 1 .. Len(Phases) /\ w_iterations \in Nat
  BY <1>a, ReleaseAssumption
  DEF ReleaseTypeOK, ReleaseThread, ReleaseMain, Keeper, NoThread, ReleaseLabels
<1>i. /\ Now.device \in {"id", "mutex"} /\ Now.iterations \in 0 .. w_iterations
      /\ Now.status_first \in BOOLEAN
  BY <1>n, NowIs
<1>e. /\ rtPc["keeper"] = "test"
      /\ rtPc'["keeper"] = (IF status = -1 THEN "ended" ELSE "acquire")
      /\ rtPc'["main"] = rtPc["main"]
      /\ phase' = phase /\ rtI' = rtI /\ status' = status /\ barr' = barr /\ id' = id
      /\ rtMutex' = rtMutex
  BY <1>n DEF KeeperTest, ReleaseGoto
<1>p. rtPc' \in [ReleaseThread -> ReleaseLabels]
  BY <1>n DEF KeeperTest, ReleaseGoto, ReleaseLabels
<1>j. Now' = Now BY <1>e DEF Now
<1>w. ReleaseTypeOK' BY <1>a, <1>n, <1>i, <1>e, <1>p DEF ReleaseTypeOK, ReleaseLabels,
    ReleaseStatusInv, ReleaseDeviceInv, KeeperHolds
<1>x. ReleasePairInv' BY <1>a, <1>n, <1>e DEF ReleasePairInv, MainIsEven, MainIsOdd,
    KeeperIsEven, KeeperIsOdd, ReleaseStatusInv
<1>y. ReleaseStatusInv' BY <1>a, <1>n, <1>i, <1>e, <1>j DEF ReleaseStatusInv, ReleasePairInv,
    MainIsEven, MainIsOdd, KeeperIsEven, KeeperIsOdd
<1>z. ReleaseDeviceInv' BY <1>a, <1>n, <1>i, <1>e, <1>j DEF ReleaseDeviceInv, KeeperHolds,
    ReleasePairInv, MainIsEven, MainIsOdd, KeeperIsEven, KeeperIsOdd
<1>q. QED BY <1>w, <1>x, <1>y, <1>z DEF ReleaseIInv

\* The keeper holds the device.
LEMMA KeeperAcquireKeeps ==
  ASSUME ReleaseIInv, KeeperAcquire
  PROVE  ReleaseIInv'
<1>a. ReleaseTypeOK /\ ReleasePairInv /\ ReleaseStatusInv /\ ReleaseDeviceInv
  BY DEF ReleaseIInv
<1>n. /\ rtPc \in [ReleaseThread -> ReleaseLabels] /\ ReleaseThread = {"main", "keeper"}
      /\ ReleaseMain = "main" /\ Keeper = "keeper" /\ NoThread = "none" /\ rtI \in Nat
      /\ phase \in 1 .. Len(Phases) /\ w_iterations \in Nat
  BY <1>a, ReleaseAssumption
  DEF ReleaseTypeOK, ReleaseThread, ReleaseMain, Keeper, NoThread, ReleaseLabels
<1>i. /\ Now.device \in {"id", "mutex"} /\ Now.iterations \in 0 .. w_iterations
      /\ Now.status_first \in BOOLEAN
  BY <1>n, NowIs
<1>e. /\ rtPc["keeper"] = "acquire"
      /\ IF Now.device = "id" THEN id > 0 /\ id' = id - 1 /\ rtMutex' = rtMutex
                              ELSE rtMutex = NoThread /\ rtMutex' = "keeper" /\ id' = id
      /\ rtPc'["keeper"] = "second" /\ rtPc'["main"] = rtPc["main"]
      /\ phase' = phase /\ rtI' = rtI /\ status' = status /\ barr' = barr
  BY <1>n DEF KeeperAcquire, ReleaseGoto, Acquire, SemWait, Lock
<1>p. rtPc' \in [ReleaseThread -> ReleaseLabels]
  BY <1>n DEF KeeperAcquire, ReleaseGoto, ReleaseLabels, Acquire, SemWait, Lock
<1>j. Now' = Now BY <1>e DEF Now
<1>w. ReleaseTypeOK' BY <1>a, <1>n, <1>i, <1>e, <1>p DEF ReleaseTypeOK, ReleaseLabels,
    ReleaseStatusInv, ReleaseDeviceInv, KeeperHolds
<1>x. ReleasePairInv' BY <1>a, <1>n, <1>e DEF ReleasePairInv, MainIsEven, MainIsOdd,
    KeeperIsEven, KeeperIsOdd, ReleaseStatusInv
<1>y. ReleaseStatusInv' BY <1>a, <1>n, <1>i, <1>e, <1>j DEF ReleaseStatusInv, ReleasePairInv,
    MainIsEven, MainIsOdd, KeeperIsEven, KeeperIsOdd
<1>z. ReleaseDeviceInv' BY <1>a, <1>n, <1>i, <1>e, <1>j DEF ReleaseDeviceInv, KeeperHolds,
    ReleasePairInv, MainIsEven, MainIsOdd, KeeperIsEven, KeeperIsOdd
<1>q. QED BY <1>w, <1>x, <1>y, <1>z DEF ReleaseIInv

\* The keeper gives the device back.
LEMMA KeeperReleaseKeeps ==
  ASSUME ReleaseIInv, KeeperRelease
  PROVE  ReleaseIInv'
<1>a. ReleaseTypeOK /\ ReleasePairInv /\ ReleaseStatusInv /\ ReleaseDeviceInv
  BY DEF ReleaseIInv
<1>n. /\ rtPc \in [ReleaseThread -> ReleaseLabels] /\ ReleaseThread = {"main", "keeper"}
      /\ ReleaseMain = "main" /\ Keeper = "keeper" /\ NoThread = "none" /\ rtI \in Nat
      /\ phase \in 1 .. Len(Phases) /\ w_iterations \in Nat
  BY <1>a, ReleaseAssumption
  DEF ReleaseTypeOK, ReleaseThread, ReleaseMain, Keeper, NoThread, ReleaseLabels
<1>i. /\ Now.device \in {"id", "mutex"} /\ Now.iterations \in 0 .. w_iterations
      /\ Now.status_first \in BOOLEAN
  BY <1>n, NowIs
<1>e. /\ rtPc["keeper"] = "release" /\ IF Now.device = "id" THEN id' = id + 1 /\ rtMutex' = rtMutex
                              ELSE rtMutex' = NoThread /\ id' = id
      /\ rtPc'["keeper"] = "top" /\ rtPc'["main"] = rtPc["main"]
      /\ phase' = phase /\ rtI' = rtI /\ status' = status /\ barr' = barr
  BY <1>n DEF KeeperRelease, ReleaseGoto, Release, SemRelease, SemPost, Unlock
<1>p. rtPc' \in [ReleaseThread -> ReleaseLabels]
  BY <1>n DEF KeeperRelease, ReleaseGoto, ReleaseLabels, Release, SemRelease, SemPost, Unlock
<1>j. Now' = Now BY <1>e DEF Now
<1>w. ReleaseTypeOK' BY <1>a, <1>n, <1>i, <1>e, <1>p DEF ReleaseTypeOK, ReleaseLabels,
    ReleaseStatusInv, ReleaseDeviceInv, KeeperHolds
<1>x. ReleasePairInv' BY <1>a, <1>n, <1>e DEF ReleasePairInv, MainIsEven, MainIsOdd,
    KeeperIsEven, KeeperIsOdd, ReleaseStatusInv
<1>y. ReleaseStatusInv' BY <1>a, <1>n, <1>i, <1>e, <1>j DEF ReleaseStatusInv, ReleasePairInv,
    MainIsEven, MainIsOdd, KeeperIsEven, KeeperIsOdd
<1>z. ReleaseDeviceInv' BY <1>a, <1>n, <1>i, <1>e, <1>j DEF ReleaseDeviceInv, KeeperHolds,
    ReleasePairInv, MainIsEven, MainIsOdd, KeeperIsEven, KeeperIsOdd
<1>q. QED BY <1>w, <1>x, <1>y, <1>z DEF ReleaseIInv

\* main() holds the device, which the keeper has given back.
LEMMA MainAcquireKeeps ==
  ASSUME ReleaseIInv, MainAcquire
  PROVE  ReleaseIInv'
<1>a. ReleaseTypeOK /\ ReleasePairInv /\ ReleaseStatusInv /\ ReleaseDeviceInv
  BY DEF ReleaseIInv
<1>n. /\ rtPc \in [ReleaseThread -> ReleaseLabels] /\ ReleaseThread = {"main", "keeper"}
      /\ ReleaseMain = "main" /\ Keeper = "keeper" /\ NoThread = "none" /\ rtI \in Nat
      /\ phase \in 1 .. Len(Phases) /\ w_iterations \in Nat
  BY <1>a, ReleaseAssumption
  DEF ReleaseTypeOK, ReleaseThread, ReleaseMain, Keeper, NoThread, ReleaseLabels
<1>i. /\ Now.device \in {"id", "mutex"} /\ Now.iterations \in 0 .. w_iterations
      /\ Now.status_first \in BOOLEAN
  BY <1>n, NowIs
<1>e. /\ rtPc["main"] = "acquire"
      /\ IF Now.device = "id" THEN id > 0 /\ id' = id - 1 /\ rtMutex' = rtMutex
                              ELSE rtMutex = NoThread /\ rtMutex' = "main" /\ id' = id
      /\ rtPc'["main"] = "release" /\ rtPc'["keeper"] = rtPc["keeper"]
      /\ phase' = phase /\ rtI' = rtI /\ status' = status /\ barr' = barr
  BY <1>n DEF MainAcquire, ReleaseGoto, Acquire, SemWait, Lock
<1>p. rtPc' \in [ReleaseThread -> ReleaseLabels]
  BY <1>n DEF MainAcquire, ReleaseGoto, ReleaseLabels, Acquire, SemWait, Lock
<1>j. Now' = Now BY <1>e DEF Now
<1>w. ReleaseTypeOK' BY <1>a, <1>n, <1>i, <1>e, <1>p DEF ReleaseTypeOK, ReleaseLabels,
    ReleaseStatusInv, ReleaseDeviceInv, KeeperHolds
<1>x. ReleasePairInv' BY <1>a, <1>n, <1>e DEF ReleasePairInv, MainIsEven, MainIsOdd,
    KeeperIsEven, KeeperIsOdd, ReleaseStatusInv
<1>y. ReleaseStatusInv' BY <1>a, <1>n, <1>i, <1>e, <1>j DEF ReleaseStatusInv, ReleasePairInv,
    MainIsEven, MainIsOdd, KeeperIsEven, KeeperIsOdd
<1>z. ReleaseDeviceInv' BY <1>a, <1>n, <1>i, <1>e, <1>j DEF ReleaseDeviceInv, KeeperHolds,
    ReleasePairInv, MainIsEven, MainIsOdd, KeeperIsEven, KeeperIsOdd
<1>q. QED BY <1>w, <1>x, <1>y, <1>z DEF ReleaseIInv

\* main() gives the device back, and the next iteration begins.
LEMMA MainReleaseKeeps ==
  ASSUME ReleaseIInv, MainRelease
  PROVE  ReleaseIInv'
<1>a. ReleaseTypeOK /\ ReleasePairInv /\ ReleaseStatusInv /\ ReleaseDeviceInv
  BY DEF ReleaseIInv
<1>n. /\ rtPc \in [ReleaseThread -> ReleaseLabels] /\ ReleaseThread = {"main", "keeper"}
      /\ ReleaseMain = "main" /\ Keeper = "keeper" /\ NoThread = "none" /\ rtI \in Nat
      /\ phase \in 1 .. Len(Phases) /\ w_iterations \in Nat
  BY <1>a, ReleaseAssumption
  DEF ReleaseTypeOK, ReleaseThread, ReleaseMain, Keeper, NoThread, ReleaseLabels
<1>i. /\ Now.device \in {"id", "mutex"} /\ Now.iterations \in 0 .. w_iterations
      /\ Now.status_first \in BOOLEAN
  BY <1>n, NowIs
<1>e. /\ rtPc["main"] = "release" /\ rtI' = rtI + 1
      /\ IF Now.device = "id" THEN id' = id + 1 /\ rtMutex' = rtMutex
                              ELSE rtMutex' = NoThread /\ id' = id
      /\ rtPc'["main"] = "loop" /\ rtPc'["keeper"] = rtPc["keeper"]
      /\ phase' = phase /\ status' = status /\ barr' = barr
  BY <1>n DEF MainRelease, ReleaseGoto, Release, SemRelease, SemPost, Unlock
<1>p. rtPc' \in [ReleaseThread -> ReleaseLabels]
  BY <1>n DEF MainRelease, ReleaseGoto, ReleaseLabels, Release, SemRelease, SemPost, Unlock
<1>j. Now' = Now BY <1>e DEF Now
<1>w. ReleaseTypeOK' BY <1>a, <1>n, <1>i, <1>e, <1>p DEF ReleaseTypeOK, ReleaseLabels,
    ReleaseStatusInv, ReleaseDeviceInv, KeeperHolds
<1>x. ReleasePairInv' BY <1>a, <1>n, <1>e DEF ReleasePairInv, MainIsEven, MainIsOdd,
    KeeperIsEven, KeeperIsOdd, ReleaseStatusInv
<1>y. ReleaseStatusInv' BY <1>a, <1>n, <1>i, <1>e, <1>j DEF ReleaseStatusInv, ReleasePairInv,
    MainIsEven, MainIsOdd, KeeperIsEven, KeeperIsOdd
<1>z. ReleaseDeviceInv' BY <1>a, <1>n, <1>i, <1>e, <1>j DEF ReleaseDeviceInv, KeeperHolds,
    ReleasePairInv, MainIsEven, MainIsOdd, KeeperIsEven, KeeperIsOdd
<1>q. QED BY <1>w, <1>x, <1>y, <1>z DEF ReleaseIInv

\* status is set to 1 after the keeper has begun.
LEMMA SetStatusKeeps ==
  ASSUME ReleaseIInv, SetStatus
  PROVE  ReleaseIInv'
<1>a. ReleaseTypeOK /\ ReleasePairInv /\ ReleaseStatusInv /\ ReleaseDeviceInv
  BY DEF ReleaseIInv
<1>n. /\ rtPc \in [ReleaseThread -> ReleaseLabels] /\ ReleaseThread = {"main", "keeper"}
      /\ ReleaseMain = "main" /\ Keeper = "keeper" /\ NoThread = "none" /\ rtI \in Nat
      /\ phase \in 1 .. Len(Phases) /\ w_iterations \in Nat
  BY <1>a, ReleaseAssumption
  DEF ReleaseTypeOK, ReleaseThread, ReleaseMain, Keeper, NoThread, ReleaseLabels
<1>i. /\ Now.device \in {"id", "mutex"} /\ Now.iterations \in 0 .. w_iterations
      /\ Now.status_first \in BOOLEAN
  BY <1>n, NowIs
<1>e. /\ rtPc["main"] = "set_status" /\ status' = 1
      /\ rtPc'["main"] = "loop" /\ rtPc'["keeper"] = rtPc["keeper"]
      /\ phase' = phase /\ rtI' = rtI /\ barr' = barr /\ id' = id /\ rtMutex' = rtMutex
  BY <1>n DEF SetStatus, ReleaseGoto
<1>p. rtPc' \in [ReleaseThread -> ReleaseLabels]
  BY <1>n DEF SetStatus, ReleaseGoto, ReleaseLabels
<1>j. Now' = Now BY <1>e DEF Now
<1>w. ReleaseTypeOK' BY <1>a, <1>n, <1>i, <1>e, <1>p DEF ReleaseTypeOK, ReleaseLabels,
    ReleaseStatusInv, ReleaseDeviceInv, KeeperHolds
<1>x. ReleasePairInv' BY <1>a, <1>n, <1>e DEF ReleasePairInv, MainIsEven, MainIsOdd,
    KeeperIsEven, KeeperIsOdd, ReleaseStatusInv
<1>y. ReleaseStatusInv' BY <1>a, <1>n, <1>i, <1>e, <1>j DEF ReleaseStatusInv, ReleasePairInv,
    MainIsEven, MainIsOdd, KeeperIsEven, KeeperIsOdd
<1>z. ReleaseDeviceInv' BY <1>a, <1>n, <1>i, <1>e, <1>j DEF ReleaseDeviceInv, KeeperHolds,
    ReleasePairInv, MainIsEven, MainIsOdd, KeeperIsEven, KeeperIsOdd
<1>q. QED BY <1>w, <1>x, <1>y, <1>z DEF ReleaseIInv

\* After the last iteration status tells the keeper to end.
LEMMA TimingLoopKeeps ==
  ASSUME ReleaseIInv, TimingLoop
  PROVE  ReleaseIInv'
<1>a. ReleaseTypeOK /\ ReleasePairInv /\ ReleaseStatusInv /\ ReleaseDeviceInv
  BY DEF ReleaseIInv
<1>n. /\ rtPc \in [ReleaseThread -> ReleaseLabels] /\ ReleaseThread = {"main", "keeper"}
      /\ ReleaseMain = "main" /\ Keeper = "keeper" /\ NoThread = "none" /\ rtI \in Nat
      /\ phase \in 1 .. Len(Phases) /\ w_iterations \in Nat
  BY <1>a, ReleaseAssumption
  DEF ReleaseTypeOK, ReleaseThread, ReleaseMain, Keeper, NoThread, ReleaseLabels
<1>i. /\ Now.device \in {"id", "mutex"} /\ Now.iterations \in 0 .. w_iterations
      /\ Now.status_first \in BOOLEAN
  BY <1>n, NowIs
<1>e. /\ rtPc["main"] = "loop" /\ status' = (IF rtI < Now.iterations THEN status ELSE -1)
      /\ rtPc'["main"] = (IF rtI < Now.iterations THEN "first" ELSE "last")
      /\ rtPc'["keeper"] = rtPc["keeper"]
      /\ phase' = phase /\ rtI' = rtI /\ barr' = barr /\ id' = id /\ rtMutex' = rtMutex
  BY <1>n DEF TimingLoop, ReleaseGoto
<1>p. rtPc' \in [ReleaseThread -> ReleaseLabels]
  BY <1>n DEF TimingLoop, ReleaseGoto, ReleaseLabels
<1>j. Now' = Now BY <1>e DEF Now
<1>w. ReleaseTypeOK' BY <1>a, <1>n, <1>i, <1>e, <1>p DEF ReleaseTypeOK, ReleaseLabels,
    ReleaseStatusInv, ReleaseDeviceInv, KeeperHolds
<1>x. ReleasePairInv' BY <1>a, <1>n, <1>e DEF ReleasePairInv, MainIsEven, MainIsOdd,
    KeeperIsEven, KeeperIsOdd, ReleaseStatusInv
<1>y. ReleaseStatusInv' BY <1>a, <1>n, <1>i, <1>e, <1>j DEF ReleaseStatusInv, ReleasePairInv,
    MainIsEven, MainIsOdd, KeeperIsEven, KeeperIsOdd
<1>z. ReleaseDeviceInv' BY <1>a, <1>n, <1>i, <1>e, <1>j DEF ReleaseDeviceInv, KeeperHolds,
    ReleasePairInv, MainIsEven, MainIsOdd, KeeperIsEven, KeeperIsOdd
<1>q. QED BY <1>w, <1>x, <1>y, <1>z DEF ReleaseIInv

\* A new keeper begins, with the device as it was.
LEMMA ReleaseCreateKeeps ==
  ASSUME ReleaseIInv, ReleaseCreate
  PROVE  ReleaseIInv'
<1>a. ReleaseTypeOK /\ ReleasePairInv /\ ReleaseStatusInv /\ ReleaseDeviceInv
  BY DEF ReleaseIInv
<1>n. /\ rtPc \in [ReleaseThread -> ReleaseLabels] /\ ReleaseThread = {"main", "keeper"}
      /\ ReleaseMain = "main" /\ Keeper = "keeper" /\ NoThread = "none" /\ rtI \in Nat
      /\ phase \in 1 .. Len(Phases) /\ w_iterations \in Nat
  BY <1>a, ReleaseAssumption
  DEF ReleaseTypeOK, ReleaseThread, ReleaseMain, Keeper, NoThread, ReleaseLabels
<1>i. /\ Now.device \in {"id", "mutex"} /\ Now.iterations \in 0 .. w_iterations
      /\ Now.status_first \in BOOLEAN
  BY <1>n, NowIs
<1>e. /\ rtPc["main"] = "create" /\ rtI' = 0 /\ status' = (IF Now.status_first THEN 1 ELSE status)
      /\ rtPc'["main"] = (IF Now.status_first THEN "loop" ELSE "set_status")
      /\ rtPc'["keeper"] = "top"
      /\ phase' = phase /\ barr' = barr /\ id' = id /\ rtMutex' = rtMutex
  BY <1>n DEF ReleaseCreate, ReleaseGoto
<1>p. rtPc' \in [ReleaseThread -> ReleaseLabels]
  BY <1>n DEF ReleaseCreate, ReleaseGoto, ReleaseLabels
<1>j. Now' = Now BY <1>e DEF Now
<1>w. ReleaseTypeOK' BY <1>a, <1>n, <1>i, <1>e, <1>p DEF ReleaseTypeOK, ReleaseLabels,
    ReleaseStatusInv, ReleaseDeviceInv, KeeperHolds
<1>x. ReleasePairInv' BY <1>a, <1>n, <1>e DEF ReleasePairInv, MainIsEven, MainIsOdd,
    KeeperIsEven, KeeperIsOdd, ReleaseStatusInv
<1>y. ReleaseStatusInv' BY <1>a, <1>n, <1>i, <1>e, <1>j DEF ReleaseStatusInv, ReleasePairInv,
    MainIsEven, MainIsOdd, KeeperIsEven, KeeperIsOdd
<1>z. ReleaseDeviceInv' BY <1>a, <1>n, <1>i, <1>e, <1>j DEF ReleaseDeviceInv, KeeperHolds,
    ReleasePairInv, MainIsEven, MainIsOdd, KeeperIsEven, KeeperIsOdd
<1>q. QED BY <1>w, <1>x, <1>y, <1>z DEF ReleaseIInv

\* A keeper that has ended leaves the next phase as it should be.
LEMMA ReleaseJoinKeeps ==
  ASSUME ReleaseIInv, ReleaseJoin
  PROVE  ReleaseIInv'
<1>a. ReleaseTypeOK /\ ReleasePairInv /\ ReleaseStatusInv /\ ReleaseDeviceInv
  BY DEF ReleaseIInv
<1>n. /\ rtPc \in [ReleaseThread -> ReleaseLabels] /\ ReleaseThread = {"main", "keeper"}
      /\ ReleaseMain = "main" /\ Keeper = "keeper" /\ NoThread = "none" /\ rtI \in Nat
      /\ phase \in 1 .. Len(Phases) /\ w_iterations \in Nat
  BY <1>a, ReleaseAssumption
  DEF ReleaseTypeOK, ReleaseThread, ReleaseMain, Keeper, NoThread, ReleaseLabels
<1>i. /\ Now.device \in {"id", "mutex"} /\ Now.iterations \in 0 .. w_iterations
      /\ Now.status_first \in BOOLEAN
  BY <1>n, NowIs
<1>e. /\ rtPc["main"] = "join" /\ rtPc["keeper"] \in {"ended", "left"}
      /\ phase' \in 1 .. Len(Phases)
      /\ (phase' = phase \/ rtPc'["main"] = "create")
      /\ rtPc'["main"] \in {"create", "returned"} /\ rtPc'["keeper"] = rtPc["keeper"]
      /\ rtI' = rtI /\ status' = status /\ barr' = barr /\ id' = id /\ rtMutex' = rtMutex
  BY <1>n, PhasesAre DEF ReleaseJoin, ReleaseGoto
<1>p. rtPc' \in [ReleaseThread -> ReleaseLabels]
  BY <1>n DEF ReleaseJoin, ReleaseGoto, ReleaseLabels
<1>j. /\ Now'.device \in {"id", "mutex"} /\ Now'.iterations \in 0 .. w_iterations
      /\ Now'.status_first \in BOOLEAN
  <2>1. Now' \in PhaseSet BY <1>e, PhasesAre DEF Now
  <2>q. QED BY <2>1 DEF PhaseSet
<1>w. ReleaseTypeOK' BY <1>a, <1>n, <1>i, <1>e, <1>p DEF ReleaseTypeOK, ReleaseLabels,
    ReleaseStatusInv, ReleaseDeviceInv, KeeperHolds
<1>x. ReleasePairInv' BY <1>a, <1>n, <1>e DEF ReleasePairInv, MainIsEven, MainIsOdd,
    KeeperIsEven, KeeperIsOdd, ReleaseStatusInv
<1>y. ReleaseStatusInv' BY <1>a, <1>n, <1>i, <1>e, <1>j DEF ReleaseStatusInv, ReleasePairInv,
    MainIsEven, MainIsOdd, KeeperIsEven, KeeperIsOdd
<1>z. ReleaseDeviceInv' BY <1>a, <1>n, <1>i, <1>e, <1>j DEF ReleaseDeviceInv, KeeperHolds,
    ReleasePairInv, MainIsEven, MainIsOdd, KeeperIsEven, KeeperIsOdd
<1>q. QED BY <1>w, <1>x, <1>y, <1>z DEF ReleaseIInv

\* The keeper comes to the first barrier of an iteration,
LEMMA KeeperFirstKeeps ==
  ASSUME ReleaseIInv, ArriveAtBarrier(Keeper, "first", "in_first")
  PROVE  ReleaseIInv'
<1>a. ReleaseTypeOK /\ ReleasePairInv /\ ReleaseStatusInv /\ ReleaseDeviceInv
  BY DEF ReleaseIInv
<1>n. /\ rtPc \in [ReleaseThread -> ReleaseLabels] /\ ReleaseThread = {"main", "keeper"}
      /\ ReleaseMain = "main" /\ Keeper = "keeper" /\ NoThread = "none" /\ rtI \in Nat
      /\ phase \in 1 .. Len(Phases) /\ w_iterations \in Nat
  BY <1>a, ReleaseAssumption
  DEF ReleaseTypeOK, ReleaseThread, ReleaseMain, Keeper, NoThread, ReleaseLabels
<1>i. /\ Now.device \in {"id", "mutex"} /\ Now.iterations \in 0 .. w_iterations
      /\ Now.status_first \in BOOLEAN
  BY <1>n, NowIs
<1>e. /\ rtPc["keeper"] = "first"
      /\ rtPc'["keeper"] = "in_first" /\ rtPc'["main"] = rtPc["main"]
      /\ phase' = phase /\ rtI' = rtI /\ status' = status /\ id' = id /\ rtMutex' = rtMutex
  BY <1>n DEF ArriveAtBarrier, ReleaseGoto
<1>p. rtPc' \in [ReleaseThread -> ReleaseLabels]
  BY <1>n DEF ArriveAtBarrier, ReleaseGoto, ReleaseLabels
<1>b. barr' = IF barr = {} THEN {"keeper"} ELSE {}
  <2>1. barr = {} \/ barr = {"main"} BY <1>a, <1>n, <1>e DEF ReleasePairInv
  <2>q. QED BY <1>n, <2>1, BarrierOfTwo DEF ArriveAtBarrier
<1>j. Now' = Now BY <1>e DEF Now
<1>w. ReleaseTypeOK' BY <1>a, <1>n, <1>i, <1>e, <1>p, <1>b DEF ReleaseTypeOK, ReleaseLabels,
    ReleaseStatusInv, ReleaseDeviceInv, KeeperHolds
<1>x. ReleasePairInv' BY <1>a, <1>n, <1>e, <1>b DEF ReleasePairInv, MainIsEven, MainIsOdd,
    KeeperIsEven, KeeperIsOdd, ReleaseStatusInv
<1>y. ReleaseStatusInv' BY <1>a, <1>n, <1>i, <1>e, <1>b, <1>j
                        DEF ReleaseStatusInv, ReleasePairInv,
    MainIsEven, MainIsOdd, KeeperIsEven, KeeperIsOdd
<1>z. ReleaseDeviceInv' BY <1>a, <1>n, <1>i, <1>e, <1>b, <1>j DEF ReleaseDeviceInv, KeeperHolds,
    ReleasePairInv, MainIsEven, MainIsOdd, KeeperIsEven, KeeperIsOdd
<1>q. QED BY <1>w, <1>x, <1>y, <1>z DEF ReleaseIInv

\* and leaves it.
LEMMA KeeperInFirstKeeps ==
  ASSUME ReleaseIInv, LeaveBarrier(Keeper, "in_first", "test")
  PROVE  ReleaseIInv'
<1>a. ReleaseTypeOK /\ ReleasePairInv /\ ReleaseStatusInv /\ ReleaseDeviceInv
  BY DEF ReleaseIInv
<1>n. /\ rtPc \in [ReleaseThread -> ReleaseLabels] /\ ReleaseThread = {"main", "keeper"}
      /\ ReleaseMain = "main" /\ Keeper = "keeper" /\ NoThread = "none" /\ rtI \in Nat
      /\ phase \in 1 .. Len(Phases) /\ w_iterations \in Nat
  BY <1>a, ReleaseAssumption
  DEF ReleaseTypeOK, ReleaseThread, ReleaseMain, Keeper, NoThread, ReleaseLabels
<1>i. /\ Now.device \in {"id", "mutex"} /\ Now.iterations \in 0 .. w_iterations
      /\ Now.status_first \in BOOLEAN
  BY <1>n, NowIs
<1>e. /\ rtPc["keeper"] = "in_first" /\ "keeper" \notin barr
      /\ rtPc'["keeper"] = "test" /\ rtPc'["main"] = rtPc["main"]
      /\ phase' = phase /\ rtI' = rtI /\ status' = status /\ barr' = barr /\ id' = id
      /\ rtMutex' = rtMutex
  BY <1>n DEF LeaveBarrier, ReleaseGoto
<1>p. rtPc' \in [ReleaseThread -> ReleaseLabels]
  BY <1>n DEF LeaveBarrier, ReleaseGoto, ReleaseLabels
<1>j. Now' = Now BY <1>e DEF Now
<1>w. ReleaseTypeOK' BY <1>a, <1>n, <1>i, <1>e, <1>p DEF ReleaseTypeOK, ReleaseLabels,
    ReleaseStatusInv, ReleaseDeviceInv, KeeperHolds
<1>x. ReleasePairInv' BY <1>a, <1>n, <1>e DEF ReleasePairInv, MainIsEven, MainIsOdd,
    KeeperIsEven, KeeperIsOdd, ReleaseStatusInv
<1>y. ReleaseStatusInv' BY <1>a, <1>n, <1>i, <1>e, <1>j DEF ReleaseStatusInv, ReleasePairInv,
    MainIsEven, MainIsOdd, KeeperIsEven, KeeperIsOdd
<1>z. ReleaseDeviceInv' BY <1>a, <1>n, <1>i, <1>e, <1>j DEF ReleaseDeviceInv, KeeperHolds,
    ReleasePairInv, MainIsEven, MainIsOdd, KeeperIsEven, KeeperIsOdd
<1>q. QED BY <1>w, <1>x, <1>y, <1>z DEF ReleaseIInv

\* It comes to the second barrier,
LEMMA KeeperSecondKeeps ==
  ASSUME ReleaseIInv, ArriveAtBarrier(Keeper, "second", "in_second")
  PROVE  ReleaseIInv'
<1>a. ReleaseTypeOK /\ ReleasePairInv /\ ReleaseStatusInv /\ ReleaseDeviceInv
  BY DEF ReleaseIInv
<1>n. /\ rtPc \in [ReleaseThread -> ReleaseLabels] /\ ReleaseThread = {"main", "keeper"}
      /\ ReleaseMain = "main" /\ Keeper = "keeper" /\ NoThread = "none" /\ rtI \in Nat
      /\ phase \in 1 .. Len(Phases) /\ w_iterations \in Nat
  BY <1>a, ReleaseAssumption
  DEF ReleaseTypeOK, ReleaseThread, ReleaseMain, Keeper, NoThread, ReleaseLabels
<1>i. /\ Now.device \in {"id", "mutex"} /\ Now.iterations \in 0 .. w_iterations
      /\ Now.status_first \in BOOLEAN
  BY <1>n, NowIs
<1>e. /\ rtPc["keeper"] = "second"
      /\ rtPc'["keeper"] = "in_second" /\ rtPc'["main"] = rtPc["main"]
      /\ phase' = phase /\ rtI' = rtI /\ status' = status /\ id' = id /\ rtMutex' = rtMutex
  BY <1>n DEF ArriveAtBarrier, ReleaseGoto
<1>p. rtPc' \in [ReleaseThread -> ReleaseLabels]
  BY <1>n DEF ArriveAtBarrier, ReleaseGoto, ReleaseLabels
<1>b. barr' = IF barr = {} THEN {"keeper"} ELSE {}
  <2>1. barr = {} \/ barr = {"main"} BY <1>a, <1>n, <1>e DEF ReleasePairInv
  <2>q. QED BY <1>n, <2>1, BarrierOfTwo DEF ArriveAtBarrier
<1>j. Now' = Now BY <1>e DEF Now
<1>w. ReleaseTypeOK' BY <1>a, <1>n, <1>i, <1>e, <1>p, <1>b DEF ReleaseTypeOK, ReleaseLabels,
    ReleaseStatusInv, ReleaseDeviceInv, KeeperHolds
<1>x. ReleasePairInv' BY <1>a, <1>n, <1>e, <1>b DEF ReleasePairInv, MainIsEven, MainIsOdd,
    KeeperIsEven, KeeperIsOdd, ReleaseStatusInv
<1>y. ReleaseStatusInv' BY <1>a, <1>n, <1>i, <1>e, <1>b, <1>j
                        DEF ReleaseStatusInv, ReleasePairInv,
    MainIsEven, MainIsOdd, KeeperIsEven, KeeperIsOdd
<1>z. ReleaseDeviceInv' BY <1>a, <1>n, <1>i, <1>e, <1>b, <1>j DEF ReleaseDeviceInv, KeeperHolds,
    ReleasePairInv, MainIsEven, MainIsOdd, KeeperIsEven, KeeperIsOdd
<1>q. QED BY <1>w, <1>x, <1>y, <1>z DEF ReleaseIInv

\* and leaves it.
LEMMA KeeperInSecondKeeps ==
  ASSUME ReleaseIInv, LeaveBarrier(Keeper, "in_second", "release")
  PROVE  ReleaseIInv'
<1>a. ReleaseTypeOK /\ ReleasePairInv /\ ReleaseStatusInv /\ ReleaseDeviceInv
  BY DEF ReleaseIInv
<1>n. /\ rtPc \in [ReleaseThread -> ReleaseLabels] /\ ReleaseThread = {"main", "keeper"}
      /\ ReleaseMain = "main" /\ Keeper = "keeper" /\ NoThread = "none" /\ rtI \in Nat
      /\ phase \in 1 .. Len(Phases) /\ w_iterations \in Nat
  BY <1>a, ReleaseAssumption
  DEF ReleaseTypeOK, ReleaseThread, ReleaseMain, Keeper, NoThread, ReleaseLabels
<1>i. /\ Now.device \in {"id", "mutex"} /\ Now.iterations \in 0 .. w_iterations
      /\ Now.status_first \in BOOLEAN
  BY <1>n, NowIs
<1>e. /\ rtPc["keeper"] = "in_second" /\ "keeper" \notin barr
      /\ rtPc'["keeper"] = "release" /\ rtPc'["main"] = rtPc["main"]
      /\ phase' = phase /\ rtI' = rtI /\ status' = status /\ barr' = barr /\ id' = id
      /\ rtMutex' = rtMutex
  BY <1>n DEF LeaveBarrier, ReleaseGoto
<1>p. rtPc' \in [ReleaseThread -> ReleaseLabels]
  BY <1>n DEF LeaveBarrier, ReleaseGoto, ReleaseLabels
<1>j. Now' = Now BY <1>e DEF Now
<1>w. ReleaseTypeOK' BY <1>a, <1>n, <1>i, <1>e, <1>p DEF ReleaseTypeOK, ReleaseLabels,
    ReleaseStatusInv, ReleaseDeviceInv, KeeperHolds
<1>x. ReleasePairInv' BY <1>a, <1>n, <1>e DEF ReleasePairInv, MainIsEven, MainIsOdd,
    KeeperIsEven, KeeperIsOdd, ReleaseStatusInv
<1>y. ReleaseStatusInv' BY <1>a, <1>n, <1>i, <1>e, <1>j DEF ReleaseStatusInv, ReleasePairInv,
    MainIsEven, MainIsOdd, KeeperIsEven, KeeperIsOdd
<1>z. ReleaseDeviceInv' BY <1>a, <1>n, <1>i, <1>e, <1>j DEF ReleaseDeviceInv, KeeperHolds,
    ReleasePairInv, MainIsEven, MainIsOdd, KeeperIsEven, KeeperIsOdd
<1>q. QED BY <1>w, <1>x, <1>y, <1>z DEF ReleaseIInv

\* main() comes to the first barrier of an iteration,
LEMMA MainFirstKeeps ==
  ASSUME ReleaseIInv, ArriveAtBarrier(ReleaseMain, "first", "in_first")
  PROVE  ReleaseIInv'
<1>a. ReleaseTypeOK /\ ReleasePairInv /\ ReleaseStatusInv /\ ReleaseDeviceInv
  BY DEF ReleaseIInv
<1>n. /\ rtPc \in [ReleaseThread -> ReleaseLabels] /\ ReleaseThread = {"main", "keeper"}
      /\ ReleaseMain = "main" /\ Keeper = "keeper" /\ NoThread = "none" /\ rtI \in Nat
      /\ phase \in 1 .. Len(Phases) /\ w_iterations \in Nat
  BY <1>a, ReleaseAssumption
  DEF ReleaseTypeOK, ReleaseThread, ReleaseMain, Keeper, NoThread, ReleaseLabels
<1>i. /\ Now.device \in {"id", "mutex"} /\ Now.iterations \in 0 .. w_iterations
      /\ Now.status_first \in BOOLEAN
  BY <1>n, NowIs
<1>e. /\ rtPc["main"] = "first"
      /\ rtPc'["main"] = "in_first" /\ rtPc'["keeper"] = rtPc["keeper"]
      /\ phase' = phase /\ rtI' = rtI /\ status' = status /\ id' = id /\ rtMutex' = rtMutex
  BY <1>n DEF ArriveAtBarrier, ReleaseGoto
<1>p. rtPc' \in [ReleaseThread -> ReleaseLabels]
  BY <1>n DEF ArriveAtBarrier, ReleaseGoto, ReleaseLabels
<1>b. barr' = IF barr = {} THEN {"main"} ELSE {}
  <2>1. barr = {} \/ barr = {"keeper"} BY <1>a, <1>n, <1>e DEF ReleasePairInv
  <2>q. QED BY <1>n, <2>1, BarrierOfTwo DEF ArriveAtBarrier
<1>j. Now' = Now BY <1>e DEF Now
<1>w. ReleaseTypeOK' BY <1>a, <1>n, <1>i, <1>e, <1>p, <1>b DEF ReleaseTypeOK, ReleaseLabels,
    ReleaseStatusInv, ReleaseDeviceInv, KeeperHolds
<1>x. ReleasePairInv' BY <1>a, <1>n, <1>e, <1>b DEF ReleasePairInv, MainIsEven, MainIsOdd,
    KeeperIsEven, KeeperIsOdd, ReleaseStatusInv
<1>y. ReleaseStatusInv' BY <1>a, <1>n, <1>i, <1>e, <1>b, <1>j
                        DEF ReleaseStatusInv, ReleasePairInv,
    MainIsEven, MainIsOdd, KeeperIsEven, KeeperIsOdd
<1>z. ReleaseDeviceInv' BY <1>a, <1>n, <1>i, <1>e, <1>b, <1>j DEF ReleaseDeviceInv, KeeperHolds,
    ReleasePairInv, MainIsEven, MainIsOdd, KeeperIsEven, KeeperIsOdd
<1>q. QED BY <1>w, <1>x, <1>y, <1>z DEF ReleaseIInv

\* and leaves it.
LEMMA MainInFirstKeeps ==
  ASSUME ReleaseIInv, LeaveBarrier(ReleaseMain, "in_first", "second")
  PROVE  ReleaseIInv'
<1>a. ReleaseTypeOK /\ ReleasePairInv /\ ReleaseStatusInv /\ ReleaseDeviceInv
  BY DEF ReleaseIInv
<1>n. /\ rtPc \in [ReleaseThread -> ReleaseLabels] /\ ReleaseThread = {"main", "keeper"}
      /\ ReleaseMain = "main" /\ Keeper = "keeper" /\ NoThread = "none" /\ rtI \in Nat
      /\ phase \in 1 .. Len(Phases) /\ w_iterations \in Nat
  BY <1>a, ReleaseAssumption
  DEF ReleaseTypeOK, ReleaseThread, ReleaseMain, Keeper, NoThread, ReleaseLabels
<1>i. /\ Now.device \in {"id", "mutex"} /\ Now.iterations \in 0 .. w_iterations
      /\ Now.status_first \in BOOLEAN
  BY <1>n, NowIs
<1>e. /\ rtPc["main"] = "in_first" /\ "main" \notin barr
      /\ rtPc'["main"] = "second" /\ rtPc'["keeper"] = rtPc["keeper"]
      /\ phase' = phase /\ rtI' = rtI /\ status' = status /\ barr' = barr /\ id' = id
      /\ rtMutex' = rtMutex
  BY <1>n DEF LeaveBarrier, ReleaseGoto
<1>p. rtPc' \in [ReleaseThread -> ReleaseLabels]
  BY <1>n DEF LeaveBarrier, ReleaseGoto, ReleaseLabels
<1>j. Now' = Now BY <1>e DEF Now
<1>w. ReleaseTypeOK' BY <1>a, <1>n, <1>i, <1>e, <1>p DEF ReleaseTypeOK, ReleaseLabels,
    ReleaseStatusInv, ReleaseDeviceInv, KeeperHolds
<1>x. ReleasePairInv' BY <1>a, <1>n, <1>e DEF ReleasePairInv, MainIsEven, MainIsOdd,
    KeeperIsEven, KeeperIsOdd, ReleaseStatusInv
<1>y. ReleaseStatusInv' BY <1>a, <1>n, <1>i, <1>e, <1>j DEF ReleaseStatusInv, ReleasePairInv,
    MainIsEven, MainIsOdd, KeeperIsEven, KeeperIsOdd
<1>z. ReleaseDeviceInv' BY <1>a, <1>n, <1>i, <1>e, <1>j DEF ReleaseDeviceInv, KeeperHolds,
    ReleasePairInv, MainIsEven, MainIsOdd, KeeperIsEven, KeeperIsOdd
<1>q. QED BY <1>w, <1>x, <1>y, <1>z DEF ReleaseIInv

\* It comes to the second barrier,
LEMMA MainSecondKeeps ==
  ASSUME ReleaseIInv, ArriveAtBarrier(ReleaseMain, "second", "in_second")
  PROVE  ReleaseIInv'
<1>a. ReleaseTypeOK /\ ReleasePairInv /\ ReleaseStatusInv /\ ReleaseDeviceInv
  BY DEF ReleaseIInv
<1>n. /\ rtPc \in [ReleaseThread -> ReleaseLabels] /\ ReleaseThread = {"main", "keeper"}
      /\ ReleaseMain = "main" /\ Keeper = "keeper" /\ NoThread = "none" /\ rtI \in Nat
      /\ phase \in 1 .. Len(Phases) /\ w_iterations \in Nat
  BY <1>a, ReleaseAssumption
  DEF ReleaseTypeOK, ReleaseThread, ReleaseMain, Keeper, NoThread, ReleaseLabels
<1>i. /\ Now.device \in {"id", "mutex"} /\ Now.iterations \in 0 .. w_iterations
      /\ Now.status_first \in BOOLEAN
  BY <1>n, NowIs
<1>e. /\ rtPc["main"] = "second"
      /\ rtPc'["main"] = "in_second" /\ rtPc'["keeper"] = rtPc["keeper"]
      /\ phase' = phase /\ rtI' = rtI /\ status' = status /\ id' = id /\ rtMutex' = rtMutex
  BY <1>n DEF ArriveAtBarrier, ReleaseGoto
<1>p. rtPc' \in [ReleaseThread -> ReleaseLabels]
  BY <1>n DEF ArriveAtBarrier, ReleaseGoto, ReleaseLabels
<1>b. barr' = IF barr = {} THEN {"main"} ELSE {}
  <2>1. barr = {} \/ barr = {"keeper"} BY <1>a, <1>n, <1>e DEF ReleasePairInv
  <2>q. QED BY <1>n, <2>1, BarrierOfTwo DEF ArriveAtBarrier
<1>j. Now' = Now BY <1>e DEF Now
<1>w. ReleaseTypeOK' BY <1>a, <1>n, <1>i, <1>e, <1>p, <1>b DEF ReleaseTypeOK, ReleaseLabels,
    ReleaseStatusInv, ReleaseDeviceInv, KeeperHolds
<1>x. ReleasePairInv' BY <1>a, <1>n, <1>e, <1>b DEF ReleasePairInv, MainIsEven, MainIsOdd,
    KeeperIsEven, KeeperIsOdd, ReleaseStatusInv
<1>y. ReleaseStatusInv' BY <1>a, <1>n, <1>i, <1>e, <1>b, <1>j
                        DEF ReleaseStatusInv, ReleasePairInv,
    MainIsEven, MainIsOdd, KeeperIsEven, KeeperIsOdd
<1>z. ReleaseDeviceInv' BY <1>a, <1>n, <1>i, <1>e, <1>b, <1>j DEF ReleaseDeviceInv, KeeperHolds,
    ReleasePairInv, MainIsEven, MainIsOdd, KeeperIsEven, KeeperIsOdd
<1>q. QED BY <1>w, <1>x, <1>y, <1>z DEF ReleaseIInv

\* and leaves it.
LEMMA MainInSecondKeeps ==
  ASSUME ReleaseIInv, LeaveBarrier(ReleaseMain, "in_second", "acquire")
  PROVE  ReleaseIInv'
<1>a. ReleaseTypeOK /\ ReleasePairInv /\ ReleaseStatusInv /\ ReleaseDeviceInv
  BY DEF ReleaseIInv
<1>n. /\ rtPc \in [ReleaseThread -> ReleaseLabels] /\ ReleaseThread = {"main", "keeper"}
      /\ ReleaseMain = "main" /\ Keeper = "keeper" /\ NoThread = "none" /\ rtI \in Nat
      /\ phase \in 1 .. Len(Phases) /\ w_iterations \in Nat
  BY <1>a, ReleaseAssumption
  DEF ReleaseTypeOK, ReleaseThread, ReleaseMain, Keeper, NoThread, ReleaseLabels
<1>i. /\ Now.device \in {"id", "mutex"} /\ Now.iterations \in 0 .. w_iterations
      /\ Now.status_first \in BOOLEAN
  BY <1>n, NowIs
<1>e. /\ rtPc["main"] = "in_second" /\ "main" \notin barr
      /\ rtPc'["main"] = "acquire" /\ rtPc'["keeper"] = rtPc["keeper"]
      /\ phase' = phase /\ rtI' = rtI /\ status' = status /\ barr' = barr /\ id' = id
      /\ rtMutex' = rtMutex
  BY <1>n DEF LeaveBarrier, ReleaseGoto
<1>p. rtPc' \in [ReleaseThread -> ReleaseLabels]
  BY <1>n DEF LeaveBarrier, ReleaseGoto, ReleaseLabels
<1>j. Now' = Now BY <1>e DEF Now
<1>w. ReleaseTypeOK' BY <1>a, <1>n, <1>i, <1>e, <1>p DEF ReleaseTypeOK, ReleaseLabels,
    ReleaseStatusInv, ReleaseDeviceInv, KeeperHolds
<1>x. ReleasePairInv' BY <1>a, <1>n, <1>e DEF ReleasePairInv, MainIsEven, MainIsOdd,
    KeeperIsEven, KeeperIsOdd, ReleaseStatusInv
<1>y. ReleaseStatusInv' BY <1>a, <1>n, <1>i, <1>e, <1>j DEF ReleaseStatusInv, ReleasePairInv,
    MainIsEven, MainIsOdd, KeeperIsEven, KeeperIsOdd
<1>z. ReleaseDeviceInv' BY <1>a, <1>n, <1>i, <1>e, <1>j DEF ReleaseDeviceInv, KeeperHolds,
    ReleasePairInv, MainIsEven, MainIsOdd, KeeperIsEven, KeeperIsOdd
<1>q. QED BY <1>w, <1>x, <1>y, <1>z DEF ReleaseIInv

\* It comes to the barrier after the last iteration,
LEMMA MainLastKeeps ==
  ASSUME ReleaseIInv, ArriveAtBarrier(ReleaseMain, "last", "in_last")
  PROVE  ReleaseIInv'
<1>a. ReleaseTypeOK /\ ReleasePairInv /\ ReleaseStatusInv /\ ReleaseDeviceInv
  BY DEF ReleaseIInv
<1>n. /\ rtPc \in [ReleaseThread -> ReleaseLabels] /\ ReleaseThread = {"main", "keeper"}
      /\ ReleaseMain = "main" /\ Keeper = "keeper" /\ NoThread = "none" /\ rtI \in Nat
      /\ phase \in 1 .. Len(Phases) /\ w_iterations \in Nat
  BY <1>a, ReleaseAssumption
  DEF ReleaseTypeOK, ReleaseThread, ReleaseMain, Keeper, NoThread, ReleaseLabels
<1>i. /\ Now.device \in {"id", "mutex"} /\ Now.iterations \in 0 .. w_iterations
      /\ Now.status_first \in BOOLEAN
  BY <1>n, NowIs
<1>e. /\ rtPc["main"] = "last"
      /\ rtPc'["main"] = "in_last" /\ rtPc'["keeper"] = rtPc["keeper"]
      /\ phase' = phase /\ rtI' = rtI /\ status' = status /\ id' = id /\ rtMutex' = rtMutex
  BY <1>n DEF ArriveAtBarrier, ReleaseGoto
<1>p. rtPc' \in [ReleaseThread -> ReleaseLabels]
  BY <1>n DEF ArriveAtBarrier, ReleaseGoto, ReleaseLabels
<1>b. barr' = IF barr = {} THEN {"main"} ELSE {}
  <2>1. barr = {} \/ barr = {"keeper"} BY <1>a, <1>n, <1>e DEF ReleasePairInv
  <2>q. QED BY <1>n, <2>1, BarrierOfTwo DEF ArriveAtBarrier
<1>j. Now' = Now BY <1>e DEF Now
<1>w. ReleaseTypeOK' BY <1>a, <1>n, <1>i, <1>e, <1>p, <1>b DEF ReleaseTypeOK, ReleaseLabels,
    ReleaseStatusInv, ReleaseDeviceInv, KeeperHolds
<1>x. ReleasePairInv' BY <1>a, <1>n, <1>e, <1>b DEF ReleasePairInv, MainIsEven, MainIsOdd,
    KeeperIsEven, KeeperIsOdd, ReleaseStatusInv
<1>y. ReleaseStatusInv' BY <1>a, <1>n, <1>i, <1>e, <1>b, <1>j
                        DEF ReleaseStatusInv, ReleasePairInv,
    MainIsEven, MainIsOdd, KeeperIsEven, KeeperIsOdd
<1>z. ReleaseDeviceInv' BY <1>a, <1>n, <1>i, <1>e, <1>b, <1>j DEF ReleaseDeviceInv, KeeperHolds,
    ReleasePairInv, MainIsEven, MainIsOdd, KeeperIsEven, KeeperIsOdd
<1>q. QED BY <1>w, <1>x, <1>y, <1>z DEF ReleaseIInv

\* and leaves it.
LEMMA MainInLastKeeps ==
  ASSUME ReleaseIInv, LeaveBarrier(ReleaseMain, "in_last", "join")
  PROVE  ReleaseIInv'
<1>a. ReleaseTypeOK /\ ReleasePairInv /\ ReleaseStatusInv /\ ReleaseDeviceInv
  BY DEF ReleaseIInv
<1>n. /\ rtPc \in [ReleaseThread -> ReleaseLabels] /\ ReleaseThread = {"main", "keeper"}
      /\ ReleaseMain = "main" /\ Keeper = "keeper" /\ NoThread = "none" /\ rtI \in Nat
      /\ phase \in 1 .. Len(Phases) /\ w_iterations \in Nat
  BY <1>a, ReleaseAssumption
  DEF ReleaseTypeOK, ReleaseThread, ReleaseMain, Keeper, NoThread, ReleaseLabels
<1>i. /\ Now.device \in {"id", "mutex"} /\ Now.iterations \in 0 .. w_iterations
      /\ Now.status_first \in BOOLEAN
  BY <1>n, NowIs
<1>e. /\ rtPc["main"] = "in_last" /\ "main" \notin barr
      /\ rtPc'["main"] = "join" /\ rtPc'["keeper"] = rtPc["keeper"]
      /\ phase' = phase /\ rtI' = rtI /\ status' = status /\ barr' = barr /\ id' = id
      /\ rtMutex' = rtMutex
  BY <1>n DEF LeaveBarrier, ReleaseGoto
<1>p. rtPc' \in [ReleaseThread -> ReleaseLabels]
  BY <1>n DEF LeaveBarrier, ReleaseGoto, ReleaseLabels
<1>j. Now' = Now BY <1>e DEF Now
<1>w. ReleaseTypeOK' BY <1>a, <1>n, <1>i, <1>e, <1>p DEF ReleaseTypeOK, ReleaseLabels,
    ReleaseStatusInv, ReleaseDeviceInv, KeeperHolds
<1>x. ReleasePairInv' BY <1>a, <1>n, <1>e DEF ReleasePairInv, MainIsEven, MainIsOdd,
    KeeperIsEven, KeeperIsOdd, ReleaseStatusInv
<1>y. ReleaseStatusInv' BY <1>a, <1>n, <1>i, <1>e, <1>j DEF ReleaseStatusInv, ReleasePairInv,
    MainIsEven, MainIsOdd, KeeperIsEven, KeeperIsOdd
<1>z. ReleaseDeviceInv' BY <1>a, <1>n, <1>i, <1>e, <1>j DEF ReleaseDeviceInv, KeeperHolds,
    ReleasePairInv, MainIsEven, MainIsOdd, KeeperIsEven, KeeperIsOdd
<1>q. QED BY <1>w, <1>x, <1>y, <1>z DEF ReleaseIInv

\* semaphore_mutex_release.c: main() times a release, and each phase finds the device as it was.
THEOREM ReleasesAreTimed == ReleaseSpec => []ReleaseInv
<1>1. ReleaseInit => ReleaseIInv BY ReleaseStart
<1>2. ReleaseIInv /\ [ReleaseNext]_releaseVars => ReleaseIInv'
  <2> SUFFICES ASSUME ReleaseIInv, [ReleaseNext]_releaseVars PROVE ReleaseIInv' OBVIOUS
  <2>1. CASE UNCHANGED releaseVars
    <3>1. Now' = Now BY <2>1 DEF releaseVars, Now
    <3>q. QED
      BY <2>1, <3>1
      DEF releaseVars, ReleaseIInv, ReleaseTypeOK, ReleasePairInv, MainIsEven, MainIsOdd,
         KeeperIsEven, KeeperIsOdd, ReleaseStatusInv, ReleaseDeviceInv, KeeperHolds
  <2>2. CASE keeper
    BY <2>2, TopKeeps, KeeperTestKeeps, KeeperAcquireKeeps, KeeperReleaseKeeps,
       KeeperFirstKeeps,
       KeeperInFirstKeeps, KeeperSecondKeeps, KeeperInSecondKeeps DEF keeper
  <2>3. CASE semaphore_mutex_not_empty
    BY <2>3, ReleaseCreateKeeps, SetStatusKeeps, TimingLoopKeeps, MainAcquireKeeps,
       MainReleaseKeeps,
       ReleaseJoinKeeps, MainFirstKeeps, MainInFirstKeeps, MainSecondKeeps, MainInSecondKeeps,
       MainLastKeeps, MainInLastKeeps DEF semaphore_mutex_not_empty
  <2>q. QED BY <2>1, <2>2, <2>3 DEF ReleaseNext, ReleaseStopped
<1>3. ReleaseIInv => ReleaseInv
  <2> SUFFICES ASSUME ReleaseIInv PROVE ReleaseInv OBVIOUS
  <2>a. /\ ReleaseTypeOK /\ ReleasePairInv /\ ReleaseStatusInv /\ ReleaseDeviceInv
        /\ ReleaseMain = "main" /\ Keeper = "keeper" /\ NoThread = "none"
    BY DEF ReleaseIInv, ReleaseMain, Keeper, NoThread
  <2>1. MainTimesARelease
    BY <2>a DEF MainTimesARelease, ReleasePairInv, MainIsEven, MainIsOdd, KeeperIsEven
  <2>2. DeviceIsBack BY <2>a DEF DeviceIsBack, ReleaseDeviceInv, KeeperHolds
  <2>3. KeeperLeavesOnce
    BY <2>a DEF KeeperLeavesOnce, Hung, ReleaseStatusInv, ReleasePairInv
  <2>q. QED BY <2>a, <2>1, <2>2, <2>3 DEF ReleaseInv
<1>q. QED BY <1>1, <1>2, <1>3, PTL DEF ReleaseSpec

\* The two programs that measure a time between threads.
THEOREM TimesAreRight == PerfSpec /\ ReleaseSpec => []MeasuredInv
<1>1. PerfInv /\ ReleaseInv => MeasuredInv BY DEF MeasuredInv
<1>q. QED BY <1>1, WorkIsMeasured, ReleasesAreTimed, PTL
=============================================================================
