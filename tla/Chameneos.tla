----------------------------- MODULE Chameneos -----------------------------
(***************************************************************************)
(* Faulty/OneBug/chameneosredux.c, one call of run_the_meetings: creatures *)
(* meet two at a time by way of three semaphores.  The first of a meeting  *)
(* leaves its colour in A, gives the mutex back and waits on sem_priv; the *)
(* second leaves its colour in B and goes on with the mutex still taken:   *)
(* it is the first who gives the mutex back for both, and who lets the     *)
(* next two in.                                                            *)
(*                                                                         *)
(* done is read without the mutex in two places.  The counters of a        *)
(* creature are one, the number of its meetings; print_mutex is not used   *)
(* by the program and what it prints is left out.                          *)
(***************************************************************************)
EXTENDS Pthreads

CONSTANTS Creature,            \* the n_colors threads
          total_meetings_to_run,
          StartColors          \* the colours they may start with

Color == {"blue", "red", "yellow"}

ASSUME ChameneosAssumption ==
  /\ IsFiniteSet(Creature) /\ NoThread \notin Creature /\ "main" \notin Creature
  /\ total_meetings_to_run \in Nat \ {0}
  /\ StartColors \subseteq [Creature -> Color]

Slot  == [my_color : Color \cup {"zero"}, id : Creature \cup {NoThread}]
Empty == [my_color |-> "zero", id |-> NoThread]

VARIABLES at_most_two, mutex, sem_priv, sem_print,
          meetings_left, first_arrived, done, A, B,
          pc,
          my_color, met,       \* the critter of each thread; its meetings
          other                \* its other_critter

sems    == <<at_most_two, mutex, sem_priv, sem_print>>
meeting == <<meetings_left, first_arrived, done, A, B>>
local   == <<my_color, met, other>>
vars    == <<sems, meeting, pc, local>>

Init ==
  /\ at_most_two = 2 /\ mutex = 1 /\ sem_priv = 0 /\ sem_print = 0
  /\ meetings_left = total_meetings_to_run
  /\ first_arrived = FALSE /\ done = FALSE
  /\ A = Empty /\ B = Empty
  /\ pc = [t \in Creature \cup {"main"} |-> IF t = "main" THEN "create" ELSE "loop"]
  /\ my_color \in StartColors
  /\ met = [c \in Creature |-> 0]
  /\ other = [c \in Creature |-> Empty]

Goto(t, label) == pc' = [pc EXCEPT ![t] = label]

compliment_color(c1, c2) ==
  IF c1 = c2 THEN c1 ELSE CHOOSE c \in Color : c \notin {c1, c2}
-----------------------------------------------------------------------------
\* while(done != 1), read without the mutex.
Loop(c) ==
  /\ pc[c] = "loop"
  /\ Goto(c, IF done THEN "print" ELSE "arrive")
  /\ UNCHANGED <<sems, meeting, local>>

Arrive(c) ==
  /\ pc[c] = "arrive"
  /\ SemWait(at_most_two)
  /\ Goto(c, "look")
  /\ UNCHANGED <<mutex, sem_priv, sem_print, meeting, local>>

\* The first look at done, before the mutex.
Look(c) ==
  /\ pc[c] = "look"
  /\ IF done THEN SemPost(at_most_two) /\ Goto(c, "print")
             ELSE at_most_two' = at_most_two /\ Goto(c, "enter")
  /\ UNCHANGED <<mutex, sem_priv, sem_print, meeting, local>>

\* The second look is with the mutex, which a creature that gives up hands back.
Enter(c) ==
  /\ pc[c] = "enter" /\ mutex > 0
  /\ IF done THEN SemPost(at_most_two) /\ mutex' = mutex /\ Goto(c, "print")
             ELSE SemWait(mutex) /\ at_most_two' = at_most_two /\ Goto(c, "inside")
  /\ UNCHANGED <<sem_priv, sem_print, meeting, local>>

\* BUG: lets another creature in before it waits.
BugFirst(c) ==
  /\ pc[c] = "inside" /\ ~ first_arrived
  /\ first_arrived' = TRUE
  /\ A' = [my_color |-> my_color[c], id |-> c]
  /\ SemPost(mutex) /\ SemPost(at_most_two)
  /\ Goto(c, "wait")
  /\ UNCHANGED <<sem_priv, sem_print, meetings_left, done, B, local>>

First(c) ==
  /\ pc[c] = "inside" /\ ~ first_arrived
  /\ first_arrived' = TRUE
  /\ A' = [my_color |-> my_color[c], id |-> c]
  /\ SemPost(mutex)
  /\ Goto(c, "wait")
  /\ UNCHANGED <<at_most_two, sem_priv, sem_print, meetings_left, done, B, local>>

Second(c) ==
  /\ pc[c] = "inside" /\ first_arrived
  /\ first_arrived' = FALSE
  /\ B' = [my_color |-> my_color[c], id |-> c]
  /\ other' = [other EXCEPT ![c] = A]
  /\ SemPost(sem_priv)
  /\ Goto(c, "met")
  /\ UNCHANGED <<at_most_two, mutex, sem_print, meetings_left, done, A, my_color, met>>

\* The first goes on, with the mutex that the second has left it.
Wake(c) ==
  /\ pc[c] = "wait"
  /\ SemWait(sem_priv)
  /\ Goto(c, "finish")
  /\ UNCHANGED <<at_most_two, mutex, sem_print, meeting, local>>

\* BUG: the meetings are tested before they are counted.
BugFinish(c) ==
  /\ pc[c] = "finish"
  /\ other' = [other EXCEPT ![c] = B]
  /\ done' = (meetings_left = 0)
  /\ meetings_left' = meetings_left - 1
  /\ Goto(c, "unlock")
  /\ UNCHANGED <<sems, first_arrived, A, B, my_color, met>>

Finish(c) ==
  /\ pc[c] = "finish"
  /\ other' = [other EXCEPT ![c] = B]
  /\ meetings_left' = meetings_left - 1
  /\ done' = (meetings_left' = 0 \/ done)
  /\ Goto(c, "unlock")
  /\ UNCHANGED <<sems, first_arrived, A, B, my_color, met>>

Unlock_(c) ==
  /\ pc[c] = "unlock"
  /\ SemPost(mutex)
  /\ Goto(c, "let_in")
  /\ UNCHANGED <<at_most_two, sem_priv, sem_print, meeting, local>>

\* at_most_two is posted twice.
LetIn(c) ==
  /\ pc[c] = "let_in"
  /\ at_most_two' = at_most_two + 2
  /\ Goto(c, "met")
  /\ UNCHANGED <<mutex, sem_priv, sem_print, meeting, local>>

Count(c) ==
  /\ pc[c] = "met"
  /\ met' = [met EXCEPT ![c] = @ + 1]
  /\ my_color' = [my_color EXCEPT ![c] = compliment_color(@, other[c].my_color)]
  /\ Goto(c, "loop")
  /\ UNCHANGED <<sems, meeting, other>>

Report(c) ==
  /\ pc[c] = "print"
  /\ SemWait(sem_print)
  /\ Goto(c, "ended")
  /\ UNCHANGED <<at_most_two, mutex, sem_priv, meeting, local>>
-----------------------------------------------------------------------------
\* run_the_meetings lets the creatures report, and joins them.
PostPrint ==
  /\ pc["main"] = "create"
  /\ sem_print' = sem_print + Cardinality(Creature)
  /\ Goto("main", "join")
  /\ UNCHANGED <<at_most_two, mutex, sem_priv, meeting, local>>

Join ==
  /\ pc["main"] = "join" /\ \A c \in Creature : pc[c] = "ended"
  /\ Goto("main", "returned")
  /\ UNCHANGED <<sems, meeting, local>>

run_the_meetings == PostPrint \/ Join

creature(c) ==
  \/ Loop(c) \/ Arrive(c) \/ Look(c) \/ Enter(c) \/ First(c) \/ Second(c)
  \/ Wake(c) \/ Finish(c) \/ Unlock_(c) \/ LetIn(c) \/ Count(c) \/ Report(c)

Terminated == pc["main"] = "returned" /\ UNCHANGED vars

Next == run_the_meetings \/ Terminated \/ \E c \in Creature : creature(c)

Spec == Init /\ [][Next]_vars

\* The meetings are numbered, so that nobody is overtaken for ever.
FairSpec == Spec /\ WF_vars(run_the_meetings) /\ \A c \in Creature : WF_vars(creature(c))
-----------------------------------------------------------------------------
TypeOK ==
  /\ at_most_two \in 0 .. 2 /\ mutex \in 0 .. 1 /\ sem_priv \in 0 .. 1
  /\ sem_print \in 0 .. Cardinality(Creature)
  /\ meetings_left \in 0 .. total_meetings_to_run
  /\ first_arrived \in BOOLEAN /\ done \in BOOLEAN /\ A \in Slot /\ B \in Slot
  /\ pc \in [Creature \cup {"main"} ->
               {"create", "join", "returned", "loop", "arrive", "look", "enter", "inside", "wait",
                "finish", "unlock", "let_in", "met", "print", "ended"}]
  /\ my_color \in [Creature -> Color] /\ other \in [Creature -> Slot]
  /\ met \in [Creature -> 0 .. total_meetings_to_run]

\* Two creatures that meet see each other: when the first lets the next two in,
\* each has the other in hand, although A and B are the same for all meetings.
MeetingsAreMutual ==
  \A c \in Creature : pc[c] \in {"unlock", "let_in"} =>
    LET d == other[c].id IN d # c /\ d # NoThread /\ other[d].id = c

\* The look at done with the mutex finds nothing that the one before had not
\* found: at_most_two keeps everybody out until the last meeting is over.
SecondLookIsNotNeeded == \A c \in Creature : pc[c] \in {"enter", "inside"} => ~ done

\* run_the_meetings begins its second call with the semaphores the first has
\* left as they were: whoever gave up gave back what it had taken.
SemaphoresAreBack ==
  pc["main"] = "returned" =>
    at_most_two = 2 /\ mutex = 1 /\ sem_priv = 0 /\ sem_print = 0

\* The colours and the number of meetings are those of creatures that meet two
\* at a time in one step.  A meeting takes place when the second arrives: from
\* then on the first will see B, and the meeting is no longer among those left.
TakingPlace == sem_priv = 1 \/ \E c \in Creature : pc[c] = "finish"

ColorOf(c) ==
  IF pc[c] \in {"unlock", "let_in", "met"}
    THEN compliment_color(my_color[c], other[c].my_color)
  ELSE IF TakingPlace /\ pc[c] \in {"wait", "finish"}
    THEN compliment_color(my_color[c], B.my_color)
  ELSE my_color[c]

Abstract == INSTANCE Rendezvous WITH
  Meetings <- total_meetings_to_run, Compliment <- compliment_color,
  color <- [c \in Creature |-> ColorOf(c)],
  left  <- meetings_left - (IF TakingPlace THEN 1 ELSE 0)

IsARendezvous == Abstract!Spec

\* All meetings take place, and then everybody goes home.
EverybodyGoesHome == <>(pc["main"] = "returned" /\ meetings_left = 0)

\* The safety of run_the_meetings: who meets sees whom it meets, nobody is let in after
\* the last meeting, and the semaphores are back for the second call.
ChameneosInv == TypeOK /\ MeetingsAreMutual /\ SecondLookIsNotNeeded /\ SemaphoresAreBack
=============================================================================
