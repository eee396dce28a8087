----------------------------- MODULE Rendezvous -----------------------------
(***************************************************************************)
(* What chameneosredux.c promises: creatures meet two at a time, each pair *)
(* takes on the colour that complements theirs, and after a given number   *)
(* of meetings there are no more.                                          *)
(***************************************************************************)
EXTENDS Integers

CONSTANTS Creature, Meetings, StartColors, Compliment(_, _)

VARIABLES color,    \* of each creature
          left      \* meetings still to come

Init == color \in StartColors /\ left = Meetings

Meet(c, d) ==
  /\ c # d /\ left > 0
  /\ LET new == Compliment(color[c], color[d])
     IN  color' = [color EXCEPT ![c] = new, ![d] = new]
  /\ left' = left - 1

Spec == Init /\ [][\E c, d \in Creature : Meet(c, d)]_<<color, left>>
=============================================================================
