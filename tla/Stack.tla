------------------------------- MODULE Stack -------------------------------
(***************************************************************************)
(* A bounded or unbounded stack: what the linked lists of zad_dom1.c and   *)
(* 02.c are for the threads that push and pop.                             *)
(***************************************************************************)
EXTENDS Sequences, Integers

CONSTANT Value
VARIABLE items

Init == items = <<>>

Push == \E v \in Value : items' = Append(items, v)
Pop  == items # <<>> /\ items' = SubSeq(items, 1, Len(items) - 1)

Spec == Init /\ [][Push \/ Pop]_items
=============================================================================
