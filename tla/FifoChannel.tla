---------------------------- MODULE FifoChannel ----------------------------
(***************************************************************************)
(* What the bounded buffers of the benchmark promise: a channel that holds *)
(* at most Capacity items, delivers each item exactly once and in the      *)
(* order in which it was sent.  The channel is an abstract specification:  *)
(* it knows nothing of slots, indices, counters, mutexes or sleepers.      *)
(***************************************************************************)
EXTENDS Naturals, Sequences

CONSTANTS Item,         \* what is sent
          Capacity      \* how many items are under way at most

VARIABLES channel,      \* the items under way, oldest first
          delivered     \* the items delivered, in the order of delivery

vars == <<channel, delivered>>

Init == channel = <<>> /\ delivered = <<>>

Send(x) ==
  /\ Len(channel) < Capacity
  /\ channel' = Append(channel, x)
  /\ UNCHANGED delivered

Deliver ==
  /\ channel # <<>>
  /\ delivered' = Append(delivered, Head(channel))
  /\ channel' = Tail(channel)

Next == Deliver \/ \E x \in Item : Send(x)

Spec == Init /\ [][Next]_vars
=============================================================================
