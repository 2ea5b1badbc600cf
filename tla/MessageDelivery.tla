-------------------------- MODULE MessageDelivery --------------------------
(***************************************************************************)
(* What the host interface promises the program: the messages of the Wi-Fi *)
(* module reach it one by one, in the order they were sent, none of them   *)
(* twice, and none is passed over unless a transfer failed.                *)
(***************************************************************************)
EXTENDS Naturals, Sequences

CONSTANTS
  Lossy,   \* a message may be lost
  Limit    \* bound: the messages sent

VARIABLES
  sent,      \* the number of messages sent
  channel,   \* the messages on their way: in the module, and in the driver
  handled    \* the messages that arrived

vars == <<sent, channel, handled>>

Init == sent = 0 /\ channel = <<>> /\ handled = <<>>

Send ==
  /\ sent < Limit
  /\ Len(channel) < 2
  /\ sent' = sent + 1
  /\ channel' = Append(channel, sent + 1)
  /\ UNCHANGED handled

Take(next) == channel # <<>> /\ channel' = Tail(channel) /\ handled' = next /\ UNCHANGED sent

Handle == channel # <<>> /\ Take(Append(handled, Head(channel)))

Lose == Lossy /\ Take(handled)

Next == Send \/ Handle \/ Lose

SafeSpec == Init /\ [][Next]_vars
=============================================================================
