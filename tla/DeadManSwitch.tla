--------------------------- MODULE DeadManSwitch ---------------------------
(***************************************************************************)
(* What the control path promises, whatever its queues and time-outs: the  *)
(* output follows commands, and never one that is older than Limit.  When  *)
(* commands stop coming the output must be released.                       *)
(***************************************************************************)
EXTENDS Naturals

CONSTANTS Item, Idle, Limit

VARIABLES
  output,   \* the command the actuators follow
  age       \* ticks since that command was given

Init == output = Idle /\ age = 0

\* Follow a command that is recent enough, or the same one again.
Engage == output' \in Item \ {Idle} /\ age' \in 0 .. Limit

Release == output # Idle /\ output' = Idle /\ age' \in 0 .. Limit

\* Time may not pass beyond the limit while a command is followed.
Hold == output # Idle /\ age < Limit /\ age' = age + 1 /\ UNCHANGED output

\* With nothing to follow, the age means nothing.
Rest == output = Idle /\ age' \in 0 .. Limit /\ UNCHANGED output

Next == Engage \/ Release \/ Hold \/ Rest

Spec == Init /\ [][Next]_<<output, age>> /\ WF_<<output, age>>(Hold \/ Release)
=============================================================================
