----------------------------- MODULE MCActuators -----------------------------
(***************************************************************************)
(* Instances of Actuators: the coordinates where a conversion or a limit   *)
(* makes a difference, and some between them.                              *)
(***************************************************************************)
EXTENDS Actuators

Edges == {-128, -127, -100, -91, -90, -89, -78, -60, -17, -16, -1, 0, 1, 15, 16, 17, 42, 71,
          89, 90, 91, 99, 100, 101, 127}
=============================================================================
