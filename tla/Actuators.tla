------------------------------ MODULE Actuators ------------------------------
(***************************************************************************)
(* What task_control_loop does with the coordinates of a command: the      *)
(* speed of the propeller motor and the positions of the two servos that   *)
(* tilt the propeller (freertos_tasks.h), down to the registers that make  *)
(* the pulses (propeller_motors.c, servos.c, pwm_generator.c).             *)
(*                                                                         *)
(* All arithmetic is that of the code, with its conversions to bytes.  The *)
(* floating point numbers of the servos are exact here; where they are a   *)
(* whole number of ticks, rounding may have cost the code one of them.     *)
(***************************************************************************)
EXTENDS Integers

CONSTANT Coordinates  \* the coordinates the app sends, as bytes with a sign

ASSUME CoordinatesAssumption == Coordinates \subseteq -128 .. 127

VARIABLES
  x, y,    \* control_buf
  duty,    \* the duty cycle register of PWM channel 1
  ra, rb   \* the compare registers of timer 1, channel 1

vars == <<x, y, duty, ra, rb>>

Byte(n) == n % 256

Period == 3000          \* MOTOR_CTRL_PERIOD_REG
OffDuty == 300          \* MOTOR_OFF_DUTY_CYCLE_REG
Rc == 18750             \* tc1_ch1_rc: 120 MHz, divided by 128 and by 50 Hz
Centre == 17343         \* the compare value of the duty cycle 0.075

\* The length of the input vector, without its fraction.
Root(n) == CHOOSE m \in 0 .. 255 : m * m <= n /\ n < (m + 1) * (m + 1)

\* Mutant: the squares are bytes.
SpeedOfBytes(a, b) == Byte(Root(Byte(a * a) + Byte(b * b)))

Speed(a, b) == Byte(Root(a * a + b * b))

\* propeller_motor1_set_speed
MotorDuty(speed) ==
  LET cut == IF speed > 100 THEN 100 ELSE speed
  IN  IF speed > 0 THEN 600 + (cut * 1800) \div 100 ELSE OffDuty

\* pwm_channel_update_duty, which refuses what is longer than the period.
UpdateDuty(value) == duty' = IF Period < value THEN duty ELSE value

\* Mutant: a negative number of degrees becomes a byte.
UncutDegrees(coordinate) == Byte(90 + coordinate)

\* The position that the loop passes on to the servo.
Degrees(coordinate) ==
  LET degrees == 90 + coordinate
  IN  Byte(IF degrees < 0 THEN 0 ELSE degrees)

\* The compare values for a position: the duty cycle is 0.05 plus a 180th of 0.05
\* for each degree (servos_propeller1_inner_set_position, tc1_ch1a_set_duty_cycle).
Compares(degrees) ==
  LET cut == IF degrees > 180 THEN 180 ELSE degrees
      ticks == ((3420 - cut) * Rc) \div 3600
  IN  IF ((3420 - cut) * Rc) % 3600 = 0 THEN {ticks, ticks - 1} ELSE {ticks}

Init ==
  /\ x = 0 /\ y = 0
  /\ duty = OffDuty
  /\ ra = Centre /\ rb = Centre

\* One round of the loop with the coordinates a and b.
Drive(a, b) ==
  /\ x' = a /\ y' = b
  /\ UpdateDuty(MotorDuty(Speed(a, b)))
  /\ ra' \in Compares(Degrees(a))
  /\ rb' \in Compares(Degrees(b))

\* A round with the coordinates of a command, or with those of silence.
Next ==
  \/ \E a, b \in Coordinates : Drive(a, b)
  \/ Drive(0, 0)

Spec == Init /\ [][Next]_vars

-----------------------------------------------------------------------------
(* Properties. *)

\* The propeller is tilted to the side of the coordinate, and is upright without
\* one: no input, however far, turns it round to the other side.
SidesAreKept ==
  /\ x > 0 => ra < Centre
  /\ x < 0 => ra > Centre
  /\ x = 0 => ra = Centre
  /\ y > 0 => rb < Centre
  /\ y < 0 => rb > Centre
  /\ y = 0 => rb = Centre

\* Who steers further gets no less: not less thrust and, within one tick, not
\* less tilt, whatever was steered before.
Size(n) == IF n < 0 THEN -n ELSE n
MoreIsMore ==
  [][/\ Size(x') >= Size(x) /\ Size(y') >= Size(y) => duty' >= duty
     /\ x' >= x => ra' <= ra + 1
     /\ y' >= y => rb' <= rb + 1]_vars
=============================================================================
