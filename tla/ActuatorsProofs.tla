--------------------------- MODULE ActuatorsProofs ---------------------------
(***************************************************************************)
(* Proofs about Actuators, for every coordinate that a byte can hold: the  *)
(* propeller is never tilted to the wrong side, and who steers further     *)
(* gets no less thrust and no less tilt.                                   *)
(***************************************************************************)
EXTENDS Actuators, TLAPS, WellFoundedInduction

\* The side of one servo.
OnSide(coordinate, r) ==
  /\ coordinate > 0 => r < Centre
  /\ coordinate < 0 => r > Centre
  /\ coordinate = 0 => r = Centre

\* The conversions of a coordinate keep it between the ends of the servo or beyond
\* the right one, on its side of the centre.
LEMMA DegreesKeepSide ==
  ASSUME NEW c \in -128 .. 127
  PROVE  /\ Degrees(c) \in 0 .. 217
         /\ c > 0 => Degrees(c) > 90
         /\ c < 0 => Degrees(c) < 90
         /\ c = 0 => Degrees(c) = 90
<1>1. CASE c < -90
  BY <1>1 DEF Degrees, Byte
<1>2. CASE c >= -90
  <2>1. 90 + c \in 0 .. 217 /\ ~(90 + c < 0)
    BY <1>2
  <2>2. Degrees(c) = 90 + c
    BY <2>1 DEF Degrees, Byte
  <2> QED BY <2>1, <2>2
<1> QED BY <1>1, <1>2

\* The compare value falls as the degrees rise, and is the centre at 90.
LEMMA ComparesKeepSide ==
  ASSUME NEW d \in 0 .. 217, NEW r \in Compares(d)
  PROVE  /\ d > 90 => r < Centre
         /\ d < 90 => r > Centre
         /\ d = 90 => r = Centre
<1> DEFINE cut == IF d > 180 THEN 180 ELSE d
<1> DEFINE n == (3420 - cut) * Rc
<1>1. cut \in 0 .. 180 /\ (d > 90 <=> cut > 90) /\ (d < 90 <=> cut < 90)
  OBVIOUS
<1>2. r = n \div 3600 \/ (n % 3600 = 0 /\ r = n \div 3600 - 1)
  BY DEF Compares
<1>3. n = 64125000 - 18750 * cut
  BY <1>1 DEF Rc
<1> HIDE DEF n
<1>4. n \in Nat
  BY <1>1, <1>3
<1>5. CASE cut > 90
  <2>1. n <= 62418750 /\ n \div 3600 < 17343
    BY <1>1, <1>3, <1>4, <1>5
  <2> QED BY <1>1, <1>2, <1>4, <1>5, <2>1 DEF Centre
<1>6. CASE cut < 90
  <2>1. n >= 62456250 /\ n \div 3600 > 17344
    BY <1>1, <1>3, <1>4, <1>6
  <2> QED BY <1>1, <1>2, <1>4, <1>6, <2>1 DEF Centre
<1>7. CASE cut = 90
  <2>1. n = 62437500 /\ n \div 3600 = 17343 /\ n % 3600 # 0
    BY <1>3, <1>7
  <2> QED BY <1>1, <1>2, <1>7, <2>1 DEF Centre
<1> QED BY <1>1, <1>5, <1>6, <1>7

\* What the loop makes of a coordinate.
LEMMA CoordinateKeepsSide ==
  ASSUME NEW c \in -128 .. 127, NEW r \in Compares(Degrees(c))
  PROVE  OnSide(c, r)
<1>1. Degrees(c) \in 0 .. 217
  BY DegreesKeepSide
<1>2. /\ Degrees(c) > 90 => r < Centre
      /\ Degrees(c) < 90 => r > Centre
      /\ Degrees(c) = 90 => r = Centre
  BY <1>1, ComparesKeepSide
<1> QED BY <1>2, DegreesKeepSide DEF OnSide

\* The propeller is tilted to the side of the coordinate after every command
\* (task_control_loop, servos_propeller1_inner_set_position).
THEOREM TiltKeepsSide == Spec => []SidesAreKept
<1>1. Init => SidesAreKept
  BY DEF Init, SidesAreKept
<1>2. ASSUME NEW a \in -128 .. 127, NEW b \in -128 .. 127, Drive(a, b)
      PROVE  SidesAreKept'
  <2>1. OnSide(a, ra') /\ OnSide(b, rb')
    BY <1>2, CoordinateKeepsSide DEF Drive
  <2> QED BY <1>2, <2>1 DEF Drive, OnSide, SidesAreKept
<1>3. SidesAreKept /\ [Next]_vars => SidesAreKept'
  <2> SUFFICES ASSUME SidesAreKept, [Next]_vars PROVE SidesAreKept'
    OBVIOUS
  <2>1. CASE \E a, b \in Coordinates : Drive(a, b)
    BY <1>2, <2>1, CoordinatesAssumption, Zenon DEF CoordinatesAssumption
  <2>2. CASE Drive(0, 0)
    BY <1>2, <2>2
  <2>3. CASE UNCHANGED vars
    BY <2>3 DEF vars, SidesAreKept
  <2> QED BY <2>1, <2>2, <2>3 DEF Next
<1> QED BY <1>1, <1>3, PTL DEF Spec

-----------------------------------------------------------------------------
(* The thrust. *)

Square(n) == n * n

\* Squares of natural numbers are in the order of the numbers.
LEMMA SquaresOrdered ==
  ASSUME NEW p \in Nat, NEW q \in Nat, p <= q
  PROVE  Square(p) \in Nat /\ Square(q) \in Nat /\ Square(p) <= Square(q)
<1>1. p * p <= p * q
  OBVIOUS
<1>2. p * q <= q * q
  OBVIOUS
<1>3. p * p \in Nat /\ p * q \in Nat /\ q * q \in Nat
  OBVIOUS
<1> QED BY <1>1, <1>2, <1>3 DEF Square

\* The numbers that have a root among the bytes; all sums of two squares are below.
Sum == {n \in Nat : n < 65536}

\* Root is the length without its fraction.
LEMMA RootIs ==
  ASSUME NEW n \in Sum
  PROVE  /\ Root(n) \in 0 .. 255
         /\ Square(Root(n)) <= n /\ n < Square(Root(n) + 1)
<1> DEFINE over == {m \in Nat : n < Square(m + 1)}
<1>1. 255 \in over
  BY DEF Sum, Square
<1>2. PICK m \in over : \A k \in over : <<k, m>> \notin OpToRel(<, Nat)
  BY <1>1, WFMin, NatLessThanWellFounded, Zenon
<1>3. Square(m) <= n
  <2>1. CASE m = 0
    BY <2>1 DEF Sum, Square
  <2>2. CASE m # 0
    <3>1. m - 1 \in Nat /\ m - 1 < m /\ (m - 1) + 1 = m
      BY <2>2
    <3>2. <<m - 1, m>> \in Nat \X Nat /\ <<m - 1, m>>[1] < <<m - 1, m>>[2]
      BY <3>1
    <3>3. m - 1 \notin over
      BY <1>2, <3>2 DEF OpToRel
    <3>4. ~(n < Square(m))
      BY <3>1, <3>3
    <3>5. Square(m) \in Nat
      BY SquaresOrdered
    <3> QED BY <3>4, <3>5 DEF Sum
  <2> QED BY <2>1, <2>2
<1>4. m \in 0 .. 255
  <2>1. SUFFICES ASSUME 256 <= m PROVE FALSE
    OBVIOUS
  <2>2. Square(256) <= Square(m) /\ Square(m) \in Nat
    BY <2>1, SquaresOrdered
  <2>3. Square(256) = 65536
    BY DEF Square
  <2> QED BY <1>3, <2>2, <2>3 DEF Sum
<1>5. n < Square(m + 1)
  OBVIOUS
<1> HIDE DEF over
<1>6. Root(n) = CHOOSE k \in 0 .. 255 : Square(k) <= n /\ n < Square(k + 1)
  BY DEF Root, Square
<1> QED BY <1>3, <1>4, <1>5, <1>6

\* The longer vector has the longer root.
LEMMA RootsOrdered ==
  ASSUME NEW p \in Sum, NEW q \in Sum, p <= q
  PROVE  Root(p) <= Root(q)
<1> DEFINE r == Root(p)
           s == Root(q)
<1>1. /\ r \in 0 .. 255 /\ Square(r) <= p
      /\ s \in 0 .. 255 /\ q < Square(s + 1)
  BY RootIs
<1> HIDE DEF r, s
<1>2. r <= s
  <2>1. SUFFICES ASSUME s + 1 <= r PROVE FALSE
    BY <1>1
  <2>2. /\ Square(s + 1) <= Square(r)
        /\ Square(r) \in Nat /\ Square(s + 1) \in Nat
    BY <1>1, <2>1, SquaresOrdered
  <2> QED BY <1>1, <2>2 DEF Sum
<1> QED BY <1>2 DEF r, s

\* The square of a coordinate.
LEMMA CoordinateSquares ==
  ASSUME NEW c \in -128 .. 127
  PROVE  /\ Size(c) \in Nat /\ Square(c) = Square(Size(c))
         /\ Square(c) \in Nat /\ Square(c) <= 16384
<1>1. Size(c) \in Nat /\ Size(c) <= 128
  BY DEF Size
<1>2. Square(c) = Square(Size(c))
  BY DEF Size, Square
<1>3. Square(Size(c)) <= Square(128) /\ Square(Size(c)) \in Nat
  BY <1>1, SquaresOrdered
<1>4. Square(128) = 16384
  BY DEF Square
<1> QED BY <1>1, <1>2, <1>3, <1>4

\* A faster motor has the longer pulse, which is never longer than the period.
LEMMA DutiesOrdered ==
  ASSUME NEW s \in 0 .. 255
  PROVE  /\ MotorDuty(s) \in Nat /\ MotorDuty(s) <= Period
         /\ \A t \in 0 .. 255 : s <= t => MotorDuty(s) <= MotorDuty(t)
BY DEF MotorDuty, Period, OffDuty

\* The thrust of a vector, and that of one which is longer in both coordinates.
LEMMA ThrustOrdered ==
  ASSUME NEW a \in -128 .. 127, NEW b \in -128 .. 127
  PROVE  /\ MotorDuty(Speed(a, b)) \in Nat /\ MotorDuty(Speed(a, b)) <= Period
         /\ \A c, d \in -128 .. 127 :
              Size(c) >= Size(a) /\ Size(d) >= Size(b) =>
                MotorDuty(Speed(c, d)) >= MotorDuty(Speed(a, b))
<1>1. ASSUME NEW c \in -128 .. 127, NEW d \in -128 .. 127
      PROVE  /\ Square(c) + Square(d) \in Sum
             /\ Speed(c, d) = Root(Square(c) + Square(d))
             /\ Speed(c, d) \in 0 .. 255
  <2>1. Square(c) + Square(d) \in Sum
    <3>1. Square(c) \in Nat /\ Square(c) <= 16384
      BY CoordinateSquares
    <3>2. Square(d) \in Nat /\ Square(d) <= 16384
      BY CoordinateSquares
    <3>3. Square(c) + Square(d) < 65536
      BY <3>1, <3>2
    <3> QED BY <3>1, <3>2, <3>3 DEF Sum
  <2>2. Root(Square(c) + Square(d)) \in 0 .. 255
    BY <2>1, RootIs
  <2>3. Speed(c, d) = Byte(Root(Square(c) + Square(d)))
    BY DEF Speed, Square
  <2> QED BY <2>1, <2>2, <2>3 DEF Byte
<1>2. MotorDuty(Speed(a, b)) \in Nat /\ MotorDuty(Speed(a, b)) <= Period
  BY <1>1, DutiesOrdered, Zenon
<1>3. ASSUME NEW c \in -128 .. 127, NEW d \in -128 .. 127,
             Size(c) >= Size(a), Size(d) >= Size(b)
      PROVE  MotorDuty(Speed(c, d)) >= MotorDuty(Speed(a, b))
  <2>1. ASSUME NEW p \in -128 .. 127, NEW q \in -128 .. 127, Size(p) <= Size(q)
        PROVE  Square(p) \in Nat /\ Square(q) \in Nat /\ Square(p) <= Square(q)
    <3>1. Size(p) \in Nat /\ Square(p) = Square(Size(p))
      BY CoordinateSquares
    <3>2. Size(q) \in Nat /\ Square(q) = Square(Size(q))
      BY CoordinateSquares
    <3> QED BY <2>1, <3>1, <3>2, SquaresOrdered
  <2>2. Size(a) <= Size(c) /\ Size(b) <= Size(d)
    <3>1. Size(a) \in Nat /\ Size(b) \in Nat /\ Size(c) \in Nat /\ Size(d) \in Nat
      BY DEF Size
    <3> QED BY <1>3, <3>1
  <2>3. Square(a) + Square(b) <= Square(c) + Square(d)
    <3>1. Square(a) \in Nat /\ Square(c) \in Nat /\ Square(a) <= Square(c)
      BY <2>1, <2>2, Zenon
    <3>2. Square(b) \in Nat /\ Square(d) \in Nat /\ Square(b) <= Square(d)
      BY <2>1, <2>2, Zenon
    <3> QED BY <3>1, <3>2
  <2>4. Speed(a, b) <= Speed(c, d)
    BY <1>1, <2>3, RootsOrdered, Zenon
  <2>5. MotorDuty(Speed(a, b)) <= MotorDuty(Speed(c, d))
    BY <1>1, <2>4, DutiesOrdered, Zenon
  <2>6. MotorDuty(Speed(a, b)) \in Nat
    BY <1>2
  <2>7. MotorDuty(Speed(c, d)) \in Nat
    <3>1. Speed(c, d) \in 0 .. 255
      BY <1>1, Zenon
    <3> QED BY <3>1, DutiesOrdered
  <2> QED BY <2>5, <2>6, <2>7
<1> QED BY <1>2, <1>3, Zenon

-----------------------------------------------------------------------------
(* The tilt. *)

\* The further to the right, the more degrees.
LEMMA DegreesOrdered ==
  ASSUME NEW c \in -128 .. 127, NEW d \in -128 .. 127, c <= d
  PROVE  Degrees(c) <= Degrees(d)
<1>1. ASSUME NEW e \in -128 .. 127
      PROVE  Degrees(e) = IF e < -90 THEN 0 ELSE 90 + e
  <2>1. CASE e < -90
    BY <2>1 DEF Degrees, Byte
  <2>2. CASE e >= -90
    <3>1. 90 + e \in 0 .. 217 /\ ~(90 + e < 0)
      BY <2>2
    <3> QED BY <2>2, <3>1 DEF Degrees, Byte
  <2> QED BY <2>1, <2>2
<1>2. Degrees(c) = IF c < -90 THEN 0 ELSE 90 + c
  BY <1>1
<1>3. Degrees(d) = IF d < -90 THEN 0 ELSE 90 + d
  BY <1>1
<1> QED BY <1>2, <1>3

\* The more degrees, the smaller the compare value, but for one tick of rounding.
LEMMA ComparesOrdered ==
  ASSUME NEW d \in 0 .. 217, NEW e \in 0 .. 217, d <= e,
         NEW r \in Compares(d), NEW s \in Compares(e)
  PROVE  s <= r + 1
<1> DEFINE cut(g) == IF g > 180 THEN 180 ELSE g
           n(g) == (3420 - cut(g)) * Rc
<1>1. ASSUME NEW g \in 0 .. 217
      PROVE  cut(g) \in 0 .. 180 /\ n(g) \in Nat /\ n(g) = 64125000 - 18750 * cut(g)
  BY DEF Rc
<1>2. cut(d) <= cut(e)
  OBVIOUS
<1>3. n(e) <= n(d)
  BY <1>1, <1>2
<1>4. r \in {n(d) \div 3600, n(d) \div 3600 - 1}
  BY DEF Compares
<1>5. s \in {n(e) \div 3600, n(e) \div 3600 - 1}
  BY DEF Compares
<1>6. n(d) \in Nat /\ n(e) \in Nat
  BY <1>1
<1> HIDE DEF n
<1>7. n(e) \div 3600 <= n(d) \div 3600
  BY <1>3, <1>6
<1> QED BY <1>4, <1>5, <1>6, <1>7

\* Who steers further to the right gets the smaller compare value, within that tick.
LEMMA TiltOrdered ==
  ASSUME NEW c \in -128 .. 127, NEW d \in -128 .. 127, c <= d,
         NEW r \in Compares(Degrees(c)), NEW s \in Compares(Degrees(d))
  PROVE  s <= r + 1
<1>1. Degrees(c) \in 0 .. 217 /\ Degrees(d) \in 0 .. 217
  BY DegreesKeepSide
<1> QED BY <1>1, DegreesOrdered, ComparesOrdered, Zenon

-----------------------------------------------------------------------------

\* The registers are those of the last coordinates: the refusal of
\* pwm_channel_update_duty, which would leave an old duty cycle, is not met.
RegistersInv ==
  /\ x \in -128 .. 127 /\ y \in -128 .. 127
  /\ duty = MotorDuty(Speed(x, y))
  /\ ra \in Compares(Degrees(x)) /\ rb \in Compares(Degrees(y))

\* The registers are right before the first command.
LEMMA RegistersInit == Init => RegistersInv
<1> SUFFICES ASSUME Init PROVE RegistersInv
  OBVIOUS
<1>1. Speed(0, 0) = 0
  <2>1. 0 \in Sum /\ 0 * 0 + 0 * 0 = 0
    BY DEF Sum
  <2>2. Root(0) \in 0 .. 255 /\ Square(Root(0)) <= 0
    BY <2>1, RootIs
  <2>3. Root(0) = 0
    <3>1. SUFFICES ASSUME 1 <= Root(0) PROVE FALSE
      BY <2>2
    <3>2. Square(1) <= Square(Root(0)) /\ Square(Root(0)) \in Nat
      <4>1. Root(0) \in Nat /\ 1 \in Nat
        BY <2>2
      <4> QED BY <3>1, <4>1, SquaresOrdered
    <3>3. Square(1) = 1
      BY DEF Square
    <3> QED BY <2>2, <3>2, <3>3
  <2> QED BY <2>1, <2>3 DEF Speed, Byte
<1>2. duty = MotorDuty(0)
  BY DEF Init, MotorDuty, OffDuty
<1>3. Centre \in Compares(Degrees(0))
  BY DEF Centre, Compares, Degrees, Byte, Rc
<1> QED BY <1>1, <1>2, <1>3 DEF Init, RegistersInv

\* A round of the loop sets them to the new coordinates.
LEMMA RegistersStep ==
  ASSUME NEW a \in -128 .. 127, NEW b \in -128 .. 127, Drive(a, b)
  PROVE  x' = a /\ y' = b /\ RegistersInv'
<1>1. MotorDuty(Speed(a, b)) \in Nat /\ MotorDuty(Speed(a, b)) <= Period
  BY ThrustOrdered, Zenon
<1>2. duty' = MotorDuty(Speed(a, b))
  BY <1>1 DEF Drive, UpdateDuty, Period
<1> QED BY <1>2 DEF Drive, RegistersInv

\* Who steers further gets no less thrust, and no less tilt within one tick
\* (task_control_loop, propeller_motor1_set_speed, servos_propeller1_inner_set_position).
THEOREM SteeringIsMonotone == Spec => MoreIsMore
<1> DEFINE More ==
      /\ Size(x') >= Size(x) /\ Size(y') >= Size(y) => duty' >= duty
      /\ x' >= x => ra' <= ra + 1
      /\ y' >= y => rb' <= rb + 1
<1>1. Init => RegistersInv
  BY RegistersInit
<1>2. ASSUME RegistersInv, NEW a \in -128 .. 127, NEW b \in -128 .. 127, Drive(a, b)
      PROVE  RegistersInv' /\ More
  <2>1. x' = a /\ y' = b /\ RegistersInv'
    BY <1>2, RegistersStep, Zenon
  <2>2. Size(x') >= Size(x) /\ Size(y') >= Size(y) => duty' >= duty
    BY <1>2, <2>1, ThrustOrdered, Zenon DEF RegistersInv
  <2>3. x' >= x => ra' <= ra + 1
    BY <1>2, <2>1, TiltOrdered, Zenon DEF RegistersInv
  <2>4. y' >= y => rb' <= rb + 1
    BY <1>2, <2>1, TiltOrdered, Zenon DEF RegistersInv
  <2> QED BY <2>1, <2>2, <2>3, <2>4
<1>3. RegistersInv /\ Next => RegistersInv' /\ More
  <2> SUFFICES ASSUME RegistersInv, Next PROVE RegistersInv' /\ More
    OBVIOUS
  <2> HIDE DEF More
  <2>1. CASE \E a, b \in Coordinates : Drive(a, b)
    BY <1>2, <2>1, CoordinatesAssumption, Zenon DEF CoordinatesAssumption
  <2>2. CASE Drive(0, 0)
    BY <1>2, <2>2
  <2> QED BY <2>1, <2>2 DEF Next
<1>4. RegistersInv /\ UNCHANGED vars => RegistersInv'
  BY DEF vars, RegistersInv
<1>5. RegistersInv /\ [Next]_vars => RegistersInv' /\ [More]_vars
  BY <1>3, <1>4
<1> HIDE DEF More
<1>6. Spec => [][More]_vars
  BY <1>1, <1>5, PTL DEF Spec
<1> QED BY <1>6 DEF MoreIsMore, More
=============================================================================
