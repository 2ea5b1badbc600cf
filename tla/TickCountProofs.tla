-------------------------- MODULE TickCountProofs --------------------------
(***************************************************************************)
(* A time-out of FreeRTOS is never late, and early only when its stamp was *)
(* torn, for all widths of the tick count and of the overflow count.       *)
(***************************************************************************)
EXTENDS TickCount, TLAPS

USE TickAssumption

(* Counting up modulo a width (tasks.c:1668, 1681).                          *)
LEMMA Wrap ==
  ASSUME NEW n \in Nat \ {0}, NEW a \in 0 .. n - 1
  PROVE  (a + 1) % n = IF a = n - 1 THEN 0 ELSE a + 1
<1>1. CASE a = n - 1
  BY <1>1
<1>2. CASE a # n - 1
  BY <1>2
<1> QED
  BY <1>1, <1>2

-----------------------------------------------------------------------------
Following(o) == IF o = OverflowValues - 1 THEN 0 ELSE o + 1

\* Between the halves of a stamp the count has wrapped once, or not at all.
Stamping ==
  stampPc = "entering" =>
    \/ overflows = stamp.overflow /\ tickCount >= since
    \/ overflows = Following(stamp.overflow) /\ tickCount < since

\* How far the counters are from a stamp that was made at overflow o.
Away(o) ==
  \/ /\ overflows = o
     /\ tickCount = stamp.entering + since
  \/ /\ overflows = Following(o)
     /\ tickCount + TickValues = stamp.entering + since

\* The stamp is since ticks old; a torn one names the overflow before.
Stamped ==
  stampPc = "running" =>
    IF torn THEN Away(Following(stamp.overflow)) ELSE Away(stamp.overflow)

\* No tick is lost, and none counted twice, when the time-out is adjusted.
Accounted ==
  stampPc = "running" =>
    /\ wait <= asked
    /\ elapsed = IF asked - wait + since < MaxWait THEN asked - wait + since
                                                   ELSE MaxWait

TickInv == TickTypeOK /\ Stamping /\ Stamped /\ Accounted

(* What the check sees of a whole stamp and of a torn one (tasks.c:2033).    *)
LEMMA ExpiredWhen ==
  ASSUME TickInv, stampPc = "running"
  PROVE  /\ Passed \in Nat
         /\ since >= wait => Expired
         /\ ~torn => (Expired <=> since >= wait)
         /\ ~Expired => Passed = since
<1> /\ tickCount \in 0 .. TickValues - 1 /\ stamp.entering \in 0 .. TickValues - 1
    /\ overflows \in 0 .. OverflowValues - 1
    /\ stamp.overflow \in 0 .. OverflowValues - 1
    /\ since \in 0 .. TickValues /\ wait \in 0 .. MaxWait
  BY DEF TickInv, TickTypeOK, Ticks, Overflows
<1>1. CASE ~torn
  BY <1>1 DEF TickInv, Stamped, Away, Following, Expired, Passed
<1>2. CASE torn
  BY <1>2 DEF TickInv, Stamped, Away, Following, Expired, Passed, TickTypeOK
<1> QED
  BY <1>1, <1>2

LEMMA TickInvInit == TickInit => TickInv
<1> SUFFICES ASSUME TickInit PROVE TickInv
  OBVIOUS
<1>1. 0 \in Ticks /\ 0 \in Overflows /\ 0 \in 0 .. MaxWait /\ 0 \in 0 .. TickValues
  BY DEF Ticks, Overflows
<1>2. TickTypeOK
  BY <1>1 DEF TickInit, TickTypeOK
<1>3. Stamping /\ Stamped /\ Accounted
  BY DEF TickInit, Stamping, Stamped, Accounted
<1> QED
  BY <1>2, <1>3 DEF TickInv

LEMMA TickInvNext == TickInv /\ [TickNext]_tickVars => TickInv'
<1> SUFFICES ASSUME TickInv, [TickNext]_tickVars PROVE TickInv'
  OBVIOUS
<1> USE DEF Ticks, Overflows
<1>t. TickTypeOK /\ TickValues > 0
  BY DEF TickInv
<1>1. CASE StampOverflow
  BY <1>1, <1>t DEF TickInv, TickTypeOK, StampOverflow, Stamping, Stamped,
    Accounted
<1>2. CASE StampEntering
  <2>1. TickTypeOK'
    BY <1>2, <1>t DEF StampEntering, TickTypeOK
  <2>2. Stamping' /\ Accounted'
    BY <1>2, <1>t DEF StampEntering, TickTypeOK, Stamping, Accounted
  <2>3. overflows \in {stamp.overflow, Following(stamp.overflow)}
    BY <1>2 DEF TickInv, Stamping, StampEntering
  <2>4. /\ stamp'.entering = tickCount /\ stamp'.overflow = stamp.overflow
        /\ UNCHANGED <<tickCount, overflows>> /\ since' = 0
        /\ torn' = (stamp.overflow # overflows)
    BY <1>2, <1>t DEF StampEntering, TickTypeOK
  <2>5. tickCount = tickCount + 0
    BY <1>t DEF TickTypeOK
  <2>6. Stamped'
    BY <2>3, <2>4, <2>5 DEF Stamped, Away, Following
  <2> QED
    BY <2>1, <2>2, <2>6 DEF TickInv
<1>3. CASE Adjust
  <2>1. /\ Passed = since /\ since < wait
    BY <1>3, <1>t, ExpiredWhen DEF Adjust, TickTypeOK
  <2>2. TickTypeOK'
    <3>1. wait - Passed \in 0 .. MaxWait
      BY <1>t, <2>1 DEF TickTypeOK
    <3>2. [overflow |-> overflows, entering |-> tickCount]
            \in [overflow : Overflows, entering : Ticks]
      BY <1>t DEF TickTypeOK
    <3>3. 0 \in 0 .. TickValues
      BY <1>t
    <3> QED
      BY <1>3, <1>t, <3>1, <3>2, <3>3 DEF Adjust, TickTypeOK
  <2>3. Stamping' /\ Stamped'
    BY <1>3, <1>t DEF Adjust, TickTypeOK, Stamping, Stamped, Away
  <2>4. Accounted'
    BY <1>3, <1>t, <2>1 DEF Adjust, TickTypeOK, TickInv, Accounted
  <2> QED
    BY <2>2, <2>3, <2>4 DEF TickInv
<1>4. CASE SetAgain
  BY <1>4, <1>t DEF TickInv, TickTypeOK, SetAgain, Stamping, Stamped, Accounted
<1>5. CASE IncrementTick
  <2>1. /\ tickCount' = IF tickCount = TickValues - 1 THEN 0 ELSE tickCount + 1
        /\ overflows' = IF tickCount = TickValues - 1 THEN Following(overflows)
                                                     ELSE overflows
    <3>1. (tickCount + 1) % TickValues = IF tickCount = TickValues - 1
                                           THEN 0 ELSE tickCount + 1
      BY <1>t, Wrap DEF TickTypeOK
    <3>2. (overflows + 1) % OverflowValues = Following(overflows)
      <4>1. /\ overflows \in 0 .. OverflowValues - 1
            /\ OverflowValues \in Nat \ {0}
        BY <1>t DEF TickTypeOK
      <4> QED
        BY <4>1, Wrap DEF Following
    <3> QED
      BY <1>5, <3>1, <3>2 DEF IncrementTick, CountOverflow
  <2>2. /\ since < TickValues /\ since' = since + 1
        /\ elapsed' = IF elapsed < MaxWait THEN elapsed + 1 ELSE elapsed
        /\ UNCHANGED <<stampPc, stamp, wait, asked, torn>>
    BY <1>5 DEF IncrementTick
  <2>3. TickTypeOK'
    BY <1>t, <2>1, <2>2 DEF TickTypeOK, Following
  <2>4. Stamping'
    BY <1>t, <2>1, <2>2 DEF TickTypeOK, TickInv, Stamping, Following
  <2>5. Stamped'
    BY <1>t, <2>1, <2>2 DEF TickTypeOK, TickInv, Stamped, Away, Following
  <2>6. Accounted'
    BY <1>t, <2>1, <2>2 DEF TickTypeOK, TickInv, Accounted
  <2> QED
    BY <2>3, <2>4, <2>5, <2>6 DEF TickInv
<1>6. CASE UNCHANGED tickVars
  BY <1>6 DEF tickVars, TickInv, TickTypeOK, Stamping, Stamped, Away, Accounted
<1> QED
  BY <1>1, <1>2, <1>3, <1>4, <1>5, <1>6 DEF TickNext

LEMMA TickInvariant == TickSpec => []TickInv
BY TickInvInit, TickInvNext, PTL DEF TickSpec

-----------------------------------------------------------------------------
(* The counters and the time-out keep their types, whatever wraps.           *)
THEOREM TickTypeCorrect == TickSpec => []TickTypeOK
BY TickInvariant, PTL DEF TickInv

(* xTaskCheckForTimeOut returns pdTRUE as soon as the ticks that the task     *)
(* asked for have passed, however often it was called in between.            *)
THEOREM TimeOutsNeverLate == TickSpec => []NeverLate
<1>1. TickInv => NeverLate
  BY ExpiredWhen DEF TickInv, TickTypeOK, Accounted, NeverLate
<1> QED
  BY <1>1, TickInvariant, PTL

(* It returns pdTRUE too soon only if vTaskSetTimeOutState was interrupted    *)
(* by the wrap of the tick count.                                            *)
THEOREM EarlyTimeOutsAreTorn == TickSpec => []EarlyOnlyIfTorn
<1>1. TickInv => EarlyOnlyIfTorn
  BY ExpiredWhen DEF TickInv, TickTypeOK, Accounted, EarlyOnlyIfTorn
<1> QED
  BY <1>1, TickInvariant, PTL

(* Otherwise a time-out is what module FreeRTOS says of it.                   *)
THEOREM WholeTimeOutsAgree == TickSpec => []IsTimeOut
<1>1. TickInv => IsTimeOut
  BY ExpiredWhen DEF TickInv, TickTypeOK, IsTimeOut, AsTimeOut, TimedOut, Adjusted
<1> QED
  BY <1>1, TickInvariant, PTL
=============================================================================
