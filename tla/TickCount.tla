----------------------------- MODULE TickCount -----------------------------
(***************************************************************************)
(* The tick count of FreeRTOS and one time-out over it, with the widths    *)
(* that FreeRTOS leaves out: xTickCount and xNumOfOverflows wrap, and      *)
(* vTaskSetTimeOutState copies them one after the other, with interrupts   *)
(* enabled, when a task calls it (tasks.c:2005).  xTaskCheckForTimeOut     *)
(* works inside a critical section.                                        *)
(***************************************************************************)
EXTENDS FreeRTOS

CONSTANTS
  TickValues,      \* values of a portTickType: 2^32
  OverflowValues,  \* values of a portBASE_TYPE: 2^32
  MaxWait          \* the longest ticks to wait that a task asks for

\* A wait of portMAX_DELAY, the last of the values, would mean for ever.
ASSUME TickAssumption ==
  /\ TickValues \in Nat /\ OverflowValues \in Nat /\ MaxWait \in Nat
  /\ MaxWait < TickValues - 1
  /\ OverflowValues > 2

Ticks == 0 .. TickValues - 1
Overflows == 0 .. OverflowValues - 1

VARIABLES
  tickCount,   \* xTickCount
  overflows,   \* xNumOfOverflows
  stampPc,     \* where the task is in its use of the time-out
  stamp,       \* the xTimeOutType
  wait,        \* the ticks to wait
  since,       \* history: ticks since the call that last wrote the stamp
  elapsed,     \* history: ticks since the task set the time-out
  asked,       \* history: the ticks to wait that it asked for
  torn         \* history: the count wrapped between the halves of the stamp

tickVars == <<tickCount, overflows, stampPc, stamp, wait, since, elapsed,
              asked, torn>>

TickInit ==
  /\ tickCount = 0 /\ overflows = 0
  /\ stampPc = "overflow"
  /\ stamp = [overflow |-> 0, entering |-> 0]
  /\ wait = 0 /\ since = 0 /\ elapsed = 0 /\ asked = 0
  /\ torn = FALSE

-----------------------------------------------------------------------------
(* vTaskSetTimeOutState, called by the task. *)

StampOverflow ==
  /\ stampPc = "overflow"
  /\ stamp' = [stamp EXCEPT !.overflow = overflows]
  /\ since' = 0
  /\ stampPc' = "entering"
  /\ UNCHANGED <<tickCount, overflows, wait, elapsed, asked, torn>>

\* The task assigns the ticks to wait after the call.
StampEntering ==
  /\ stampPc = "entering"
  /\ stamp' = [stamp EXCEPT !.entering = tickCount]
  /\ asked' \in 0 .. MaxWait
  /\ wait' = asked'
  /\ since' = 0 /\ elapsed' = 0
  /\ torn' = (stamp.overflow # overflows)
  /\ stampPc' = "running"
  /\ UNCHANGED <<tickCount, overflows>>

-----------------------------------------------------------------------------
(* xTaskCheckForTimeOut. *)

\* The difference of two portTickType values is taken modulo their width.
Passed == IF tickCount >= stamp.entering
            THEN tickCount - stamp.entering
            ELSE tickCount + TickValues - stamp.entering

\* Mutant: the overflows are not looked at.
DifferenceOnly == Passed >= wait

Expired ==
  \/ overflows # stamp.overflow /\ tickCount >= stamp.entering
  \/ Passed >= wait

\* Mutant: the ticks to wait are reduced, but counted from the old stamp.
KeepStamp ==
  /\ stampPc = "running"
  /\ ~Expired
  /\ wait' = wait - Passed
  /\ UNCHANGED <<tickCount, overflows, stampPc, stamp, since, elapsed, asked,
                 torn>>

\* pdFALSE: the stamp is renewed, inside the critical section.
Adjust ==
  /\ stampPc = "running"
  /\ ~Expired
  /\ wait' = wait - Passed
  /\ stamp' = [overflow |-> overflows, entering |-> tickCount]
  /\ since' = 0
  /\ torn' = FALSE
  /\ UNCHANGED <<tickCount, overflows, stampPc, elapsed, asked>>

\* pdTRUE: the time-out stays as it is until the task sets it again.
SetAgain ==
  /\ stampPc = "running"
  /\ Expired
  /\ stampPc' = "overflow"
  /\ UNCHANGED <<tickCount, overflows, stamp, wait, since, elapsed, asked, torn>>

-----------------------------------------------------------------------------
(* vTaskIncrementTick. *)

\* Mutant: the overflow is counted one tick early.
CountEarly ==
  overflows' = IF tickCount = TickValues - 2 THEN (overflows + 1) % OverflowValues
                                             ELSE overflows

CountOverflow ==
  overflows' = IF tickCount = TickValues - 1 THEN (overflows + 1) % OverflowValues
                                             ELSE overflows

(***************************************************************************)
(* Not more than TickValues ticks (49 days) pass from one stamp to the     *)
(* next use of the time-out.                                               *)
(***************************************************************************)
IncrementTick ==
  /\ since < TickValues
  /\ tickCount' = (tickCount + 1) % TickValues
  /\ CountOverflow
  /\ since' = since + 1
  /\ elapsed' = IF elapsed < MaxWait THEN elapsed + 1 ELSE elapsed
  /\ UNCHANGED <<stampPc, stamp, wait, asked, torn>>

TickNext ==
  \/ StampOverflow \/ StampEntering \/ Adjust \/ SetAgain
  \/ IncrementTick

TickSpec == TickInit /\ [][TickNext]_tickVars

-----------------------------------------------------------------------------
(* Properties. *)

TickTypeOK ==
  /\ tickCount \in Ticks
  /\ overflows \in Overflows
  /\ stampPc \in {"overflow", "entering", "running"}
  /\ stamp \in [overflow : Overflows, entering : Ticks]
  /\ wait \in 0 .. MaxWait
  /\ since \in 0 .. TickValues
  /\ elapsed \in 0 .. MaxWait
  /\ asked \in 0 .. MaxWait
  /\ torn \in BOOLEAN

(***************************************************************************)
(* A time-out is never late, across any number of checks that adjust it,   *)
(* and of wraps of the tick count.                                         *)
(***************************************************************************)
NeverLate == stampPc = "running" /\ elapsed >= asked => Expired

(***************************************************************************)
(* A time-out is early only if the tick count wrapped inside the call that *)
(* stamped it.                                                             *)
(***************************************************************************)
EarlyOnlyIfTorn == stampPc = "running" /\ Expired /\ elapsed < asked => torn

(***************************************************************************)
(* A time-out whose stamp is whole is the TimeOut of module FreeRTOS: the  *)
(* check expires together with it, and otherwise leaves the same ticks to  *)
(* wait.                                                                   *)
(***************************************************************************)
AsTimeOut == [since |-> IF since < wait THEN since ELSE wait, wait |-> wait]

IsTimeOut ==
  stampPc = "running" /\ ~torn =>
    /\ Expired <=> TimedOut(AsTimeOut)
    /\ ~Expired => wait - Passed = Adjusted(AsTimeOut).wait
=============================================================================
