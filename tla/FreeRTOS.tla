------------------------------ MODULE FreeRTOS ------------------------------
(***************************************************************************)
(* The services of FreeRTOS 7.3.0 that the tasks of the robot call: the    *)
(* queues of one item (queue.c) and the time-outs (tasks.c).               *)
(*                                                                         *)
(* Every queue function touches the queue inside one critical section, so  *)
(* each operator below is used in a single atomic step.  No task of the    *)
(* robot blocks on a queue: every call passes a block time of 0.           *)
(***************************************************************************)
EXTENDS Naturals, Sequences

\* The length given to xQueueCreate for the control, settings and name queues.
QueueLength == 1

-----------------------------------------------------------------------------
(* Queues, as sequences of at most QueueLength items. *)

\* xQueueReset always returns pdPASS.
QueueReset == <<>>

CanSend(q) == Len(q) < QueueLength

\* A send that does not block leaves a full queue alone (errQUEUE_FULL).
SendToBack(q, item) == IF CanSend(q) THEN Append(q, item) ELSE q

CanReceive(q) == q # <<>>

\* xQueuePeek copies the item and leaves it; xQueueReceive removes it too.
Peek(q) == Head(q)
Received(q) == Tail(q)

-----------------------------------------------------------------------------
(***************************************************************************)
(* A time-out is the pair of an xTimeOutType (here the number of ticks     *)
(* since it was stamped) and of the ticks still to wait.  The count stops  *)
(* at the ticks to wait: the code only compares the two.                   *)
(***************************************************************************)
TimeOut(maxWait) == [since : 0 .. maxWait, wait : 0 .. maxWait]

\* vTaskSetTimeOutState, and the ticks to wait that the caller assigns.
SetTimeOut(wait) == [since |-> 0, wait |-> wait]

\* xTaskCheckForTimeOut returns pdTRUE and leaves the time-out as it is ...
TimedOut(t) == t.since >= t.wait

\* ... or returns pdFALSE, reduces the ticks to wait and stamps it again.
Adjusted(t) == [since |-> 0, wait |-> t.wait - t.since]

\* One tick interrupt (vTaskIncrementTick).
Elapse(t) == [t EXCEPT !.since = IF @ < t.wait THEN @ + 1 ELSE @]

Remaining(t) == t.wait - t.since
=============================================================================
