------------------------------- MODULE Kernel -------------------------------
(***************************************************************************)
(* The part of FreeRTOS that the tasks block and wake through (tasks.c and *)
(* queue.c): the ready list and its round robin, vTaskDelay with its two   *)
(* lists and the tick count that wraps, the scheduler that is suspended    *)
(* meanwhile, and the semaphore that the interrupt of the Wi-Fi module     *)
(* gives to task_winc.                                                     *)
(*                                                                         *)
(* There is one processor.  An action is what runs between two points at   *)
(* which an interrupt makes a difference, with the context switch that     *)
(* follows it; at[t] is where task t is.  All tasks have the same          *)
(* priority.  Sleepers call vTaskDelay (task_led, task_send_status), Winc  *)
(* takes the semaphore, the others only use up their slices.               *)
(***************************************************************************)
EXTENDS Integers, Sequences, SequencesExt

CONSTANTS
  Sleepers,    \* the tasks that call vTaskDelay
  Winc,        \* task_winc
  Idle,        \* the idle task, which yields
  Busy,        \* tasks that never block (task_control_loop)
  Delay,       \* Delay[t] is the argument of t's vTaskDelay
  MaxTick,     \* portMAX_DELAY, the last value of the tick count
  MaxMissed,   \* bound: the ticks during one suspension of the scheduler
  IsrIsMasked  \* a critical section masks the interrupt of the Wi-Fi module

Tasks == Sleepers \cup Busy \cup {Winc, Idle}
Ticks == 0 .. MaxTick

ASSUME KernelAssumption ==
  /\ IsFiniteSet(Tasks)
  /\ {Winc, Idle} \cap (Sleepers \cup Busy) = {} /\ Winc # Idle
  /\ Sleepers \cap Busy = {}
  /\ MaxTick \in Nat \ {0}
  /\ Delay \in [Sleepers -> 1 .. MaxTick]
  /\ MaxMissed \in Nat
  /\ IsrIsMasked \in BOOLEAN

VARIABLES
  xTickCount,
  xNextTaskUnblockTime,
  delayed,          \* pxDelayedTaskList, in the order of insertion
  overflowed,       \* pxOverflowDelayedTaskList
  wake,             \* wake[t]: the item value of t, the time it wakes at
  ready,            \* the ready list, from the task that is next
  current,          \* pxCurrentTCB
  suspended,        \* uxSchedulerSuspended
  uxMissedTicks,
  xMissedYield,
  pending,          \* xPendingReadyList
  semaphore,        \* uxMessagesWaiting of xWINC_Semaphore is 1
  waiting,          \* task_winc is in xTasksWaitingToReceive
  xTxLock,
  woken,            \* xHigherPriorityTaskWoken of isr, which is static
  tooLate,          \* history: a give came after the last look of an unlocking at its lock
  at,
  owed              \* history: the ticks that t still has to be delayed for

tickVars == <<xTickCount, xNextTaskUnblockTime, delayed, overflowed, wake>>
runVars == <<ready, current>>
suspendVars == <<suspended, uxMissedTicks, xMissedYield>>
semaphoreVars == <<semaphore, waiting, xTxLock>>
isrVars == <<woken, tooLate>>
vars == <<tickVars, runVars, suspendVars, pending, semaphoreVars, isrVars, at, owed>>

Unlocked == -1

SleeperPc == {"run", "delay", "resume", "yield"}
WincPc == {"work", "test", "suspend", "lock", "ask", "place", "unlock", "unlocked",
           "resume", "yield", "unlockAgain", "unlockedAgain", "resumeAgain"}

\* The places where the running task has the scheduler suspended, and where it
\* is inside a critical section.
SuspendedPc(t) ==
  IF t = Winc
  THEN {"lock", "ask", "place", "unlock", "unlocked", "resume",
        "unlockAgain", "unlockedAgain", "resumeAgain"}
  ELSE {"delay", "resume"}
CriticalPc == {"unlocked", "unlockedAgain"}

Init ==
  /\ xTickCount = 0 /\ xNextTaskUnblockTime = MaxTick
  /\ delayed = <<>> /\ overflowed = <<>>
  /\ wake = [t \in Tasks |-> 0]
  /\ \E order \in SetToSeqs(Tasks) : ready = order
  /\ current = Last(ready)
  /\ suspended = FALSE /\ uxMissedTicks = 0 /\ xMissedYield = FALSE
  /\ pending = <<>>
  /\ semaphore = TRUE /\ waiting = FALSE /\ xTxLock = Unlocked
  /\ woken = FALSE /\ tooLate = FALSE
  /\ at = [t \in Tasks |-> IF t = Winc THEN "test" ELSE "run"]
  /\ owed = [t \in Sleepers |-> 0]

-----------------------------------------------------------------------------
(* Context switches and ticks. *)

\* The tasks of a list that are in tasks, in their order (uxListRemove of the others).
Only(list, tasks) ==
  LET kept[n \in 0 .. Len(list)] ==
        IF n = 0 THEN <<>>
        ELSE IF list[n] \in tasks THEN Append(kept[n - 1], list[n]) ELSE kept[n - 1]
  IN  kept[Len(list)]

\* Mutant: a switch while the scheduler is suspended.
SwitchAnyway(r) == current' = Head(r) /\ ready' = Append(Tail(r), Head(r)) /\ UNCHANGED xMissedYield

\* vTaskSwitchContext, with the list r of the ready tasks: the next one runs,
\* and the index of the list stays at it.
SwitchContext(r) ==
  IF suspended
  THEN ready' = r /\ xMissedYield' = TRUE /\ UNCHANGED current
  ELSE current' = Head(r) /\ ready' = Append(Tail(r), Head(r)) /\ UNCHANGED xMissedYield

\* The variables that a tick changes, as one value.
TickState == [count |-> xTickCount, next |-> xNextTaskUnblockTime,
              delayed |-> delayed, overflowed |-> overflowed, ready |-> ready]

FirstWake(list) ==
  IF list = <<>> THEN MaxTick
  ELSE CHOOSE w \in {wake[list[i]] : i \in DOMAIN list} :
         \A i \in DOMAIN list : w <= wake[list[i]]

\* Mutant: the lists do not change places.
CountedUnswapped(s) ==
  LET count == (s.count + 1) % (MaxTick + 1)
  IN  IF count # 0 THEN [s EXCEPT !.count = count]
      ELSE [s EXCEPT !.count = 0, !.next = FirstWake(s.delayed)]

\* The tick count is one more; when it wraps, the two lists change places.
Counted(s) ==
  LET count == (s.count + 1) % (MaxTick + 1)
  IN  IF count # 0 THEN [s EXCEPT !.count = count]
      ELSE [s EXCEPT !.count = 0, !.delayed = s.overflowed, !.overflowed = s.delayed,
                     !.next = FirstWake(s.overflowed)]

\* Mutant: with the first task, all of them are woken.
CheckedAll(s) ==
  IF s.count < s.next THEN s
  ELSE [s EXCEPT !.ready = @ \o s.delayed, !.delayed = <<>>, !.next = MaxTick]

\* prvCheckDelayedTasks
Checked(s) ==
  LET due == {t \in Tasks : wake[t] <= s.count}
      rest == Only(s.delayed, Tasks \ due)
  IN  IF s.count < s.next THEN s
      ELSE [s EXCEPT !.ready = @ \o Only(s.delayed, due),
                     !.delayed = rest, !.next = FirstWake(rest)]

\* vTaskIncrementTick n times
Incremented(s, n) ==
  LET after[k \in 0 .. n] == IF k = 0 THEN s ELSE Checked(Counted(after[k - 1]))
  IN  after[n]

Become(s) ==
  /\ xTickCount' = s.count /\ xNextTaskUnblockTime' = s.next
  /\ delayed' = s.delayed /\ overflowed' = s.overflowed

\* The tick interrupt, and the switch that it asks for.
Tick ==
  /\ at[current] \notin CriticalPc
  /\ owed' = [t \in Sleepers |-> IF owed[t] > 0 THEN owed[t] - 1 ELSE 0]
  /\ IF suspended
     THEN /\ uxMissedTicks < MaxMissed
          /\ uxMissedTicks' = uxMissedTicks + 1
          /\ SwitchContext(ready)
          /\ UNCHANGED tickVars
     ELSE LET s == Incremented(TickState, 1) IN
          /\ Become(s)
          /\ SwitchContext(s.ready)
          /\ UNCHANGED <<wake, uxMissedTicks>>
  /\ UNCHANGED <<suspended, pending, semaphoreVars, isrVars, at>>

-----------------------------------------------------------------------------
(* What the running task calls. *)

\* Task t runs and goes on from here to there.
Runs(t, here, there) ==
  /\ current = t
  /\ at[t] = here
  /\ at' = [at EXCEPT ![t] = there]

\* vTaskSuspendAll
SuspendAll == suspended' = TRUE /\ UNCHANGED <<uxMissedTicks, xMissedYield>>

\* Mutant: the ticks that were missed are not made up for.
ResumeLate(t, here, yielded, not) ==
  LET s == [TickState EXCEPT !.ready = @ \o pending]
      yield == pending # <<>> \/ uxMissedTicks > 0 \/ xMissedYield
  IN  /\ Runs(t, here, IF yield THEN yielded ELSE not)
      /\ suspended' = FALSE /\ uxMissedTicks' = 0 /\ xMissedYield' = FALSE
      /\ pending' = <<>>
      /\ Become(s)
      /\ IF yield
         THEN current' = Head(s.ready) /\ ready' = Append(Tail(s.ready), Head(s.ready))
         ELSE ready' = s.ready /\ UNCHANGED current
      /\ UNCHANGED <<wake, semaphoreVars, isrVars, owed>>

\* xTaskResumeAll: the tasks that became ready meanwhile and the ticks that were
\* missed are made up for.  It yields when there is something to yield for, and
\* its caller t goes on at yielded or, when it did not, at not.
ResumeAll(t, here, yielded, not) ==
  LET s == Incremented([TickState EXCEPT !.ready = @ \o pending], uxMissedTicks)
      yield == pending # <<>> \/ uxMissedTicks > 0 \/ xMissedYield
  IN  /\ Runs(t, here, IF yield THEN yielded ELSE not)
      /\ suspended' = FALSE /\ uxMissedTicks' = 0 /\ xMissedYield' = FALSE
      /\ pending' = <<>>
      /\ Become(s)
      /\ IF yield
         THEN current' = Head(s.ready) /\ ready' = Append(Tail(s.ready), Head(s.ready))
         ELSE ready' = s.ready /\ UNCHANGED current
      /\ UNCHANGED <<wake, semaphoreVars, isrVars, owed>>

\* portYIELD_WITHIN_API
Yield(t, there) ==
  /\ Runs(t, "yield", there)
  /\ SwitchContext(ready)
  /\ UNCHANGED <<tickVars, suspended, uxMissedTicks, pending, semaphoreVars, isrVars, owed>>

\* The idle task yields when another task is ready.
IdleYields ==
  /\ current = Idle
  /\ Len(ready) > 1
  /\ SwitchContext(ready)
  /\ UNCHANGED <<tickVars, suspended, uxMissedTicks, pending, semaphoreVars, isrVars, at, owed>>

-----------------------------------------------------------------------------
(* vTaskDelay *)

StartDelay(t) ==
  /\ Runs(t, "run", "delay")
  /\ SuspendAll
  /\ owed' = [owed EXCEPT ![t] = Delay[t]]
  /\ UNCHANGED <<tickVars, runVars, pending, semaphoreVars, isrVars>>

\* Mutant: the task stays in the ready list.
DelayStaysReady(t) ==
  LET time == (xTickCount + Delay[t]) % (MaxTick + 1) IN
  /\ Runs(t, "delay", "resume")
  /\ wake' = [wake EXCEPT ![t] = time]
  /\ delayed' = Append(delayed, t)
  /\ UNCHANGED <<xTickCount, xNextTaskUnblockTime, overflowed, runVars, suspendVars, pending,
                 semaphoreVars, isrVars, owed>>

\* Mutant: a wake time after the wrap is not told from one before it.
DelayUnsorted(t) ==
  LET time == (xTickCount + Delay[t]) % (MaxTick + 1) IN
  /\ Runs(t, "delay", "resume")
  /\ ready' = Only(ready, Tasks \ {t})
  /\ wake' = [wake EXCEPT ![t] = time]
  /\ delayed' = Append(delayed, t)
  /\ xNextTaskUnblockTime' = IF time < xNextTaskUnblockTime THEN time ELSE xNextTaskUnblockTime
  /\ UNCHANGED <<xTickCount, overflowed, current, suspendVars, pending, semaphoreVars,
                 isrVars, owed>>

\* The task leaves the ready list and enters the list for its wake time
\* (prvAddCurrentTaskToDelayedList).
DelayCurrent(t) ==
  LET time == (xTickCount + Delay[t]) % (MaxTick + 1) IN
  /\ Runs(t, "delay", "resume")
  /\ ready' = Only(ready, Tasks \ {t})
  /\ wake' = [wake EXCEPT ![t] = time]
  /\ IF time < xTickCount
     THEN /\ overflowed' = Append(overflowed, t)
          /\ UNCHANGED <<delayed, xNextTaskUnblockTime>>
     ELSE /\ delayed' = Append(delayed, t)
          /\ xNextTaskUnblockTime' =
               IF time < xNextTaskUnblockTime THEN time ELSE xNextTaskUnblockTime
          /\ UNCHANGED overflowed
  /\ UNCHANGED <<xTickCount, current, suspendVars, pending, semaphoreVars, isrVars, owed>>

Sleep(t) ==
  \/ StartDelay(t)
  \/ DelayCurrent(t)
  \/ ResumeAll(t, "resume", "run", "yield")
  \/ Yield(t, "run")

-----------------------------------------------------------------------------
(* xSemaphoreTake, which is xQueueGenericReceive with an endless block time. *)

Unchanged == UNCHANGED <<tickVars, pending, isrVars, owed>>

\* The events are handled, and the task comes for the semaphore again.
Work ==
  /\ Runs(Winc, "work", "test")
  /\ UNCHANGED <<runVars, suspendVars, semaphoreVars>> /\ Unchanged

Test ==
  /\ Runs(Winc, "test", IF semaphore THEN "work" ELSE "suspend")
  /\ semaphore' = FALSE
  /\ UNCHANGED <<runVars, suspendVars, waiting, xTxLock>> /\ Unchanged

Suspend ==
  /\ Runs(Winc, "suspend", "lock")
  /\ SuspendAll
  /\ UNCHANGED <<runVars, semaphoreVars>> /\ Unchanged

\* prvLockQueue
Lock ==
  /\ Runs(Winc, "lock", "ask")
  /\ xTxLock' = IF xTxLock = Unlocked THEN 0 ELSE xTxLock
  /\ UNCHANGED <<runVars, suspendVars, semaphore, waiting>> /\ Unchanged

\* prvIsQueueEmpty
Ask ==
  /\ Runs(Winc, "ask", IF semaphore THEN "unlockAgain" ELSE "place")
  /\ UNCHANGED <<runVars, suspendVars, semaphoreVars>> /\ Unchanged

\* vTaskPlaceOnEventList: the task enters the list of those that wait for the
\* semaphore and leaves the ready list for xSuspendedTaskList.
Place ==
  /\ Runs(Winc, "place", "unlock")
  /\ waiting' = TRUE
  /\ ready' = Only(ready, Tasks \ {Winc})
  /\ UNCHANGED <<current, suspendVars, semaphore, xTxLock>> /\ Unchanged

\* xTaskRemoveFromEventList: a task in the list is taken out and becomes ready,
\* at once or when the scheduler is resumed.
RemoveFromEventList ==
  /\ waiting' = FALSE
  /\ pending' = IF waiting /\ suspended THEN Append(pending, Winc) ELSE pending

\* Mutant: nobody looks at what was posted while the queue was locked.
UnlockBlindly(here, there) ==
  /\ Runs(Winc, here, there)
  /\ UNCHANGED <<runVars, suspendVars, semaphoreVars>> /\ Unchanged

\* prvUnlockQueue up to the end of its loop.
Unlock(here, there) ==
  /\ Runs(Winc, here, there)
  /\ IF xTxLock > 0 /\ waiting
     THEN RemoveFromEventList /\ xMissedYield' = TRUE /\ xTxLock' = xTxLock - 1
     ELSE UNCHANGED <<waiting, pending, xMissedYield, xTxLock>>
  /\ UNCHANGED <<tickVars, runVars, suspended, uxMissedTicks, semaphore, isrVars, owed>>

Unlocks(here, there) ==
  /\ Runs(Winc, here, there)
  /\ xTxLock' = Unlocked
  /\ UNCHANGED <<runVars, suspendVars, semaphore, waiting>> /\ Unchanged

TakeSemaphore ==
  \/ Test \/ Suspend \/ Lock \/ Ask \/ Place
  \/ Unlock("unlock", "unlocked") \/ Unlocks("unlocked", "resume")
  \/ ResumeAll(Winc, "resume", "test", "yield")
  \/ Yield(Winc, "test")
  \/ Unlock("unlockAgain", "unlockedAgain") \/ Unlocks("unlockedAgain", "resumeAgain")
  \/ ResumeAll(Winc, "resumeAgain", "test", "test")

-----------------------------------------------------------------------------
(* isr, which calls xSemaphoreGiveFromISR. *)

\* A give that is counted, but not seen any more: prvUnlockQueue has left its
\* loop and is about to reset the lock.
ComesTooLate == at[Winc] \in CriticalPc /\ waiting /\ ~semaphore

\* Mutant: a give is not counted while the queue is locked.
IsrUncounted ==
  /\ IsrIsMasked => at[current] \notin CriticalPc
  /\ semaphore' = TRUE
  /\ IF semaphore \/ xTxLock # Unlocked THEN UNCHANGED <<waiting, pending, xTxLock, woken>>
     ELSE RemoveFromEventList /\ woken' = (woken \/ waiting) /\ UNCHANGED xTxLock
  /\ LET r == IF ~semaphore /\ xTxLock = Unlocked /\ waiting /\ ~suspended
              THEN Append(ready, Winc) ELSE ready
     IN  IF woken' THEN SwitchContext(r)
         ELSE ready' = r /\ UNCHANGED <<current, xMissedYield>>
  /\ tooLate' = (tooLate \/ ComesTooLate)
  /\ UNCHANGED <<tickVars, suspended, uxMissedTicks, at, owed>>

\* The first give that wakes task_winc sets the flag of isr, which is never
\* cleared: from then on every interrupt yields.
Isr ==
  /\ IsrIsMasked => at[current] \notin CriticalPc
  /\ semaphore' = TRUE
  /\ IF semaphore THEN UNCHANGED <<waiting, pending, xTxLock, woken>>
     ELSE IF xTxLock # Unlocked
     THEN xTxLock' = xTxLock + 1 /\ UNCHANGED <<waiting, pending, woken>>
     ELSE RemoveFromEventList /\ woken' = (woken \/ waiting) /\ UNCHANGED xTxLock
  /\ LET r == IF ~semaphore /\ xTxLock = Unlocked /\ waiting /\ ~suspended
              THEN Append(ready, Winc) ELSE ready
     IN  IF woken' THEN SwitchContext(r)
         ELSE ready' = r /\ UNCHANGED <<current, xMissedYield>>
  /\ tooLate' = (tooLate \/ ComesTooLate)
  /\ UNCHANGED <<tickVars, suspended, uxMissedTicks, at, owed>>

-----------------------------------------------------------------------------
WincStep == Work \/ TakeSemaphore

Next ==
  \/ Tick
  \/ \E t \in Sleepers : Sleep(t)
  \/ WincStep
  \/ IdleYields
  \/ Isr

Spec == Init /\ [][Next]_vars

\* Time goes on (a tick during a critical section waits for its end), and a task
\* that is given the processor again and again gets something done: a slice is a
\* millisecond long, and interrupts are rare.
Fairness ==
  /\ SF_vars(Tick)
  /\ \A t \in Sleepers : SF_vars(Sleep(t))
  /\ SF_vars(WincStep)

FairSpec == Spec /\ Fairness

-----------------------------------------------------------------------------
Holds(s, t) == \E i \in DOMAIN s : s[i] = t

\* A task that has suspended the scheduler is the one that runs, so there is only
\* one of them, and the scheduler is suspended for as long as a task relies on it:
\* vTaskDelay, prvUnlockQueue and xTaskResumeAll change lists with nothing else
\* to protect them (THIS FUNCTION MUST BE CALLED WITH THE SCHEDULER SUSPENDED,
\* queue.c:1292).
SuspensionExcludes ==
  /\ \A t \in Sleepers \cup {Winc} : at[t] \in SuspendedPc(t) => suspended /\ current = t
  /\ suspended => at[current] \in SuspendedPc(current)

\* A task is in one list, once: ready, delayed before or after the wrap of the
\* tick count, pending, or waiting for the semaphore without being any of these.
\* Only the running task is in none of them for a moment, while it resumes the
\* scheduler.  (uxListRemove and vListInsert of vTaskDelay, vTaskPlaceOnEventList,
\* xTaskRemoveFromEventList and prvCheckDelayedTasks, tasks.c.)
OneListEach ==
  LET lists == ready \o delayed \o overflowed \o pending IN
  /\ \A i, j \in DOMAIN lists : lists[i] = lists[j] => i = j
  /\ waiting => ~Holds(lists, Winc)
  /\ \A t \in Tasks : Holds(lists, t) \/ (t = Winc /\ waiting)

\* The delay lists are sorted by the wrap: what is in pxDelayedTaskList wakes
\* later in this round of the tick count, and what is in the other list wakes in
\* the next round, before a whole round has passed; when the count wraps the
\* first list is empty, which vTaskIncrementTick asserts (tasks.c:1676).  And
\* the time that the tick interrupt compares with is not later than any of them,
\* so that no task is overlooked.
DelayedBeforeWrap ==
  /\ \A t \in ToSet(delayed) :
       /\ wake[t] > xTickCount
       /\ xNextTaskUnblockTime <= wake[t]
  /\ \A t \in ToSet(overflowed) : wake[t] < xTickCount

\* vTaskDelay delays for the ticks it was asked for: a task that is in a delay
\* list still has ticks to wait while the scheduler runs, however long it was
\* suspended (xTaskResumeAll makes up for the ticks that were missed).
NeverLate ==
  ~suspended =>
    \A t \in ToSet(delayed) \cup ToSet(overflowed) : owed[t] > 0

\* A task leaves the delay lists only when the ticks it was asked for have passed.
Asleep(t) == Holds(delayed, t) \/ Holds(overflowed, t)
NeverEarly ==
  [][\A t \in Sleepers : Asleep(t) /\ ~Asleep(t)' => owed'[t] = 0]_vars

\* task_winc never sleeps on a given semaphore: when it waits and the semaphore
\* was given, the lock of the queue has counted it, and the task that unlocks
\* the queue wakes it (xQueueGenericSendFromISR, prvUnlockQueue).
NoLostWakeup == waiting /\ semaphore => xTxLock > 0

\* A task that was delayed runs again: the tick interrupt makes it ready in the
\* end, and the tasks of its priority give way to it (vTaskSwitchContext).
DelaysEnd == \A t \in Sleepers : Asleep(t) ~> current = t

\* The interrupt and task_winc use the queue as a binary semaphore, which no
\* give is lost on: HostInterface takes it for one.
S == INSTANCE BinarySemaphore WITH given <- semaphore, working <- at[Winc] = "work"
IsBinarySemaphore == S!Spec
=============================================================================
