---------------------------- MODULE KernelProofs ----------------------------
(***************************************************************************)
(* Proofs about Kernel, for every number of tasks, every delay and every   *)
(* number of missed ticks: a suspended scheduler excludes the other tasks, *)
(* a wake-up of task_winc is lost only to a give that comes at the end of  *)
(* prvUnlockQueue, every task is in one list, and no delay ends early or   *)
(* late.                                                                   *)
(***************************************************************************)
EXTENDS Kernel, TLAPS, WellFoundedInduction, FiniteSetTheorems

\* Where xSemaphoreTake has the queue locked.
LockedPc == {"ask", "place", "unlock", "unlocked", "unlockAgain", "unlockedAgain"}

\* What the argument needs of the types.
PcTypeOK ==
  /\ at \in [Tasks -> WincPc \cup SleeperPc]
  /\ suspended \in BOOLEAN
  /\ xTxLock \in Nat \cup {Unlocked}
  /\ semaphore \in BOOLEAN /\ waiting \in BOOLEAN

\* A locked queue counts the gives: the task that found it empty and is about to
\* wait will find the count, and at the end of the unlocking nobody waits for a
\* give that was counted, unless it came too late, which a mask excludes.
LockInv ==
  /\ at[Winc] \in LockedPc => xTxLock \in Nat
  /\ at[Winc] = "place" /\ semaphore => xTxLock > 0
  /\ at[Winc] \in CriticalPc => tooLate \/ ~(waiting /\ semaphore)
  /\ tooLate => ~IsrIsMasked

SuspensionInv == PcTypeOK /\ SuspensionExcludes
WakeupInv == SuspensionInv /\ LockInv /\ (NoLostWakeup \/ tooLate)

USE DEF Unlocked

-----------------------------------------------------------------------------
(* The scheduler is suspended by the running task. *)

\* A step of a task, as far as the suspension is concerned: it was running, and
\* it has the scheduler suspended after the step if and only if its place says so.
LEMMA TaskStepExcludes ==
  ASSUME SuspensionInv,
         NEW t \in Sleepers \cup {Winc}, NEW there,
         current = t,
         there \in WincPc \cup SleeperPc,
         at' = [at EXCEPT ![t] = there],
         suspended' <=> there \in SuspendedPc(t),
         suspended' => current' = t
  PROVE  SuspensionExcludes' /\ at' \in [Tasks -> WincPc \cup SleeperPc]
<1>1. t \in Tasks BY DEF Tasks
<1>2. at' \in [Tasks -> WincPc \cup SleeperPc]
  BY <1>1 DEF SuspensionInv, PcTypeOK
<1>3. at'[t] = there
  BY <1>1 DEF SuspensionInv, PcTypeOK
<1>4. ASSUME NEW u \in Sleepers \cup {Winc}, at'[u] \in SuspendedPc(u)
      PROVE  suspended' /\ current' = u
  <2>1. CASE u = t
    BY <1>3, <1>4, <2>1
  <2>2. CASE u # t
    <3>1. at'[u] = at[u]
      BY <2>2 DEF SuspensionInv, PcTypeOK, Tasks
    <3> QED BY <1>4, <2>2, <3>1 DEF SuspensionInv, SuspensionExcludes
  <2> QED BY <2>1, <2>2
<1>5. ASSUME suspended' PROVE at'[current'] \in SuspendedPc(current')
  BY <1>3, <1>5
<1> QED BY <1>2, <1>4, <1>5 DEF SuspensionExcludes, SuspendedPc

\* A step that moves no task: a switch happens only when the scheduler runs.
LEMMA SwitchExcludes ==
  ASSUME SuspensionInv,
         at' = at, suspended' = suspended,
         suspended => current' = current
  PROVE  SuspensionExcludes' /\ at' \in [Tasks -> WincPc \cup SleeperPc]
BY DEF SuspensionInv, PcTypeOK, SuspensionExcludes, SuspendedPc

\* StartDelay(t) keeps the suspension to the running task.
LEMMA StartDelayExcludes ==
  ASSUME KernelAssumption, SuspensionInv, NEW t \in Sleepers, StartDelay(t)
  PROVE  SuspensionInv'
<1> DEFINE there == "delay"
<1>1. /\ current = t /\ at' = [at EXCEPT ![t] = there]
      /\ there \in WincPc \cup SleeperPc
      /\ suspended' => current' = current
  BY DEF StartDelay, SuspendAll, Runs, tickVars, runVars, suspendVars, semaphoreVars, WincPc, SleeperPc
<1>2. suspended' = (there \in SuspendedPc(t))
  <2>1. t \in Sleepers \cup {Winc} /\ (t = Winc <=> t \notin Sleepers)
    BY DEF KernelAssumption
  <2>2. at[t] \in SuspendedPc(t) <=> suspended
    BY <1>1, <2>1 DEF SuspensionInv, SuspensionExcludes
  <2> QED BY <1>1, <2>1, <2>2 DEF StartDelay, SuspendAll, Runs, SuspendedPc, tickVars, runVars, suspendVars, semaphoreVars, SuspensionInv, PcTypeOK
<1>3. SuspensionExcludes' /\ at' \in [Tasks -> WincPc \cup SleeperPc]
  <2> HIDE DEF there
  <2> QED BY <1>1, <1>2, TaskStepExcludes
<1>4. suspended' \in BOOLEAN /\ semaphore' \in BOOLEAN /\ waiting' \in BOOLEAN
  BY DEF StartDelay, SuspendAll, Runs, tickVars, runVars, suspendVars, semaphoreVars, SuspensionInv, PcTypeOK
<1>5. xTxLock' \in Nat \cup {Unlocked}
  BY DEF StartDelay, SuspendAll, Runs, tickVars, runVars, suspendVars, semaphoreVars, SuspensionInv, PcTypeOK
<1> QED BY <1>3, <1>4, <1>5 DEF SuspensionInv, PcTypeOK

\* DelayCurrent(t) keeps the suspension to the running task.
LEMMA DelayCurrentExcludes ==
  ASSUME KernelAssumption, SuspensionInv, NEW t \in Sleepers, DelayCurrent(t)
  PROVE  SuspensionInv'
<1> DEFINE there == "resume"
<1>1. /\ current = t /\ at' = [at EXCEPT ![t] = there]
      /\ there \in WincPc \cup SleeperPc
      /\ suspended' => current' = current
  BY DEF DelayCurrent, Runs, tickVars, runVars, suspendVars, semaphoreVars, WincPc, SleeperPc
<1>2. suspended' = (there \in SuspendedPc(t))
  <2>1. t \in Sleepers \cup {Winc} /\ (t = Winc <=> t \notin Sleepers)
    BY DEF KernelAssumption
  <2>2. at[t] \in SuspendedPc(t) <=> suspended
    BY <1>1, <2>1 DEF SuspensionInv, SuspensionExcludes
  <2> QED BY <1>1, <2>1, <2>2 DEF DelayCurrent, Runs, SuspendedPc, tickVars, runVars, suspendVars, semaphoreVars, SuspensionInv, PcTypeOK
<1>3. SuspensionExcludes' /\ at' \in [Tasks -> WincPc \cup SleeperPc]
  <2> HIDE DEF there
  <2> QED BY <1>1, <1>2, TaskStepExcludes
<1>4. suspended' \in BOOLEAN /\ semaphore' \in BOOLEAN /\ waiting' \in BOOLEAN
  BY DEF DelayCurrent, Runs, tickVars, runVars, suspendVars, semaphoreVars, SuspensionInv, PcTypeOK
<1>5. xTxLock' \in Nat \cup {Unlocked}
  BY DEF DelayCurrent, Runs, tickVars, runVars, suspendVars, semaphoreVars, SuspensionInv, PcTypeOK
<1> QED BY <1>3, <1>4, <1>5 DEF SuspensionInv, PcTypeOK

\* Yield(t, "run") keeps the suspension to the running task.
LEMMA SleeperYieldExcludes ==
  ASSUME KernelAssumption, SuspensionInv, NEW t \in Sleepers, Yield(t, "run")
  PROVE  SuspensionInv'
<1> DEFINE there == "run"
<1>1. /\ current = t /\ at' = [at EXCEPT ![t] = there]
      /\ there \in WincPc \cup SleeperPc
      /\ suspended' => current' = current
  BY DEF Yield, Runs, tickVars, runVars, suspendVars, semaphoreVars, SwitchContext, WincPc, SleeperPc
<1>2. suspended' = (there \in SuspendedPc(t))
  <2>1. t \in Sleepers \cup {Winc} /\ (t = Winc <=> t \notin Sleepers)
    BY DEF KernelAssumption
  <2>2. at[t] \in SuspendedPc(t) <=> suspended
    BY <1>1, <2>1 DEF SuspensionInv, SuspensionExcludes
  <2> QED BY <1>1, <2>1, <2>2 DEF Yield, Runs, SuspendedPc, tickVars, runVars, suspendVars, semaphoreVars, SuspensionInv, PcTypeOK, SwitchContext
<1>3. SuspensionExcludes' /\ at' \in [Tasks -> WincPc \cup SleeperPc]
  <2> HIDE DEF there
  <2> QED BY <1>1, <1>2, TaskStepExcludes
<1>4. suspended' \in BOOLEAN /\ semaphore' \in BOOLEAN /\ waiting' \in BOOLEAN
  BY DEF Yield, Runs, tickVars, runVars, suspendVars, semaphoreVars, SuspensionInv, PcTypeOK, SwitchContext
<1>5. xTxLock' \in Nat \cup {Unlocked}
  BY DEF Yield, Runs, tickVars, runVars, suspendVars, semaphoreVars, SuspensionInv, PcTypeOK, SwitchContext
<1> QED BY <1>3, <1>4, <1>5 DEF SuspensionInv, PcTypeOK

\* Work keeps the suspension to the running task.
LEMMA WorkExcludes ==
  ASSUME KernelAssumption, SuspensionInv, Work
  PROVE  SuspensionInv'
<1> DEFINE there == "test"
<1>1. /\ current = Winc /\ at' = [at EXCEPT ![Winc] = there]
      /\ there \in WincPc \cup SleeperPc
      /\ suspended' => current' = current
  BY DEF Work, Runs, Unchanged, tickVars, runVars, suspendVars, semaphoreVars, WincPc, SleeperPc
<1>2. suspended' = (there \in SuspendedPc(Winc))
  <2>1. Winc \in Sleepers \cup {Winc} /\ (Winc = Winc <=> Winc \notin Sleepers)
    BY DEF KernelAssumption
  <2>2. at[Winc] \in SuspendedPc(Winc) <=> suspended
    BY <1>1, <2>1 DEF SuspensionInv, SuspensionExcludes
  <2> QED BY <1>1, <2>1, <2>2 DEF Work, Runs, SuspendedPc, Unchanged, tickVars, runVars, suspendVars, semaphoreVars, SuspensionInv, PcTypeOK
<1>3. SuspensionExcludes' /\ at' \in [Tasks -> WincPc \cup SleeperPc]
  <2> HIDE DEF there
  <2> QED BY <1>1, <1>2, TaskStepExcludes
<1>4. suspended' \in BOOLEAN /\ semaphore' \in BOOLEAN /\ waiting' \in BOOLEAN
  BY DEF Work, Runs, Unchanged, tickVars, runVars, suspendVars, semaphoreVars, SuspensionInv, PcTypeOK
<1>5. xTxLock' \in Nat \cup {Unlocked}
  BY DEF Work, Runs, Unchanged, tickVars, runVars, suspendVars, semaphoreVars, SuspensionInv, PcTypeOK
<1> QED BY <1>3, <1>4, <1>5 DEF SuspensionInv, PcTypeOK

\* Test keeps the suspension to the running task.
LEMMA TestExcludes ==
  ASSUME KernelAssumption, SuspensionInv, Test
  PROVE  SuspensionInv'
<1> DEFINE there == IF semaphore THEN "work" ELSE "suspend"
<1>1. /\ current = Winc /\ at' = [at EXCEPT ![Winc] = there]
      /\ there \in WincPc \cup SleeperPc
      /\ suspended' => current' = current
  BY DEF Test, Runs, Unchanged, tickVars, runVars, suspendVars, semaphoreVars, WincPc, SleeperPc
<1>2. suspended' = (there \in SuspendedPc(Winc))
  <2>1. Winc \in Sleepers \cup {Winc} /\ (Winc = Winc <=> Winc \notin Sleepers)
    BY DEF KernelAssumption
  <2>2. at[Winc] \in SuspendedPc(Winc) <=> suspended
    BY <1>1, <2>1 DEF SuspensionInv, SuspensionExcludes
  <2> QED BY <1>1, <2>1, <2>2 DEF Test, Runs, SuspendedPc, Unchanged, tickVars, runVars, suspendVars, semaphoreVars, SuspensionInv, PcTypeOK
<1>3. SuspensionExcludes' /\ at' \in [Tasks -> WincPc \cup SleeperPc]
  <2> HIDE DEF there
  <2> QED BY <1>1, <1>2, TaskStepExcludes
<1>4. suspended' \in BOOLEAN /\ semaphore' \in BOOLEAN /\ waiting' \in BOOLEAN
  BY DEF Test, Runs, Unchanged, tickVars, runVars, suspendVars, semaphoreVars, SuspensionInv, PcTypeOK
<1>5. xTxLock' \in Nat \cup {Unlocked}
  BY DEF Test, Runs, Unchanged, tickVars, runVars, suspendVars, semaphoreVars, SuspensionInv, PcTypeOK
<1> QED BY <1>3, <1>4, <1>5 DEF SuspensionInv, PcTypeOK

\* Suspend keeps the suspension to the running task.
LEMMA SuspendExcludes ==
  ASSUME KernelAssumption, SuspensionInv, Suspend
  PROVE  SuspensionInv'
<1> DEFINE there == "lock"
<1>1. /\ current = Winc /\ at' = [at EXCEPT ![Winc] = there]
      /\ there \in WincPc \cup SleeperPc
      /\ suspended' => current' = current
  BY DEF Suspend, SuspendAll, Runs, Unchanged, tickVars, runVars, suspendVars, semaphoreVars, WincPc, SleeperPc
<1>2. suspended' = (there \in SuspendedPc(Winc))
  <2>1. Winc \in Sleepers \cup {Winc} /\ (Winc = Winc <=> Winc \notin Sleepers)
    BY DEF KernelAssumption
  <2>2. at[Winc] \in SuspendedPc(Winc) <=> suspended
    BY <1>1, <2>1 DEF SuspensionInv, SuspensionExcludes
  <2> QED BY <1>1, <2>1, <2>2 DEF Suspend, SuspendAll, Runs, SuspendedPc, Unchanged, tickVars, runVars, suspendVars, semaphoreVars, SuspensionInv, PcTypeOK
<1>3. SuspensionExcludes' /\ at' \in [Tasks -> WincPc \cup SleeperPc]
  <2> HIDE DEF there
  <2> QED BY <1>1, <1>2, TaskStepExcludes
<1>4. suspended' \in BOOLEAN /\ semaphore' \in BOOLEAN /\ waiting' \in BOOLEAN
  BY DEF Suspend, SuspendAll, Runs, Unchanged, tickVars, runVars, suspendVars, semaphoreVars, SuspensionInv, PcTypeOK
<1>5. xTxLock' \in Nat \cup {Unlocked}
  BY DEF Suspend, SuspendAll, Runs, Unchanged, tickVars, runVars, suspendVars, semaphoreVars, SuspensionInv, PcTypeOK
<1> QED BY <1>3, <1>4, <1>5 DEF SuspensionInv, PcTypeOK

\* Lock keeps the suspension to the running task.
LEMMA LockExcludes ==
  ASSUME KernelAssumption, SuspensionInv, Lock
  PROVE  SuspensionInv'
<1> DEFINE there == "ask"
<1>1. /\ current = Winc /\ at' = [at EXCEPT ![Winc] = there]
      /\ there \in WincPc \cup SleeperPc
      /\ suspended' => current' = current
  BY DEF Lock, Runs, Unchanged, tickVars, runVars, suspendVars, semaphoreVars, WincPc, SleeperPc
<1>2. suspended' = (there \in SuspendedPc(Winc))
  <2>1. Winc \in Sleepers \cup {Winc} /\ (Winc = Winc <=> Winc \notin Sleepers)
    BY DEF KernelAssumption
  <2>2. at[Winc] \in SuspendedPc(Winc) <=> suspended
    BY <1>1, <2>1 DEF SuspensionInv, SuspensionExcludes
  <2> QED BY <1>1, <2>1, <2>2 DEF Lock, Runs, SuspendedPc, Unchanged, tickVars, runVars, suspendVars, semaphoreVars, SuspensionInv, PcTypeOK
<1>3. SuspensionExcludes' /\ at' \in [Tasks -> WincPc \cup SleeperPc]
  <2> HIDE DEF there
  <2> QED BY <1>1, <1>2, TaskStepExcludes
<1>4. suspended' \in BOOLEAN /\ semaphore' \in BOOLEAN /\ waiting' \in BOOLEAN
  BY DEF Lock, Runs, Unchanged, tickVars, runVars, suspendVars, semaphoreVars, SuspensionInv, PcTypeOK
<1>5. xTxLock' \in Nat \cup {Unlocked}
  BY DEF Lock, Runs, Unchanged, tickVars, runVars, suspendVars, semaphoreVars, SuspensionInv, PcTypeOK
<1> QED BY <1>3, <1>4, <1>5 DEF SuspensionInv, PcTypeOK

\* Ask keeps the suspension to the running task.
LEMMA AskExcludes ==
  ASSUME KernelAssumption, SuspensionInv, Ask
  PROVE  SuspensionInv'
<1> DEFINE there == IF semaphore THEN "unlockAgain" ELSE "place"
<1>1. /\ current = Winc /\ at' = [at EXCEPT ![Winc] = there]
      /\ there \in WincPc \cup SleeperPc
      /\ suspended' => current' = current
  BY DEF Ask, Runs, Unchanged, tickVars, runVars, suspendVars, semaphoreVars, WincPc, SleeperPc
<1>2. suspended' = (there \in SuspendedPc(Winc))
  <2>1. Winc \in Sleepers \cup {Winc} /\ (Winc = Winc <=> Winc \notin Sleepers)
    BY DEF KernelAssumption
  <2>2. at[Winc] \in SuspendedPc(Winc) <=> suspended
    BY <1>1, <2>1 DEF SuspensionInv, SuspensionExcludes
  <2> QED BY <1>1, <2>1, <2>2 DEF Ask, Runs, SuspendedPc, Unchanged, tickVars, runVars, suspendVars, semaphoreVars, SuspensionInv, PcTypeOK
<1>3. SuspensionExcludes' /\ at' \in [Tasks -> WincPc \cup SleeperPc]
  <2> HIDE DEF there
  <2> QED BY <1>1, <1>2, TaskStepExcludes
<1>4. suspended' \in BOOLEAN /\ semaphore' \in BOOLEAN /\ waiting' \in BOOLEAN
  BY DEF Ask, Runs, Unchanged, tickVars, runVars, suspendVars, semaphoreVars, SuspensionInv, PcTypeOK
<1>5. xTxLock' \in Nat \cup {Unlocked}
  BY DEF Ask, Runs, Unchanged, tickVars, runVars, suspendVars, semaphoreVars, SuspensionInv, PcTypeOK
<1> QED BY <1>3, <1>4, <1>5 DEF SuspensionInv, PcTypeOK

\* Place keeps the suspension to the running task.
LEMMA PlaceExcludes ==
  ASSUME KernelAssumption, SuspensionInv, Place
  PROVE  SuspensionInv'
<1> DEFINE there == "unlock"
<1>1. /\ current = Winc /\ at' = [at EXCEPT ![Winc] = there]
      /\ there \in WincPc \cup SleeperPc
      /\ suspended' => current' = current
  BY DEF Place, Runs, Unchanged, tickVars, runVars, suspendVars, semaphoreVars, WincPc, SleeperPc
<1>2. suspended' = (there \in SuspendedPc(Winc))
  <2>1. Winc \in Sleepers \cup {Winc} /\ (Winc = Winc <=> Winc \notin Sleepers)
    BY DEF KernelAssumption
  <2>2. at[Winc] \in SuspendedPc(Winc) <=> suspended
    BY <1>1, <2>1 DEF SuspensionInv, SuspensionExcludes
  <2> QED BY <1>1, <2>1, <2>2 DEF Place, Runs, SuspendedPc, Unchanged, tickVars, runVars, suspendVars, semaphoreVars, SuspensionInv, PcTypeOK
<1>3. SuspensionExcludes' /\ at' \in [Tasks -> WincPc \cup SleeperPc]
  <2> HIDE DEF there
  <2> QED BY <1>1, <1>2, TaskStepExcludes
<1>4. suspended' \in BOOLEAN /\ semaphore' \in BOOLEAN /\ waiting' \in BOOLEAN
  BY DEF Place, Runs, Unchanged, tickVars, runVars, suspendVars, semaphoreVars, SuspensionInv, PcTypeOK
<1>5. xTxLock' \in Nat \cup {Unlocked}
  BY DEF Place, Runs, Unchanged, tickVars, runVars, suspendVars, semaphoreVars, SuspensionInv, PcTypeOK
<1> QED BY <1>3, <1>4, <1>5 DEF SuspensionInv, PcTypeOK

\* Yield(Winc, "test") keeps the suspension to the running task.
LEMMA WincYieldExcludes ==
  ASSUME KernelAssumption, SuspensionInv, Yield(Winc, "test")
  PROVE  SuspensionInv'
<1> DEFINE there == "test"
<1>1. /\ current = Winc /\ at' = [at EXCEPT ![Winc] = there]
      /\ there \in WincPc \cup SleeperPc
      /\ suspended' => current' = current
  BY DEF Yield, Runs, Unchanged, tickVars, runVars, suspendVars, semaphoreVars, SwitchContext, WincPc, SleeperPc
<1>2. suspended' = (there \in SuspendedPc(Winc))
  <2>1. Winc \in Sleepers \cup {Winc} /\ (Winc = Winc <=> Winc \notin Sleepers)
    BY DEF KernelAssumption
  <2>2. at[Winc] \in SuspendedPc(Winc) <=> suspended
    BY <1>1, <2>1 DEF SuspensionInv, SuspensionExcludes
  <2> QED BY <1>1, <2>1, <2>2 DEF Yield, Runs, SuspendedPc, Unchanged, tickVars, runVars, suspendVars, semaphoreVars, SuspensionInv, PcTypeOK, SwitchContext
<1>3. SuspensionExcludes' /\ at' \in [Tasks -> WincPc \cup SleeperPc]
  <2> HIDE DEF there
  <2> QED BY <1>1, <1>2, TaskStepExcludes
<1>4. suspended' \in BOOLEAN /\ semaphore' \in BOOLEAN /\ waiting' \in BOOLEAN
  BY DEF Yield, Runs, Unchanged, tickVars, runVars, suspendVars, semaphoreVars, SuspensionInv, PcTypeOK, SwitchContext
<1>5. xTxLock' \in Nat \cup {Unlocked}
  BY DEF Yield, Runs, Unchanged, tickVars, runVars, suspendVars, semaphoreVars, SuspensionInv, PcTypeOK, SwitchContext
<1> QED BY <1>3, <1>4, <1>5 DEF SuspensionInv, PcTypeOK

\* Unlock("unlock", "unlocked") keeps the suspension to the running task.
LEMMA UnlockExcludes ==
  ASSUME KernelAssumption, SuspensionInv, Unlock("unlock", "unlocked")
  PROVE  SuspensionInv'
<1> DEFINE there == "unlocked"
<1>1. /\ current = Winc /\ at' = [at EXCEPT ![Winc] = there]
      /\ there \in WincPc \cup SleeperPc
      /\ suspended' => current' = current
  BY DEF Unlock, Runs, Unchanged, tickVars, runVars, suspendVars, semaphoreVars, RemoveFromEventList, WincPc, SleeperPc
<1>2. suspended' = (there \in SuspendedPc(Winc))
  <2>1. Winc \in Sleepers \cup {Winc} /\ (Winc = Winc <=> Winc \notin Sleepers)
    BY DEF KernelAssumption
  <2>2. at[Winc] \in SuspendedPc(Winc) <=> suspended
    BY <1>1, <2>1 DEF SuspensionInv, SuspensionExcludes
  <2> QED BY <1>1, <2>1, <2>2 DEF Unlock, Runs, SuspendedPc, Unchanged, tickVars, runVars, suspendVars, semaphoreVars, SuspensionInv, PcTypeOK, RemoveFromEventList
<1>3. SuspensionExcludes' /\ at' \in [Tasks -> WincPc \cup SleeperPc]
  <2> HIDE DEF there
  <2> QED BY <1>1, <1>2, TaskStepExcludes
<1>4. suspended' \in BOOLEAN /\ semaphore' \in BOOLEAN /\ waiting' \in BOOLEAN
  BY DEF Unlock, Runs, Unchanged, tickVars, runVars, suspendVars, semaphoreVars, SuspensionInv, PcTypeOK, RemoveFromEventList
<1>5. xTxLock' \in Nat \cup {Unlocked}
  BY DEF Unlock, Runs, Unchanged, tickVars, runVars, suspendVars, semaphoreVars, SuspensionInv, PcTypeOK, RemoveFromEventList
<1> QED BY <1>3, <1>4, <1>5 DEF SuspensionInv, PcTypeOK

\* Unlock("unlockAgain", "unlockedAgain") keeps the suspension to the running task.
LEMMA UnlockAgainExcludes ==
  ASSUME KernelAssumption, SuspensionInv, Unlock("unlockAgain", "unlockedAgain")
  PROVE  SuspensionInv'
<1> DEFINE there == "unlockedAgain"
<1>1. /\ current = Winc /\ at' = [at EXCEPT ![Winc] = there]
      /\ there \in WincPc \cup SleeperPc
      /\ suspended' => current' = current
  BY DEF Unlock, Runs, Unchanged, tickVars, runVars, suspendVars, semaphoreVars, RemoveFromEventList, WincPc, SleeperPc
<1>2. suspended' = (there \in SuspendedPc(Winc))
  <2>1. Winc \in Sleepers \cup {Winc} /\ (Winc = Winc <=> Winc \notin Sleepers)
    BY DEF KernelAssumption
  <2>2. at[Winc] \in SuspendedPc(Winc) <=> suspended
    BY <1>1, <2>1 DEF SuspensionInv, SuspensionExcludes
  <2> QED BY <1>1, <2>1, <2>2 DEF Unlock, Runs, SuspendedPc, Unchanged, tickVars, runVars, suspendVars, semaphoreVars, SuspensionInv, PcTypeOK, RemoveFromEventList
<1>3. SuspensionExcludes' /\ at' \in [Tasks -> WincPc \cup SleeperPc]
  <2> HIDE DEF there
  <2> QED BY <1>1, <1>2, TaskStepExcludes
<1>4. suspended' \in BOOLEAN /\ semaphore' \in BOOLEAN /\ waiting' \in BOOLEAN
  BY DEF Unlock, Runs, Unchanged, tickVars, runVars, suspendVars, semaphoreVars, SuspensionInv, PcTypeOK, RemoveFromEventList
<1>5. xTxLock' \in Nat \cup {Unlocked}
  BY DEF Unlock, Runs, Unchanged, tickVars, runVars, suspendVars, semaphoreVars, SuspensionInv, PcTypeOK, RemoveFromEventList
<1> QED BY <1>3, <1>4, <1>5 DEF SuspensionInv, PcTypeOK

\* Unlocks("unlocked", "resume") keeps the suspension to the running task.
LEMMA UnlocksExcludes ==
  ASSUME KernelAssumption, SuspensionInv, Unlocks("unlocked", "resume")
  PROVE  SuspensionInv'
<1> DEFINE there == "resume"
<1>1. /\ current = Winc /\ at' = [at EXCEPT ![Winc] = there]
      /\ there \in WincPc \cup SleeperPc
      /\ suspended' => current' = current
  BY DEF Unlocks, Runs, Unchanged, tickVars, runVars, suspendVars, semaphoreVars, WincPc, SleeperPc
<1>2. suspended' = (there \in SuspendedPc(Winc))
  <2>1. Winc \in Sleepers \cup {Winc} /\ (Winc = Winc <=> Winc \notin Sleepers)
    BY DEF KernelAssumption
  <2>2. at[Winc] \in SuspendedPc(Winc) <=> suspended
    BY <1>1, <2>1 DEF SuspensionInv, SuspensionExcludes
  <2> QED BY <1>1, <2>1, <2>2 DEF Unlocks, Runs, SuspendedPc, Unchanged, tickVars, runVars, suspendVars, semaphoreVars, SuspensionInv, PcTypeOK
<1>3. SuspensionExcludes' /\ at' \in [Tasks -> WincPc \cup SleeperPc]
  <2> HIDE DEF there
  <2> QED BY <1>1, <1>2, TaskStepExcludes
<1>4. suspended' \in BOOLEAN /\ semaphore' \in BOOLEAN /\ waiting' \in BOOLEAN
  BY DEF Unlocks, Runs, Unchanged, tickVars, runVars, suspendVars, semaphoreVars, SuspensionInv, PcTypeOK
<1>5. xTxLock' \in Nat \cup {Unlocked}
  BY DEF Unlocks, Runs, Unchanged, tickVars, runVars, suspendVars, semaphoreVars, SuspensionInv, PcTypeOK
<1> QED BY <1>3, <1>4, <1>5 DEF SuspensionInv, PcTypeOK

\* Unlocks("unlockedAgain", "resumeAgain") keeps the suspension to the running task.
LEMMA UnlocksAgainExcludes ==
  ASSUME KernelAssumption, SuspensionInv, Unlocks("unlockedAgain", "resumeAgain")
  PROVE  SuspensionInv'
<1> DEFINE there == "resumeAgain"
<1>1. /\ current = Winc /\ at' = [at EXCEPT ![Winc] = there]
      /\ there \in WincPc \cup SleeperPc
      /\ suspended' => current' = current
  BY DEF Unlocks, Runs, Unchanged, tickVars, runVars, suspendVars, semaphoreVars, WincPc, SleeperPc
<1>2. suspended' = (there \in SuspendedPc(Winc))
  <2>1. Winc \in Sleepers \cup {Winc} /\ (Winc = Winc <=> Winc \notin Sleepers)
    BY DEF KernelAssumption
  <2>2. at[Winc] \in SuspendedPc(Winc) <=> suspended
    BY <1>1, <2>1 DEF SuspensionInv, SuspensionExcludes
  <2> QED BY <1>1, <2>1, <2>2 DEF Unlocks, Runs, SuspendedPc, Unchanged, tickVars, runVars, suspendVars, semaphoreVars, SuspensionInv, PcTypeOK
<1>3. SuspensionExcludes' /\ at' \in [Tasks -> WincPc \cup SleeperPc]
  <2> HIDE DEF there
  <2> QED BY <1>1, <1>2, TaskStepExcludes
<1>4. suspended' \in BOOLEAN /\ semaphore' \in BOOLEAN /\ waiting' \in BOOLEAN
  BY DEF Unlocks, Runs, Unchanged, tickVars, runVars, suspendVars, semaphoreVars, SuspensionInv, PcTypeOK
<1>5. xTxLock' \in Nat \cup {Unlocked}
  BY DEF Unlocks, Runs, Unchanged, tickVars, runVars, suspendVars, semaphoreVars, SuspensionInv, PcTypeOK
<1> QED BY <1>3, <1>4, <1>5 DEF SuspensionInv, PcTypeOK

\* xTaskResumeAll, for its three callers.
LEMMA ResumeExcludes ==
  ASSUME KernelAssumption, SuspensionInv,
         NEW t \in Sleepers \cup {Winc}, NEW here, NEW yielded, NEW not,
         {yielded, not} \subseteq (WincPc \cup SleeperPc) \ SuspendedPc(t),
         ResumeAll(t, here, yielded, not)
  PROVE  SuspensionInv'
<1> DEFINE yield == pending # <<>> \/ uxMissedTicks > 0 \/ xMissedYield
<1> DEFINE there == IF yield THEN yielded ELSE not
<1>1. /\ current = t /\ at' = [at EXCEPT ![t] = there]
      /\ suspended' = FALSE
      /\ UNCHANGED semaphoreVars
  BY DEF ResumeAll, Runs
<1>2. there \in WincPc \cup SleeperPc /\ there \notin SuspendedPc(t)
  OBVIOUS
<1>3. SuspensionExcludes' /\ at' \in [Tasks -> WincPc \cup SleeperPc]
  <2> HIDE DEF there
  <2>1. suspended' <=> there \in SuspendedPc(t)
    BY <1>1, <1>2
  <2> QED BY <1>1, <1>2, <2>1, TaskStepExcludes
<1> QED BY <1>1, <1>3 DEF SuspensionInv, PcTypeOK, semaphoreVars

\* Tick keeps the suspension to the running task.
LEMMA TickExcludes ==
  ASSUME SuspensionInv, Tick
  PROVE  SuspensionInv'
<1>1. at' = at /\ suspended' = suspended
  BY DEF Tick
<1>2. suspended => current' = current
  BY DEF Tick, SwitchContext, runVars
<1>3. SuspensionExcludes' /\ at' \in [Tasks -> WincPc \cup SleeperPc]
  BY <1>1, <1>2, SwitchExcludes
<1>4. semaphore' \in BOOLEAN /\ waiting' \in BOOLEAN
  BY DEF Tick, semaphoreVars, SuspensionInv, PcTypeOK
<1>5. xTxLock' \in Nat \cup {Unlocked}
  BY DEF Tick, semaphoreVars, SuspensionInv, PcTypeOK
<1> QED BY <1>1, <1>3, <1>4, <1>5 DEF SuspensionInv, PcTypeOK

\* IdleYields keeps the suspension to the running task.
LEMMA IdleYieldsExcludes ==
  ASSUME SuspensionInv, IdleYields
  PROVE  SuspensionInv'
<1>1. at' = at /\ suspended' = suspended
  BY DEF IdleYields
<1>2. suspended => current' = current
  BY DEF IdleYields, SwitchContext, runVars
<1>3. SuspensionExcludes' /\ at' \in [Tasks -> WincPc \cup SleeperPc]
  BY <1>1, <1>2, SwitchExcludes
<1>4. semaphore' \in BOOLEAN /\ waiting' \in BOOLEAN
  BY DEF IdleYields, semaphoreVars, SuspensionInv, PcTypeOK
<1>5. xTxLock' \in Nat \cup {Unlocked}
  BY DEF IdleYields, semaphoreVars, SuspensionInv, PcTypeOK
<1> QED BY <1>1, <1>3, <1>4, <1>5 DEF SuspensionInv, PcTypeOK

\* Isr keeps the suspension to the running task.
LEMMA IsrExcludes ==
  ASSUME SuspensionInv, Isr
  PROVE  SuspensionInv'
<1>1. at' = at /\ suspended' = suspended
  BY DEF Isr
<1>2. suspended => current' = current
  BY DEF Isr, SwitchContext, runVars
<1>3. SuspensionExcludes' /\ at' \in [Tasks -> WincPc \cup SleeperPc]
  BY <1>1, <1>2, SwitchExcludes
<1>4. semaphore' \in BOOLEAN /\ waiting' \in BOOLEAN
  BY DEF Isr, RemoveFromEventList, semaphoreVars, SuspensionInv, PcTypeOK
<1>5. xTxLock' \in Nat \cup {Unlocked}
  BY DEF Isr, RemoveFromEventList, semaphoreVars, SuspensionInv, PcTypeOK
<1> QED BY <1>1, <1>3, <1>4, <1>5 DEF SuspensionInv, PcTypeOK

\* The invariant of the suspension holds initially.
LEMMA SuspensionInit == KernelAssumption /\ Init => SuspensionInv
<1> SUFFICES ASSUME KernelAssumption, Init PROVE SuspensionInv
  OBVIOUS
<1>1. at = [t \in Tasks |-> IF t = Winc THEN "test" ELSE "run"]
  BY DEF Init
<1>2. PcTypeOK
  BY <1>1 DEF Init, PcTypeOK, WincPc, SleeperPc
<1>3. \A t \in Sleepers \cup {Winc} : at[t] \notin SuspendedPc(t)
  BY <1>1 DEF SuspendedPc, Tasks, KernelAssumption
<1> QED BY <1>2, <1>3 DEF SuspensionInv, SuspensionExcludes, Init

\* Every step keeps the invariant of the suspension.
LEMMA SuspensionStep == KernelAssumption /\ SuspensionInv /\ [Next]_vars => SuspensionInv'
<1> SUFFICES ASSUME KernelAssumption, SuspensionInv, [Next]_vars PROVE SuspensionInv'
  OBVIOUS
<1>1. ASSUME Tick PROVE SuspensionInv'
  BY <1>1, TickExcludes
<1>2. ASSUME NEW t \in Sleepers, Sleep(t) PROVE SuspensionInv'
  <2>1. {"run", "yield"} \subseteq (WincPc \cup SleeperPc) \ SuspendedPc(t)
    BY DEF KernelAssumption, SuspendedPc, WincPc, SleeperPc
  <2>2. CASE ResumeAll(t, "resume", "run", "yield")
    BY <2>1, <2>2, ResumeExcludes
  <2> QED BY <1>2, <2>2, StartDelayExcludes, DelayCurrentExcludes, SleeperYieldExcludes
         DEF Sleep
<1>3. ASSUME WincStep PROVE SuspensionInv'
  <2>1. {"test", "yield"} \subseteq (WincPc \cup SleeperPc) \ SuspendedPc(Winc)
    BY DEF SuspendedPc, WincPc, SleeperPc
  <2>2. CASE ResumeAll(Winc, "resume", "test", "yield")
    BY <2>1, <2>2, ResumeExcludes
  <2>3. CASE ResumeAll(Winc, "resumeAgain", "test", "test")
    BY <2>1, <2>3, ResumeExcludes
  <2>4. CASE Work \/ Test \/ Suspend \/ Lock \/ Ask \/ Place
    BY <2>4, WorkExcludes, TestExcludes, SuspendExcludes, LockExcludes, AskExcludes, PlaceExcludes
  <2> QED BY <1>3, <2>2, <2>3, <2>4, WincYieldExcludes, UnlockExcludes, UnlockAgainExcludes,
             UnlocksExcludes, UnlocksAgainExcludes DEF WincStep, TakeSemaphore
<1>4. ASSUME IdleYields PROVE SuspensionInv'
  BY <1>4, IdleYieldsExcludes
<1>5. ASSUME Isr PROVE SuspensionInv'
  BY <1>5, IsrExcludes
<1>6. ASSUME UNCHANGED vars PROVE SuspensionInv'
  BY <1>6 DEF vars, runVars, suspendVars, semaphoreVars, SuspensionInv, PcTypeOK,
     SuspensionExcludes, SuspendedPc
<1> QED BY <1>1, <1>2, <1>3, <1>4, <1>5, <1>6 DEF Next

\* A task that has suspended the scheduler runs alone until it resumes it, for
\* every set of tasks (vTaskSuspendAll, vTaskSwitchContext, xTaskResumeAll).
THEOREM SuspensionIsExclusive == Spec => []SuspensionExcludes
<1>1. Init => SuspensionInv
  BY SuspensionInit, KernelAssumption
<1>2. SuspensionInv /\ [Next]_vars => SuspensionInv'
  BY SuspensionStep, KernelAssumption
<1>3. SuspensionInv => SuspensionExcludes
  BY DEF SuspensionInv
<1> QED BY <1>1, <1>2, <1>3, PTL DEF Spec

-----------------------------------------------------------------------------
(* No wake-up is lost. *)

\* A step in which task_winc stays where it is and the semaphore is not touched.
LEMMA OtherStepKeepsWakeup ==
  ASSUME WakeupInv, SuspensionInv', at'[Winc] = at[Winc], UNCHANGED <<semaphoreVars, tooLate>>
  PROVE  WakeupInv'
BY DEF WakeupInv, LockInv, NoLostWakeup, semaphoreVars

\* A step of another task.
LEMMA SleepKeepsWakeup ==
  ASSUME KernelAssumption, WakeupInv, SuspensionInv', NEW t \in Sleepers, Sleep(t)
  PROVE  WakeupInv'
<1>1. UNCHANGED <<semaphoreVars, tooLate>>
  BY DEF Sleep, StartDelay, DelayCurrent, ResumeAll, Yield, isrVars
<1>2. \E there : at' = [at EXCEPT ![t] = there]
  BY DEF Sleep, StartDelay, DelayCurrent, ResumeAll, Yield, Runs
<1>3. at'[Winc] = at[Winc]
  BY <1>2 DEF KernelAssumption, WakeupInv, SuspensionInv, PcTypeOK, Tasks
<1> QED BY <1>1, <1>3, OtherStepKeepsWakeup

\* task_winc goes on to a place where the queue is not locked.
LEMMA FreeStepKeepsWakeup ==
  ASSUME WakeupInv, SuspensionInv', NEW there, at' = [at EXCEPT ![Winc] = there],
         there \notin LockedPc, UNCHANGED <<waiting, xTxLock, tooLate>>,
         semaphore' => semaphore
  PROVE  WakeupInv'
<1>1. at'[Winc] = there
  BY DEF WakeupInv, SuspensionInv, PcTypeOK, Tasks
<1> QED BY <1>1 DEF WakeupInv, LockInv, NoLostWakeup, LockedPc, CriticalPc

\* A step of task_winc.
LEMMA WincStepKeepsWakeup ==
  ASSUME WakeupInv, SuspensionInv', WincStep
  PROVE  WakeupInv'
<1> USE DEF WakeupInv, SuspensionInv, PcTypeOK
<1>0. UNCHANGED tooLate
  BY DEF WincStep, Work, TakeSemaphore, Test, Suspend, Lock, Ask, Place, Unlock, Unlocks,
    ResumeAll, Yield, Unchanged, isrVars
<1>1. Winc \in Tasks BY DEF Tasks
<1>2. CASE Work \/ Test \/ Suspend
  <2>1. PICK there \in {"test", "work", "suspend", "lock"} : at' = [at EXCEPT ![Winc] = there]
    BY <1>2 DEF Work, Test, Suspend, Runs
  <2>2. UNCHANGED <<waiting, xTxLock>> /\ (semaphore' => semaphore)
    BY <1>2 DEF Work, Test, Suspend, semaphoreVars
  <2>3. there \notin LockedPc
    BY DEF LockedPc
  <2> HIDE DEF WakeupInv, SuspensionInv, PcTypeOK
  <2> QED BY <1>0, <2>1, <2>2, <2>3, FreeStepKeepsWakeup
<1>3. CASE Lock
  <2>1. at'[Winc] = "ask" /\ UNCHANGED <<semaphore, waiting>>
    BY <1>1, <1>3 DEF Lock, Runs
  <2>2. xTxLock' \in Nat /\ (xTxLock > 0 => xTxLock' > 0)
    BY <1>3 DEF Lock
  <2> QED BY <1>0, <2>1, <2>2 DEF LockInv, NoLostWakeup, CriticalPc
<1>4. CASE Ask
  <2>1. at'[Winc] = IF semaphore THEN "unlockAgain" ELSE "place"
    BY <1>1, <1>4 DEF Ask, Runs
  <2>2. UNCHANGED semaphoreVars /\ at[Winc] = "ask"
    BY <1>4 DEF Ask, Runs
  <2> QED BY <1>0, <2>1, <2>2 DEF LockInv, LockedPc, NoLostWakeup, CriticalPc, semaphoreVars
<1>5. CASE Place
  <2>1. at'[Winc] = "unlock" /\ at[Winc] = "place" /\ UNCHANGED <<semaphore, xTxLock>>
    BY <1>1, <1>5 DEF Place, Runs
  <2> QED BY <1>0, <2>1 DEF LockInv, LockedPc, NoLostWakeup, CriticalPc
<1>6. ASSUME NEW here \in {"unlock", "unlockAgain"}, NEW there \in CriticalPc, Unlock(here, there)
      PROVE  WakeupInv'
  <2>1. at'[Winc] = there /\ at[Winc] = here /\ UNCHANGED semaphore
    BY <1>1, <1>6 DEF Unlock, Runs
  <2>2. xTxLock \in Nat
    BY <1>6, <2>1 DEF LockInv, LockedPc
  <2>3. CASE xTxLock > 0 /\ waiting
    <3>1. waiting' = FALSE /\ xTxLock' = xTxLock - 1
      BY <1>6, <2>3 DEF Unlock, RemoveFromEventList
    <3> QED BY <1>0, <2>1, <2>2, <2>3, <3>1 DEF LockInv, LockedPc, NoLostWakeup, CriticalPc
  <2>4. CASE ~(xTxLock > 0 /\ waiting)
    <3>1. UNCHANGED <<waiting, xTxLock>>
      BY <1>6, <2>4 DEF Unlock
    <3> QED BY <1>0, <2>1, <2>2, <2>4, <3>1 DEF LockInv, LockedPc, NoLostWakeup, CriticalPc
  <2> QED BY <2>3, <2>4
<1>7. ASSUME NEW here \in CriticalPc, NEW there \in {"resume", "resumeAgain"}, Unlocks(here, there)
      PROVE  WakeupInv'
  <2>1. /\ at'[Winc] = there /\ at[Winc] = here
        /\ UNCHANGED <<semaphore, waiting>>
        /\ xTxLock' = Unlocked
    BY <1>1, <1>7 DEF Unlocks, Runs
  <2> QED BY <1>0, <1>7, <2>1 DEF LockInv, LockedPc, NoLostWakeup, CriticalPc
<1>8. ASSUME NEW here, NEW yielded \in {"test", "yield"}, NEW not \in {"test", "yield"},
             ResumeAll(Winc, here, yielded, not)
      PROVE  WakeupInv'
  <2>1. PICK there \in {"test", "yield"} : at' = [at EXCEPT ![Winc] = there]
    BY <1>8 DEF ResumeAll, Runs
  <2>2. UNCHANGED semaphoreVars
    BY <1>8 DEF ResumeAll
  <2>3. there \notin LockedPc
    BY DEF LockedPc
  <2> HIDE DEF WakeupInv, SuspensionInv, PcTypeOK
  <2> QED BY <1>0, <2>1, <2>2, <2>3, FreeStepKeepsWakeup DEF semaphoreVars
<1>9. CASE Yield(Winc, "test")
  <2>1. at' = [at EXCEPT ![Winc] = "test"] /\ UNCHANGED semaphoreVars
    BY <1>9 DEF Yield, Runs
  <2>2. "test" \notin LockedPc
    BY DEF LockedPc
  <2> HIDE DEF WakeupInv, SuspensionInv, PcTypeOK
  <2> QED BY <1>0, <2>1, <2>2, FreeStepKeepsWakeup DEF semaphoreVars
<1> HIDE DEF WakeupInv, SuspensionInv, PcTypeOK
<1>10. CASE Unlock("unlock", "unlocked") \/ Unlock("unlockAgain", "unlockedAgain")
  BY <1>6, <1>10 DEF CriticalPc
<1>11. CASE Unlocks("unlocked", "resume") \/ Unlocks("unlockedAgain", "resumeAgain")
  BY <1>7, <1>11 DEF CriticalPc
<1>12. CASE \/ ResumeAll(Winc, "resume", "test", "yield")
            \/ ResumeAll(Winc, "resumeAgain", "test", "test")
  BY <1>8, <1>12
<1> QED BY <1>2, <1>3, <1>4, <1>5, <1>9, <1>10, <1>11, <1>12 DEF WincStep, TakeSemaphore

\* The interrupt: it comes too late only while task_winc, which is then the running
\* task, ends its unlocking, and only when the critical section does not mask it.
LEMMA IsrKeepsWakeup ==
  ASSUME WakeupInv, SuspensionInv', Isr
  PROVE  WakeupInv'
<1>1. at' = at /\ semaphore' = TRUE /\ tooLate' = (tooLate \/ ComesTooLate)
  BY DEF Isr
<1>2. IsrIsMasked => at[Winc] \notin CriticalPc
  <2> SUFFICES ASSUME IsrIsMasked, at[Winc] \in CriticalPc PROVE FALSE
    OBVIOUS
  <2>1. at[Winc] \in SuspendedPc(Winc)
    BY DEF CriticalPc, SuspendedPc
  <2>2. current = Winc
    BY <2>1 DEF WakeupInv, SuspensionInv, SuspensionExcludes
  <2> QED BY <2>2 DEF Isr
<1>3. tooLate' => ~IsrIsMasked
  BY <1>1, <1>2 DEF ComesTooLate, WakeupInv, LockInv
<1>4. CASE semaphore
  <2>1. UNCHANGED <<waiting, xTxLock>>
    BY <1>4 DEF Isr
  <2> QED BY <1>1, <1>3, <1>4, <2>1 DEF WakeupInv, LockInv, NoLostWakeup
<1>5. CASE ~semaphore /\ xTxLock # Unlocked
  <2>1. xTxLock' = xTxLock + 1 /\ waiting' = waiting
    BY <1>5 DEF Isr
  <2>2. xTxLock \in Nat /\ waiting \in BOOLEAN
    BY <1>5 DEF WakeupInv, SuspensionInv, PcTypeOK
  <2> QED BY <1>1, <1>3, <1>5, <2>1, <2>2 DEF WakeupInv, LockInv, NoLostWakeup, ComesTooLate
<1>6. CASE ~semaphore /\ xTxLock = Unlocked
  <2>1. waiting' = FALSE /\ xTxLock' = xTxLock
    BY <1>6 DEF Isr, RemoveFromEventList
  <2>2. at[Winc] \notin LockedPc
    BY <1>6 DEF WakeupInv, LockInv
  <2> QED BY <1>1, <1>3, <2>1, <2>2 DEF WakeupInv, LockInv, NoLostWakeup, LockedPc
<1> QED BY <1>4, <1>5, <1>6

\* Whatever the priority of the interrupt of the Wi-Fi module, task_winc sleeps on
\* a semaphore that was given only after a give that came when prvUnlockQueue had
\* looked at its lock for the last time and not yet reset it; when the critical
\* section masks the interrupt, there is no such give.
THEOREM WakeupIsNotLost ==
  Spec => []((NoLostWakeup \/ tooLate) /\ (tooLate => ~IsrIsMasked))
<1>1. Init => WakeupInv
  <2> SUFFICES ASSUME Init PROVE WakeupInv
    OBVIOUS
  <2>1. SuspensionInv
    BY SuspensionInit, KernelAssumption
  <2>2. at[Winc] = "test" /\ ~waiting /\ ~tooLate
    BY DEF Init, Tasks
  <2> QED BY <2>1, <2>2 DEF WakeupInv, LockInv, NoLostWakeup, LockedPc, CriticalPc
<1>2. WakeupInv /\ [Next]_vars => WakeupInv'
  <2> SUFFICES ASSUME WakeupInv, [Next]_vars PROVE WakeupInv'
    OBVIOUS
  <2>1. SuspensionInv'
    BY SuspensionStep, KernelAssumption DEF WakeupInv
  <2>2. CASE Tick \/ IdleYields \/ UNCHANGED vars
    <3>1. at' = at /\ UNCHANGED <<semaphoreVars, tooLate>>
      BY <2>2 DEF Tick, IdleYields, vars, isrVars
    <3> QED BY <2>1, <3>1, OtherStepKeepsWakeup
  <2> QED BY <2>1, <2>2, SleepKeepsWakeup, WincStepKeepsWakeup, IsrKeepsWakeup,
             KernelAssumption DEF Next
<1>3. WakeupInv => (NoLostWakeup \/ tooLate) /\ (tooLate => ~IsrIsMasked)
  BY DEF WakeupInv, LockInv
<1> QED BY <1>1, <1>2, <1>3, PTL DEF Spec

-----------------------------------------------------------------------------
(* The semaphore is a binary semaphore. *)

\* Every step of the scheduler, of a task and of the interrupt is a step of
\* BinarySemaphore, or leaves it alone: a give is taken once, by task_winc when
\* it is not at work (xQueueGenericReceive, xQueueGenericSendFromISR).
THEOREM TakesOncePerGive ==
  Spec => S!Init /\ [][S!Give \/ S!Take \/ S!Finish]_<<semaphore, at[Winc] = "work">>
<1> DEFINE SStep == [S!Give \/ S!Take \/ S!Finish]_<<semaphore, at[Winc] = "work">>
<1>1. Init => S!Init
  BY DEF Init, S!Init, Tasks
<1>2. SuspensionInv /\ [Next]_vars => SStep
  <2> SUFFICES ASSUME SuspensionInv, [Next]_vars PROVE SStep
    OBVIOUS
  <2>1. Winc \in Tasks BY DEF Tasks
  <2>2. CASE Tick \/ IdleYields \/ UNCHANGED vars
    BY <2>2 DEF Tick, IdleYields, vars, semaphoreVars
  <2>3. CASE \E t \in Sleepers : Sleep(t)
    <3>1. PICK t \in Sleepers : Sleep(t)
      BY <2>3
    <3>2. \E there : at' = [at EXCEPT ![t] = there]
      BY <3>1 DEF Sleep, StartDelay, DelayCurrent, ResumeAll, Yield, Runs
    <3>3. at'[Winc] = at[Winc]
      BY <3>2, KernelAssumption DEF KernelAssumption, SuspensionInv, PcTypeOK, Tasks
    <3>4. UNCHANGED semaphore
      BY <3>1 DEF Sleep, StartDelay, DelayCurrent, ResumeAll, Yield, semaphoreVars
    <3> QED BY <3>3, <3>4
  <2>4. CASE Work
    <3>1. at[Winc] = "work" /\ at'[Winc] = "test" /\ UNCHANGED semaphore
      BY <2>1, <2>4 DEF Work, Runs, SuspensionInv, PcTypeOK, semaphoreVars
    <3>2. S!Finish
      BY <3>1 DEF S!Finish
    <3> QED BY <3>2
  <2>5. CASE Test
    <3>1. /\ at[Winc] = "test" /\ semaphore' = FALSE
          /\ at'[Winc] = IF semaphore THEN "work" ELSE "suspend"
      BY <2>1, <2>5 DEF Test, Runs, SuspensionInv, PcTypeOK
    <3>2. CASE semaphore
      BY <3>1, <3>2 DEF S!Take
    <3>3. CASE ~semaphore
      BY <3>1, <3>3 DEF SuspensionInv, PcTypeOK
    <3> QED BY <3>2, <3>3
  <2>6. CASE Suspend \/ Lock \/ Ask \/ Place
    <3>1. at[Winc] # "work" /\ at'[Winc] # "work" /\ UNCHANGED semaphore
      BY <2>1, <2>6 DEF Suspend, Lock, Ask, Place, Runs, SuspensionInv, PcTypeOK, semaphoreVars
    <3> QED BY <3>1
  <2>7. ASSUME NEW here, NEW there, here # "work", there # "work",
               Unlock(here, there) \/ Unlocks(here, there)
        PROVE  SStep
    <3>1. at[Winc] = here /\ at'[Winc] = there /\ UNCHANGED semaphore
      BY <2>1, <2>7 DEF Unlock, Unlocks, Runs, SuspensionInv, PcTypeOK
    <3> QED BY <2>7, <3>1
  <2>8. ASSUME NEW here, NEW yielded, NEW not,
               here # "work", yielded # "work", not # "work",
               ResumeAll(Winc, here, yielded, not)
        PROVE  SStep
    <3>1. PICK there \in {yielded, not} : at' = [at EXCEPT ![Winc] = there]
      BY <2>8 DEF ResumeAll, Runs
    <3>2. at[Winc] = here /\ at'[Winc] = there /\ UNCHANGED semaphore
      BY <2>1, <2>8, <3>1 DEF ResumeAll, Runs, SuspensionInv, PcTypeOK, semaphoreVars
    <3> QED BY <2>8, <3>2
  <2>9. CASE Yield(Winc, "test")
    <3>1. at[Winc] = "yield" /\ at'[Winc] = "test" /\ UNCHANGED semaphore
      BY <2>1, <2>9 DEF Yield, Runs, SuspensionInv, PcTypeOK, semaphoreVars
    <3> QED BY <3>1
  <2>10. CASE Isr
    <3>1. semaphore' = TRUE /\ at' = at
      BY <2>10 DEF Isr
    <3> QED BY <3>1 DEF S!Give
  <2> HIDE DEF SStep
  <2>11. CASE \/ Unlock("unlock", "unlocked") \/ Unlocks("unlocked", "resume")
              \/ Unlock("unlockAgain", "unlockedAgain") \/ Unlocks("unlockedAgain", "resumeAgain")
    BY <2>7, <2>11
  <2>12. CASE \/ ResumeAll(Winc, "resume", "test", "yield")
              \/ ResumeAll(Winc, "resumeAgain", "test", "test")
    BY <2>8, <2>12
  <2> QED BY <2>2, <2>3, <2>4, <2>5, <2>6, <2>9, <2>10, <2>11, <2>12
         DEF Next, WincStep, TakeSemaphore
<1>3. Init => SuspensionInv
  BY SuspensionInit, KernelAssumption
<1>4. SuspensionInv /\ [Next]_vars => SuspensionInv'
  BY SuspensionStep, KernelAssumption
<1> QED BY <1>1, <1>2, <1>3, <1>4, PTL DEF Spec

-----------------------------------------------------------------------------
(* Lists of tasks: what uxListRemove leaves, and the first of the wake times. *)

\* f[k] is what Only keeps of the first k tasks of the list, for k up to n.
Kept(f, list, K, n) ==
  f = [k \in 0 .. n |->
         IF k = 0 THEN <<>>
         ELSE IF list[k] \in K THEN Append(f[k - 1], list[k]) ELSE f[k - 1]]

\* The list that Only keeps of the first n tasks can be extended by one task.
LEMMA KeptGrows ==
  ASSUME NEW list, NEW K, NEW n \in Nat, NEW f, Kept(f, list, K, n)
  PROVE  \E g : Kept(g, list, K, n + 1)
<1> DEFINE last == IF list[n + 1] \in K THEN Append(f[n], list[n + 1]) ELSE f[n]
           g == [k \in 0 .. n + 1 |-> IF k = n + 1 THEN last ELSE f[k]]
<1>1. \A k \in 0 .. n : g[k] = f[k]
  OBVIOUS
<1>2. ASSUME NEW k \in 0 .. n + 1
      PROVE  g[k] = IF k = 0 THEN <<>>
                    ELSE IF list[k] \in K THEN Append(g[k - 1], list[k]) ELSE g[k - 1]
  <2>1. CASE k = n + 1
    <3>1. k # 0 /\ k - 1 = n /\ g[k] = last /\ g[k - 1] = f[n]
      BY <2>1, <1>1
    <3> HIDE DEF g
    <3> QED BY <3>1, <2>1
  <2>2. CASE k # n + 1
    <3>1. k \in 0 .. n /\ g[k] = f[k] /\ (k # 0 => g[k - 1] = f[k - 1])
      BY <2>2, <1>1
    <3> HIDE DEF g
    <3> QED BY <3>1 DEF Kept
  <2> QED BY <2>1, <2>2
<1>3. Kept(g, list, K, n + 1)
  <2> DEFINE h == [k \in 0 .. n + 1 |->
         IF k = 0 THEN <<>>
         ELSE IF list[k] \in K THEN Append(g[k - 1], list[k]) ELSE g[k - 1]]
  <2>1. \A k \in 0 .. n + 1 : g[k] = h[k]
    <3> HIDE DEF g
    <3> QED BY <1>2
  <2>2. DOMAIN g = 0 .. n + 1 /\ DOMAIN h = 0 .. n + 1 /\ g = [k \in 0 .. n + 1 |-> g[k]] /\ h = [k \in 0 .. n + 1 |-> h[k]]
    OBVIOUS
  <2> HIDE DEF g
  <2>3. g = h
    BY <2>1, <2>2
  <2> QED BY <2>3 DEF Kept
<1> HIDE DEF g
<1> QED BY <1>3

\* Induction over the natural numbers: a set that holds 0, and with each number the
\* next one, holds them all. It counts the tasks of a list and the missed ticks below.
LEMMA Induction ==
  ASSUME NEW K, 0 \in K, \A n \in Nat : n \in K => n + 1 \in K
  PROVE  Nat \subseteq K
<1> SUFFICES ASSUME Nat \ K # {} PROVE FALSE
  OBVIOUS
<1>1. \E m \in Nat \ K : \A n \in Nat \ K : <<n, m>> \notin OpToRel(<, Nat)
  BY WFMin, NatLessThanWellFounded
<1>2. PICK m \in Nat \ K : \A n \in Nat \ K : <<n, m>> \notin OpToRel(<, Nat)
  BY <1>1
<1>3. m # 0 /\ m - 1 \in Nat /\ m - 1 < m /\ m - 1 + 1 = m
  OBVIOUS
<1>4. m - 1 \in K
  <2>1. <<m - 1, m>> \in Nat \X Nat /\ <<m - 1, m>>[1] < <<m - 1, m>>[2]
    BY <1>3
  <2> QED BY <1>2, <1>3, <2>1 DEF OpToRel
<1> QED BY <1>3, <1>4

\* The function that Only is defined by exists, for a list of any length.
LEMMA KeptExists ==
  ASSUME NEW list, NEW K, NEW n \in Nat
  PROVE  \E f : Kept(f, list, K, n)
<1> DEFINE some == {m \in Nat : \E f : Kept(f, list, K, m)}
<1>1. Kept([k \in 0 .. 0 |-> <<>>], list, K, 0)
  BY DEF Kept
<1>2. 0 \in some
  BY <1>1
<1>3. \A m \in Nat : m \in some => m + 1 \in some
  BY KeptGrows
<1>4. Nat \subseteq some
  <2> HIDE DEF some
  <2> QED BY <1>2, <1>3, Induction
<1> QED BY <1>4

\* Only is what that function says of the whole list.
LEMMA OnlyKept ==
  ASSUME NEW list, NEW K, Len(list) \in Nat
  PROVE  \E f : Kept(f, list, K, Len(list)) /\ Only(list, K) = f[Len(list)]
<1> DEFINE kept == CHOOSE f : Kept(f, list, K, Len(list))
<1>1. Kept(kept, list, K, Len(list))
  BY KeptExists
<1>2. Only(list, K) = kept[Len(list)]
  BY DEF Only, Kept
<1> QED BY <1>1, <1>2

\* uxListRemove of the tasks that are not in K leaves those that are, each where it
\* was once.
LEMMA OnlyIs ==
  ASSUME NEW T, NEW list \in Seq(T), NEW K
  PROVE  /\ Only(list, K) \in Seq(T)
         /\ ToSet(Only(list, K)) = ToSet(list) \cap K
         /\ IsInjective(list) => IsInjective(Only(list, K))
<1> DEFINE m == Len(list)
<1>1. PICK f : Kept(f, list, K, m) /\ Only(list, K) = f[m]
  BY OnlyKept
<1> DEFINE Part(n) == {list[i] : i \in 1 .. n} \cap K
           Good(n) == /\ f[n] \in Seq(T) /\ ToSet(f[n]) = Part(n)
                      /\ IsInjective(list) => IsInjective(f[n])
           good == {n \in Nat : n <= m => Good(n)}
<1>2. 0 \in good
  <2>1. f[0] = <<>>
    BY <1>1 DEF Kept
  <2>2. f[0] \in Seq(T) /\ DOMAIN f[0] = {}
    BY <2>1
  <2>3. ToSet(f[0]) = {} /\ IsInjective(f[0]) /\ Part(0) = {}
    BY <2>2 DEF ToSet, IsInjective
  <2> HIDE DEF Part
  <2> QED BY <2>2, <2>3
<1>3. ASSUME NEW n \in Nat, n \in good PROVE n + 1 \in good
  <2> SUFFICES ASSUME n + 1 <= m PROVE Good(n + 1)
    OBVIOUS
  <2>1. Good(n) /\ n + 1 \in 1 .. m /\ n + 1 # 0 /\ (n + 1) - 1 = n /\ n + 1 \in 0 .. m
    BY <1>3
  <2>2. f[n + 1] = IF list[n + 1] \in K THEN Append(f[n], list[n + 1]) ELSE f[n]
    BY <1>1, <2>1 DEF Kept
  <2>3. Part(n + 1) = Part(n) \cup ({list[n + 1]} \cap K)
    <3>1. 1 .. n + 1 = 1 .. n \cup {n + 1}
      BY <1>3
    <3> QED BY <3>1
  <2>4. list[n + 1] \in T
    BY <2>1
  <2>5. IsInjective(list) => list[n + 1] \notin Part(n)
    <3> SUFFICES ASSUME IsInjective(list), NEW i \in 1 .. n, list[i] = list[n + 1] PROVE FALSE
      OBVIOUS
    <3>1. i \in DOMAIN list /\ n + 1 \in DOMAIN list /\ i # n + 1
      BY <2>1
    <3> QED BY <3>1 DEF IsInjective
  <2> HIDE DEF Part
  <2>6. CASE list[n + 1] \in K
    <3> DEFINE x == list[n + 1]
               old == f[n]
               new == Append(old, x)
    <3>1. old \in Seq(T) /\ new \in Seq(T) /\ f[n + 1] = new
      BY <2>1, <2>2, <2>4, <2>6
    <3>2. /\ DOMAIN new = DOMAIN old \cup {Len(old) + 1} /\ Len(old) + 1 \notin DOMAIN old
          /\ new[Len(old) + 1] = x /\ \A i \in DOMAIN old : new[i] = old[i]
      BY <3>1
    <3> HIDE DEF old, new, x
    <3>3. ToSet(new) = ToSet(old) \cup {x}
      BY <3>2 DEF ToSet
    <3>4. ASSUME IsInjective(old), x \notin ToSet(old) PROVE IsInjective(new)
      BY <3>2, <3>4 DEF IsInjective, ToSet
    <3>5. ToSet(old) = Part(n) /\ (IsInjective(list) => IsInjective(old)) /\ (IsInjective(list) => x \notin Part(n))
          /\ x \in K /\ Part(n + 1) = Part(n) \cup ({x} \cap K)
      BY <2>1, <2>3, <2>5, <2>6 DEF old, x
    <3> QED BY <3>1, <3>3, <3>4, <3>5
  <2>7. CASE list[n + 1] \notin K
    <3>1. f[n + 1] = f[n] /\ Part(n + 1) = Part(n)
      BY <2>2, <2>3, <2>7
    <3> QED BY <2>1, <3>1
  <2> QED BY <2>6, <2>7
<1>4. Nat \subseteq good
  <2> HIDE DEF good
  <2> QED BY <1>2, <1>3, Induction
<1>5. Good(m)
  <2>1. m \in Nat
    OBVIOUS
  <2> HIDE DEF Good
  <2> QED BY <1>4, <2>1
<1>6. Part(m) = ToSet(list) \cap K
  BY DEF ToSet
<1> QED BY <1>1, <1>5, <1>6

\* Tasks that vListInsertEnd puts after those of a list: no task is in it twice if the
\* two lists have none in common.
LEMMA Concatenated ==
  ASSUME NEW T, NEW a \in Seq(T), NEW b \in Seq(T)
  PROVE  /\ a \o b \in Seq(T)
         /\ ToSet(a \o b) = ToSet(a) \cup ToSet(b)
         /\ IsInjective(a \o b) <=> IsInjective(a) /\ IsInjective(b) /\ ToSet(a) \cap ToSet(b) = {}
<1> DEFINE c == a \o b
           m == Len(a)
           n == Len(b)
<1>1. /\ c \in Seq(T) /\ m \in Nat /\ n \in Nat
      /\ DOMAIN a = 1 .. m /\ DOMAIN b = 1 .. n /\ DOMAIN c = 1 .. m + n
      /\ \A i \in 1 .. m : c[i] = a[i]
      /\ \A i \in 1 .. n : c[m + i] = b[i]
  OBVIOUS
<1>2. \A k \in 1 .. m + n : k \in 1 .. m \/ (k - m \in 1 .. n /\ k = m + (k - m))
  BY <1>1
<1>3. \A i \in 1 .. m : i \in 1 .. m + n
  BY <1>1
<1>4. \A i \in 1 .. n : m + i \in 1 .. m + n /\ m + i \notin 1 .. m
  BY <1>1
<1> HIDE DEF c, m, n
<1>5. ToSet(c) = ToSet(a) \cup ToSet(b)
  <2>1. ASSUME NEW x \in ToSet(c) PROVE x \in ToSet(a) \cup ToSet(b)
    <3>1. PICK k \in 1 .. m + n : c[k] = x
      BY <1>1, <2>1 DEF ToSet
    <3>2. CASE k \in 1 .. m
      BY <1>1, <3>1, <3>2 DEF ToSet
    <3>3. CASE k - m \in 1 .. n /\ k = m + (k - m)
      <4>1. x = b[k - m]
        BY <1>1, <3>1, <3>3
      <4> QED BY <1>1, <3>3, <4>1 DEF ToSet
    <3> QED BY <1>2, <3>2, <3>3
  <2>2. ASSUME NEW x \in ToSet(a) PROVE x \in ToSet(c)
    BY <1>1, <1>3, <2>2 DEF ToSet
  <2>3. ASSUME NEW x \in ToSet(b) PROVE x \in ToSet(c)
    <3>1. PICK i \in 1 .. n : b[i] = x
      BY <1>1, <2>3 DEF ToSet
    <3>2. c[m + i] = x /\ m + i \in 1 .. m + n
      BY <1>1, <1>4, <3>1
    <3> QED BY <1>1, <3>2 DEF ToSet
  <2> QED BY <2>1, <2>2, <2>3
<1>6. ASSUME IsInjective(c) PROVE IsInjective(a) /\ IsInjective(b) /\ ToSet(a) \cap ToSet(b) = {}
  <2>1. IsInjective(a)
    BY <1>1, <1>3, <1>6 DEF IsInjective
  <2>2. IsInjective(b)
    <3> SUFFICES ASSUME NEW i \in 1 .. n, NEW j \in 1 .. n, b[i] = b[j] PROVE i = j
      BY <1>1 DEF IsInjective
    <3>1. c[m + i] = c[m + j] /\ m + i \in 1 .. m + n /\ m + j \in 1 .. m + n
      BY <1>1, <1>4
    <3>2. m + i = m + j
      BY <1>1, <1>6, <3>1 DEF IsInjective
    <3> QED BY <1>1, <3>2
  <2>3. ASSUME NEW i \in 1 .. m, NEW j \in 1 .. n, a[i] = b[j] PROVE FALSE
    <3>1. c[i] = c[m + j] /\ i \in 1 .. m + n /\ m + j \in 1 .. m + n /\ i # m + j
      BY <1>1, <1>3, <1>4, <2>3
    <3> QED BY <1>1, <1>6, <3>1 DEF IsInjective
  <2> QED BY <1>1, <2>1, <2>2, <2>3 DEF ToSet
<1>7. ASSUME IsInjective(a), IsInjective(b), ToSet(a) \cap ToSet(b) = {} PROVE IsInjective(c)
  <2> SUFFICES ASSUME NEW i \in 1 .. m + n, NEW j \in 1 .. m + n, c[i] = c[j] PROVE i = j
    BY <1>1 DEF IsInjective
  <2>1. \A k \in 1 .. m, l \in 1 .. n : c[k] # c[m + l]
    BY <1>1, <1>7 DEF ToSet
  <2>2. CASE i \in 1 .. m /\ j \in 1 .. m
    BY <1>1, <1>7, <2>2 DEF IsInjective
  <2>3. CASE i \notin 1 .. m /\ j \notin 1 .. m
    <3>1. i - m \in 1 .. n /\ j - m \in 1 .. n /\ c[i] = b[i - m] /\ c[j] = b[j - m]
      BY <1>1, <1>2, <2>3
    <3>2. i - m = j - m
      BY <1>1, <1>7, <3>1 DEF IsInjective
    <3> QED BY <1>1, <3>2
  <2> QED BY <1>2, <2>1, <2>2, <2>3
<1> QED BY <1>1, <1>5, <1>6, <1>7 DEF c

\* No task of a list wakes before the time that prvCheckDelayedTasks takes from its
\* head for xNextTaskUnblockTime.
LEMMA FirstWakeIs ==
  ASSUME wake \in [Tasks -> Ticks], NEW list \in Seq(Tasks), MaxTick \in Nat
  PROVE  /\ FirstWake(list) \in Ticks
         /\ \A t \in ToSet(list) : FirstWake(list) <= wake[t]
<1>1. CASE list = <<>>
  BY <1>1 DEF FirstWake, Ticks, ToSet
<1>2. CASE list # <<>>
  <2> DEFINE W == {wake[list[i]] : i \in DOMAIN list}
  <2>1. \A i \in DOMAIN list : wake[list[i]] \in Ticks
    OBVIOUS
  <2>2. 1 \in DOMAIN list
    BY <1>2
  <2>3. W # {} /\ W \subseteq Nat /\ W \subseteq Ticks
    BY <2>1, <2>2 DEF Ticks
  <2>4. \E w \in W : \A v \in W : <<v, w>> \notin OpToRel(<, Nat)
    <3> HIDE DEF W
    <3> QED BY <2>3, WFMin, NatLessThanWellFounded
  <2>5. PICK w \in W : \A v \in W : <<v, w>> \notin OpToRel(<, Nat)
    BY <2>4
  <2>6. ASSUME NEW v \in W PROVE w <= v
    <3> HIDE DEF W
    <3> SUFFICES ASSUME v < w PROVE FALSE
      BY <2>3
    <3>1. <<v, w>> \in Nat \X Nat /\ <<v, w>>[1] < <<v, w>>[2]
      BY <2>3
    <3> QED BY <2>5, <3>1 DEF OpToRel
  <2>7. FirstWake(list) = CHOOSE u \in W : \A i \in DOMAIN list : u <= wake[list[i]]
    BY <1>2 DEF FirstWake
  <2>8. w \in W /\ \A i \in DOMAIN list : w <= wake[list[i]]
    BY <2>6
  <2>9. /\ FirstWake(list) \in W
        /\ \A i \in DOMAIN list : FirstWake(list) <= wake[list[i]]
    BY <2>7, <2>8
  <2> QED BY <2>3, <2>9 DEF ToSet
<1> QED BY <1>1, <1>2

-----------------------------------------------------------------------------
(* One tick, and the loop of xTaskResumeAll over the ticks that were missed. *)

\* The sum of two tick counts wraps at most once.
LEMMA Modulo ==
  ASSUME NEW n \in Nat \ {0}, NEW a \in 0 .. n - 1, NEW b \in 0 .. n - 1
  PROVE  (a + b) % n = IF a + b < n THEN a + b ELSE a + b - n
<1>1. CASE a + b < n
  BY <1>1
<1>2. CASE a + b >= n
  <2>1. a + b - n \in 0 .. n - 1 /\ a + b = 1 * n + (a + b - n)
    BY <1>2
  <2> QED BY <1>2, <2>1
<1> QED BY <1>1, <1>2

TickRecord == [count : Ticks, next : Ticks, delayed : Seq(Sleepers),
               overflowed : Seq(Sleepers), ready : Seq(Tasks)]

Sleeping(s) == ToSet(s.delayed) \cup ToSet(s.overflowed)

Sorted(s) ==
  /\ \A t \in ToSet(s.delayed) : wake[t] > s.count /\ s.next <= wake[t]
  /\ \A t \in ToSet(s.overflowed) : wake[t] < s.count

Apart(s) ==
  /\ IsInjective(s.ready) /\ IsInjective(s.delayed) /\ IsInjective(s.overflowed)
  /\ ToSet(s.ready) \cap Sleeping(s) = {}
  /\ ToSet(s.delayed) \cap ToSet(s.overflowed) = {}

\* The ticks that a task with the wake time w has to wait at a tick count.
Left(count, w) == IF w > count THEN w - count ELSE w - count + MaxTick + 1

\* What n ticks make of s: the tasks whose time has come are ready.
Ticked(s, u, n) ==
  /\ u \in TickRecord /\ Sorted(u) /\ Apart(u)
  /\ ToSet(u.ready) \cup Sleeping(u) = ToSet(s.ready) \cup Sleeping(s)
  /\ ToSet(s.ready) \subseteq ToSet(u.ready)
  /\ \A t \in Sleeping(s) : t \in Sleeping(u) <=> Left(s.count, wake[t]) > n
  /\ \A t \in Sleeping(u) :
       t \in Sleeping(s) /\ Left(u.count, wake[t]) = Left(s.count, wake[t]) - n

\* vTaskIncrementTick counts one tick: the lists change places when the count wraps,
\* and no delayed task wakes before xNextTaskUnblockTime.
LEMMA CountedIs ==
  ASSUME KernelAssumption, wake \in [Tasks -> Ticks],
         NEW s \in TickRecord, Sorted(s)
  PROVE  LET u == Counted(s) IN
         /\ u \in TickRecord /\ u.ready = s.ready
         /\ u.count = IF s.count = MaxTick THEN 0 ELSE s.count + 1
         /\ u.delayed = IF s.count = MaxTick THEN s.overflowed ELSE s.delayed
         /\ u.overflowed = IF s.count = MaxTick THEN s.delayed ELSE s.overflowed
         /\ \A t \in ToSet(u.delayed) : u.next <= wake[t]
<1> DEFINE c == (s.count + 1) % (MaxTick + 1)
           u == Counted(s)
<1>1. MaxTick \in Nat \ {0} /\ s.count \in 0 .. MaxTick /\ Sleepers \subseteq Tasks
  BY DEF KernelAssumption, TickRecord, Ticks, Tasks
<1>2. c = IF s.count = MaxTick THEN 0 ELSE s.count + 1
  <2>1. CASE s.count = MaxTick
    BY <1>1, <2>1
  <2>2. CASE s.count # MaxTick
    BY <1>1, <2>2
  <2> QED BY <2>1, <2>2
<1>3. s = [count |-> s.count, next |-> s.next, delayed |-> s.delayed,
           overflowed |-> s.overflowed, ready |-> s.ready]
  BY DEF TickRecord
<1>4. CASE s.count = MaxTick
  <2>1. c = 0
    BY <1>2, <1>4
  <2>2. u = [count |-> 0, next |-> FirstWake(s.overflowed), delayed |-> s.overflowed,
             overflowed |-> s.delayed, ready |-> s.ready]
    <3> HIDE DEF c
    <3>1. u = [s EXCEPT !.count = 0, !.delayed = s.overflowed, !.overflowed = s.delayed,
                        !.next = FirstWake(s.overflowed)]
      BY <2>1 DEF Counted, c
    <3> QED BY <1>3, <3>1
  <2>3. s.overflowed \in Seq(Tasks)
    BY <1>1 DEF TickRecord
  <2>4. /\ FirstWake(s.overflowed) \in Ticks
        /\ \A t \in ToSet(s.overflowed) : FirstWake(s.overflowed) <= wake[t]
    BY <1>1, <2>3, FirstWakeIs
  <2>5. u \in TickRecord
    BY <1>1, <2>2, <2>4 DEF TickRecord, Ticks
  <2> HIDE DEF u
  <2> QED BY <1>4, <2>2, <2>4, <2>5 DEF u
<1>5. CASE s.count # MaxTick
  <2>1. c = s.count + 1 /\ c # 0
    BY <1>1, <1>2, <1>5
  <2>2. u = [count |-> s.count + 1, next |-> s.next, delayed |-> s.delayed,
             overflowed |-> s.overflowed, ready |-> s.ready]
    <3> HIDE DEF c
    <3>1. u = [s EXCEPT !.count = s.count + 1]
      BY <2>1 DEF Counted, c
    <3> QED BY <1>3, <3>1
  <2>3. u \in TickRecord
    BY <1>1, <1>5, <2>2 DEF TickRecord, Ticks
  <2> HIDE DEF u
  <2> QED BY <1>5, <2>2, <2>3 DEF u, Sorted
<1> QED BY <1>4, <1>5

\* prvCheckDelayedTasks makes the delayed tasks ready whose time has come, and no
\* others.
LEMMA CheckedIs ==
  ASSUME KernelAssumption, wake \in [Tasks -> Ticks],
         NEW s \in TickRecord, \A t \in ToSet(s.delayed) : s.next <= wake[t]
  PROVE  LET u == Checked(s)
             due == {t \in ToSet(s.delayed) : wake[t] <= s.count} IN
         /\ u \in TickRecord /\ u.count = s.count /\ u.overflowed = s.overflowed
         /\ ToSet(u.delayed) = ToSet(s.delayed) \ due
         /\ ToSet(u.ready) = ToSet(s.ready) \cup due
         /\ IsInjective(s.delayed) => IsInjective(u.delayed)
         /\ IsInjective(s.ready) /\ IsInjective(s.delayed) /\ ToSet(s.ready) \cap ToSet(s.delayed) = {}
              => IsInjective(u.ready)
         /\ \A t \in ToSet(u.delayed) : u.next <= wake[t]
<1> DEFINE u == Checked(s)
           due == {t \in ToSet(s.delayed) : wake[t] <= s.count}
           late == {t \in Tasks : wake[t] <= s.count}
           gone == Only(s.delayed, late)
           rest == Only(s.delayed, Tasks \ late)
<1>1. /\ MaxTick \in Nat \ {0} /\ s.count \in 0 .. MaxTick /\ Sleepers \subseteq Tasks
      /\ s.next \in 0 .. MaxTick
      /\ s.delayed \in Seq(Sleepers) /\ s.overflowed \in Seq(Sleepers) /\ s.ready \in Seq(Tasks)
  BY DEF KernelAssumption, TickRecord, Ticks, Tasks
<1>2. s = [count |-> s.count, next |-> s.next, delayed |-> s.delayed,
           overflowed |-> s.overflowed, ready |-> s.ready]
  BY DEF TickRecord
<1>3. ToSet(s.delayed) \subseteq Sleepers
  BY <1>1 DEF ToSet
<1>4. \A t \in Tasks : wake[t] \in 0 .. MaxTick
  BY DEF Ticks
<1>5. CASE s.count < s.next
  <2>1. u = s
    BY <1>5 DEF Checked
  <2>2. due = {}
    BY <1>1, <1>3, <1>4, <1>5
  <2> HIDE DEF u, due
  <2>3. ToSet(u.delayed) = ToSet(s.delayed) \ due /\ ToSet(u.ready) = ToSet(s.ready) \cup due
    BY <2>1, <2>2
  <2> QED BY <2>1, <2>3 DEF u, due
<1>6. CASE ~(s.count < s.next)
  <2> HIDE DEF late
  <2>1. u = [count |-> s.count, next |-> FirstWake(rest), delayed |-> rest,
             overflowed |-> s.overflowed, ready |-> s.ready \o gone]
    <3>1. u = [s EXCEPT !.ready = s.ready \o gone, !.delayed = rest, !.next = FirstWake(rest)]
      BY <1>6, <1>2 DEF Checked, late
    <3> HIDE DEF gone, rest, u
    <3> QED BY <1>2, <3>1
  <2>2. /\ gone \in Seq(Sleepers) /\ ToSet(gone) = ToSet(s.delayed) \cap late
        /\ IsInjective(s.delayed) => IsInjective(gone)
    BY <1>1, OnlyIs
  <2>3. /\ rest \in Seq(Sleepers) /\ ToSet(rest) = ToSet(s.delayed) \cap (Tasks \ late)
        /\ IsInjective(s.delayed) => IsInjective(rest)
    BY <1>1, OnlyIs
  <2>4. ToSet(gone) = due /\ ToSet(rest) = ToSet(s.delayed) \ due
    BY <1>1, <1>3, <2>2, <2>3 DEF late
  <2> HIDE DEF gone, rest, due, u
  <2>5. rest \in Seq(Tasks) /\ gone \in Seq(Tasks)
    BY <1>1, <2>2, <2>3
  <2>6. FirstWake(rest) \in Ticks /\ \A t \in ToSet(rest) : FirstWake(rest) <= wake[t]
    BY <1>1, <2>5, FirstWakeIs
  <2>7. /\ s.ready \o gone \in Seq(Tasks) /\ ToSet(s.ready \o gone) = ToSet(s.ready) \cup ToSet(gone)
        /\ IsInjective(s.ready \o gone) <=>
             IsInjective(s.ready) /\ IsInjective(gone) /\ ToSet(s.ready) \cap ToSet(gone) = {}
    BY <1>1, <2>5, Concatenated
  <2>8. u \in TickRecord
    BY <1>1, <2>1, <2>3, <2>6, <2>7 DEF TickRecord, Ticks
  <2>9. due \subseteq ToSet(s.delayed)
    BY DEF due
  <2>10. /\ u.count = s.count /\ u.overflowed = s.overflowed /\ u.delayed = rest
         /\ u.ready = s.ready \o gone /\ u.next = FirstWake(rest)
    BY <2>1
  <2>11. /\ ToSet(u.delayed) = ToSet(s.delayed) \ due
         /\ ToSet(u.ready) = ToSet(s.ready) \cup due
         /\ \A t \in ToSet(u.delayed) : u.next <= wake[t]
    BY <2>4, <2>6, <2>7, <2>10
  <2>12. /\ IsInjective(s.delayed) => IsInjective(u.delayed)
         /\ IsInjective(s.ready) /\ IsInjective(s.delayed) /\ ToSet(s.ready) \cap ToSet(s.delayed) = {}
              => IsInjective(u.ready)
    BY <2>2, <2>3, <2>4, <2>7, <2>9, <2>10
  <2> QED BY <2>8, <2>10, <2>11, <2>12 DEF u, due
<1> QED BY <1>5, <1>6

\* One vTaskIncrementTick: every task that sleeps has one tick less to wait, those
\* whose wait is over are ready, and each task is still in one list.
LEMMA OneTick ==
  ASSUME KernelAssumption, wake \in [Tasks -> Ticks],
         NEW s \in TickRecord, Sorted(s), Apart(s)
  PROVE  Ticked(s, Checked(Counted(s)), 1)
<1> DEFINE m == Counted(s)
           u == Checked(m)
           due == {t \in ToSet(m.delayed) : wake[t] <= m.count}
<1>1. /\ m \in TickRecord /\ m.ready = s.ready
      /\ m.count = IF s.count = MaxTick THEN 0 ELSE s.count + 1
      /\ m.delayed = IF s.count = MaxTick THEN s.overflowed ELSE s.delayed
      /\ m.overflowed = IF s.count = MaxTick THEN s.delayed ELSE s.overflowed
      /\ \A t \in ToSet(m.delayed) : m.next <= wake[t]
  BY CountedIs
<1>2. /\ u \in TickRecord /\ u.count = m.count /\ u.overflowed = m.overflowed
      /\ ToSet(u.delayed) = ToSet(m.delayed) \ due
      /\ ToSet(u.ready) = ToSet(m.ready) \cup due
      /\ IsInjective(m.delayed) => IsInjective(u.delayed)
      /\ IsInjective(m.ready) /\ IsInjective(m.delayed) /\ ToSet(m.ready) \cap ToSet(m.delayed) = {}
           => IsInjective(u.ready)
      /\ \A t \in ToSet(u.delayed) : u.next <= wake[t]
  <2> HIDE DEF m
  <2> QED BY <1>1, CheckedIs
<1>3. /\ MaxTick \in Nat \ {0} /\ s.count \in 0 .. MaxTick
      /\ \A t \in Sleeping(s) : t \in Sleepers /\ wake[t] \in 0 .. MaxTick
  BY DEF KernelAssumption, TickRecord, Ticks, Tasks, Sleeping, ToSet
<1> HIDE DEF m, u
<1>4. /\ Sleeping(m) = Sleeping(s)
      /\ \A t \in Sleeping(s) : t \in ToSet(s.delayed) => wake[t] > s.count
      /\ \A t \in Sleeping(s) : t \in ToSet(s.overflowed) => wake[t] < s.count
  BY <1>1 DEF Sleeping, Sorted
<1>5. ASSUME NEW t \in Sleeping(s)
      PROVE  /\ t \in due <=> Left(s.count, wake[t]) = 1
             /\ t \notin due => /\ Left(s.count, wake[t]) > 1
                                /\ Left(u.count, wake[t]) = Left(s.count, wake[t]) - 1
                                /\ t \in ToSet(u.delayed) => wake[t] > u.count
                                /\ t \in ToSet(u.overflowed) => wake[t] < u.count
  <2>1. CASE s.count = MaxTick
    <3>1. t \notin ToSet(s.delayed) /\ t \in ToSet(s.overflowed)
      BY <1>3, <1>4, <2>1 DEF Sleeping
    <3>2. m.count = 0 /\ t \in ToSet(m.delayed) /\ t \notin ToSet(m.overflowed)
      BY <1>1, <2>1, <3>1
    <3>3. u.count = 0 /\ t \notin ToSet(u.overflowed)
      BY <1>2, <3>2
    <3>4. t \in due <=> wake[t] <= 0
      BY <3>2
    <3> HIDE DEF due
    <3> QED BY <1>3, <2>1, <3>3, <3>4, <1>4, <3>1 DEF Left
  <2>2. CASE s.count # MaxTick
    <3>1. /\ m.count = s.count + 1 /\ u.count = s.count + 1
          /\ m.delayed = s.delayed /\ u.overflowed = s.overflowed
          /\ ToSet(u.delayed) = ToSet(s.delayed) \ due
      BY <1>1, <1>2, <2>2
    <3>2. CASE t \in ToSet(s.delayed)
      <4>1. t \notin ToSet(s.overflowed)
        BY <3>2 DEF Apart
      <4>2. t \in due <=> wake[t] <= s.count + 1
        BY <3>1, <3>2
      <4>3. wake[t] > s.count
        BY <1>4, <3>2
      <4> HIDE DEF due
      <4> QED BY <1>3, <2>2, <3>1, <4>1, <4>2, <4>3 DEF Left
    <3>3. CASE t \in ToSet(s.overflowed)
      <4>1. t \notin ToSet(s.delayed)
        BY <3>3 DEF Apart
      <4>2. t \notin due
        BY <3>1, <4>1
      <4>3. wake[t] < s.count
        BY <1>4, <3>3
      <4> HIDE DEF due
      <4> QED BY <1>3, <2>2, <3>1, <4>1, <4>2, <4>3 DEF Left
    <3> QED BY <3>2, <3>3 DEF Sleeping
  <2> QED BY <2>1, <2>2
<1>6. /\ due \subseteq ToSet(m.delayed) /\ Sleeping(u) = Sleeping(s) \ due
      /\ ToSet(u.ready) = ToSet(s.ready) \cup due
  <2>1. ToSet(m.delayed) \cap ToSet(m.overflowed) = {}
    BY <1>1 DEF Apart
  <2>2. due \subseteq ToSet(m.delayed)
    OBVIOUS
  <2> HIDE DEF due
  <2> QED BY <1>1, <1>2, <1>4, <2>1, <2>2 DEF Sleeping
<1>7. Apart(m)
  <2>1. CASE s.count = MaxTick
    BY <1>1, <1>4, <2>1 DEF Apart
  <2>2. CASE s.count # MaxTick
    BY <1>1, <1>4, <2>2 DEF Apart
  <2> QED BY <2>1, <2>2
<1> HIDE DEF due
<1>8. Apart(u)
  BY <1>1, <1>2, <1>4, <1>6, <1>7 DEF Apart, Sleeping
<1>9. Sorted(u)
  BY <1>2, <1>5, <1>6 DEF Sorted, Sleeping
<1>10. \A t \in Sleeping(s) : t \in Sleeping(u) <=> Left(s.count, wake[t]) > 1
  BY <1>5, <1>6
<1>11. \A t \in Sleeping(u) :
         t \in Sleeping(s) /\ Left(u.count, wake[t]) = Left(s.count, wake[t]) - 1
  BY <1>5, <1>6
<1>12. due \subseteq Sleeping(s)
  BY <1>4, <1>6 DEF Sleeping
<1>13. Ticked(s, u, 1)
  BY <1>2, <1>6, <1>8, <1>9, <1>10, <1>11, <1>12 DEF Ticked
<1> QED BY <1>13 DEF m, u

\* While a task sleeps there is something left of its delay.
LEMMA LeftIsPositive ==
  ASSUME KernelAssumption, wake \in [Tasks -> Ticks], NEW s \in TickRecord, Sorted(s)
  PROVE  \A t \in Sleeping(s) : Left(s.count, wake[t]) \in 1 .. MaxTick
<1>1. /\ MaxTick \in Nat \ {0} /\ s.count \in 0 .. MaxTick
      /\ \A t \in Sleeping(s) : t \in Sleepers /\ wake[t] \in 0 .. MaxTick
  BY DEF KernelAssumption, TickRecord, Ticks, Tasks, Sleeping, ToSet
<1>2. \A t \in Sleeping(s) : wake[t] > s.count \/ wake[t] < s.count
  BY DEF Sleeping, Sorted
<1> QED BY <1>1, <1>2 DEF Left

\* No tick leaves the lists as they are.
LEMMA NoTick ==
  ASSUME KernelAssumption, wake \in [Tasks -> Ticks],
         NEW s \in TickRecord, Sorted(s), Apart(s)
  PROVE  Ticked(s, s, 0)
<1>1. \A t \in Sleeping(s) : Left(s.count, wake[t]) \in 1 .. MaxTick
  BY LeftIsPositive
<1>2. MaxTick \in Nat
  BY DEF KernelAssumption
<1> QED BY <1>1, <1>2 DEF Ticked

\* n ticks and one more are n + 1 ticks.
LEMMA TickedAgain ==
  ASSUME KernelAssumption, wake \in [Tasks -> Ticks],
         NEW s \in TickRecord, Sorted(s), NEW u, NEW v, NEW n \in Nat,
         Ticked(s, u, n), Ticked(u, v, 1)
  PROVE  Ticked(s, v, n + 1)
<1>1. /\ u \in TickRecord /\ Sorted(u) /\ Apart(u)
      /\ ToSet(u.ready) \cup Sleeping(u) = ToSet(s.ready) \cup Sleeping(s)
      /\ ToSet(s.ready) \subseteq ToSet(u.ready)
      /\ \A t \in Sleeping(s) : t \in Sleeping(u) <=> Left(s.count, wake[t]) > n
      /\ \A t \in Sleeping(u) :
           t \in Sleeping(s) /\ Left(u.count, wake[t]) = Left(s.count, wake[t]) - n
  BY DEF Ticked
<1>2. /\ v \in TickRecord /\ Sorted(v) /\ Apart(v)
      /\ ToSet(v.ready) \cup Sleeping(v) = ToSet(u.ready) \cup Sleeping(u)
      /\ ToSet(u.ready) \subseteq ToSet(v.ready)
      /\ \A t \in Sleeping(u) : t \in Sleeping(v) <=> Left(u.count, wake[t]) > 1
      /\ \A t \in Sleeping(v) :
           t \in Sleeping(u) /\ Left(v.count, wake[t]) = Left(u.count, wake[t]) - 1
  BY DEF Ticked
<1>3. \A t \in Sleeping(s) : Left(s.count, wake[t]) \in Int
  BY LeftIsPositive
<1>4. ASSUME NEW t \in Sleeping(s)
      PROVE  t \in Sleeping(v) <=> Left(s.count, wake[t]) > n + 1
  <2>1. CASE t \in Sleeping(u)
    <3>1. Left(u.count, wake[t]) = Left(s.count, wake[t]) - n
      BY <1>1, <2>1
    <3>2. t \in Sleeping(v) <=> Left(u.count, wake[t]) > 1
      BY <1>2, <2>1
    <3> QED BY <1>3, <3>1, <3>2
  <2>2. CASE t \notin Sleeping(u)
    <3>1. ~(Left(s.count, wake[t]) > n) /\ t \notin Sleeping(v)
      BY <1>1, <1>2, <2>2
    <3> QED BY <1>3, <3>1
  <2> QED BY <2>1, <2>2
<1>5. ASSUME NEW t \in Sleeping(v)
      PROVE  t \in Sleeping(s) /\ Left(v.count, wake[t]) = Left(s.count, wake[t]) - (n + 1)
  <2>1. /\ t \in Sleeping(u) /\ t \in Sleeping(s)
        /\ Left(v.count, wake[t]) = Left(u.count, wake[t]) - 1
        /\ Left(u.count, wake[t]) = Left(s.count, wake[t]) - n
    BY <1>1, <1>2
  <2> QED BY <1>3, <2>1
<1>6. /\ ToSet(v.ready) \cup Sleeping(v) = ToSet(s.ready) \cup Sleeping(s)
      /\ ToSet(s.ready) \subseteq ToSet(v.ready)
  BY <1>1, <1>2
<1> QED BY <1>2, <1>4, <1>5, <1>6 DEF Ticked

\* The loop of xTaskResumeAll over n ticks: after[k] is the state after k of them.
Loop(f, s, n) ==
  f = [k \in 0 .. n |-> IF k = 0 THEN s ELSE Checked(Counted(f[k - 1]))]

\* The loop of xTaskResumeAll can count one tick more.
LEMMA LoopGrows ==
  ASSUME NEW s, NEW n \in Nat, NEW f, Loop(f, s, n)
  PROVE  \E g : Loop(g, s, n + 1)
<1> DEFINE last == Checked(Counted(f[n]))
           g == [k \in 0 .. n + 1 |-> IF k = n + 1 THEN last ELSE f[k]]
           h == [k \in 0 .. n + 1 |-> IF k = 0 THEN s ELSE Checked(Counted(g[k - 1]))]
<1>1. \A k \in 0 .. n : g[k] = f[k]
  OBVIOUS
<1>2. ASSUME NEW k \in 0 .. n + 1
      PROVE  g[k] = IF k = 0 THEN s ELSE Checked(Counted(g[k - 1]))
  <2>1. CASE k = n + 1
    <3>1. k # 0 /\ k - 1 = n /\ g[k] = last /\ g[k - 1] = f[n]
      BY <2>1, <1>1
    <3> HIDE DEF g
    <3> QED BY <3>1, <2>1
  <2>2. CASE k # n + 1
    <3>1. k \in 0 .. n /\ g[k] = f[k] /\ (k # 0 => g[k - 1] = f[k - 1])
      BY <2>2, <1>1
    <3> HIDE DEF g
    <3> QED BY <3>1 DEF Loop
  <2> QED BY <2>1, <2>2
<1>3. /\ DOMAIN g = 0 .. n + 1 /\ DOMAIN h = 0 .. n + 1
      /\ g = [k \in 0 .. n + 1 |-> g[k]] /\ h = [k \in 0 .. n + 1 |-> h[k]]
  OBVIOUS
<1>4. \A k \in 0 .. n + 1 : g[k] = h[k]
  <2> HIDE DEF g
  <2> QED BY <1>2
<1>5. g = h
  <2> HIDE DEF g, h
  <2> QED BY <1>3, <1>4
<1>6. Loop(g, s, n + 1)
  <2> HIDE DEF g
  <2> QED BY <1>5 DEF Loop
<1> HIDE DEF g
<1> QED BY <1>6

\* The states that the loop of xTaskResumeAll goes through exist, for any number of
\* ticks.
LEMMA LoopExists ==
  ASSUME NEW s, NEW n \in Nat
  PROVE  \E f : Loop(f, s, n)
<1> DEFINE some == {m \in Nat : \E f : Loop(f, s, m)}
<1>1. Loop([k \in 0 .. 0 |-> s], s, 0)
  BY DEF Loop
<1>2. 0 \in some
  BY <1>1
<1>3. \A m \in Nat : m \in some => m + 1 \in some
  BY LoopGrows
<1>4. Nat \subseteq some
  <2> HIDE DEF some
  <2> QED BY <1>2, <1>3, Induction
<1> QED BY <1>4

\* n calls of vTaskIncrementTick in the loop of xTaskResumeAll: every task that
\* sleeps has n ticks less to wait, and those whose wait is over are ready.
LEMMA IncrementedIs ==
  ASSUME KernelAssumption, wake \in [Tasks -> Ticks],
         NEW s \in TickRecord, Sorted(s), Apart(s), NEW n \in Nat
  PROVE  Ticked(s, Incremented(s, n), n)
<1> DEFINE f == CHOOSE f : Loop(f, s, n)
<1>1. Loop(f, s, n)
  BY LoopExists
<1>2. Incremented(s, n) = f[n]
  BY DEF Incremented, Loop
<1> HIDE DEF f
<1> DEFINE good == {k \in Nat : k <= n => Ticked(s, f[k], k)}
<1>3. 0 \in good
  <2>1. f[0] = s
    BY <1>1 DEF Loop
  <2> QED BY <2>1, NoTick
<1>4. ASSUME NEW k \in Nat, k \in good PROVE k + 1 \in good
  <2> SUFFICES ASSUME k + 1 <= n PROVE Ticked(s, f[k + 1], k + 1)
    OBVIOUS
  <2>1. Ticked(s, f[k], k) /\ k + 1 \in 0 .. n /\ k + 1 # 0 /\ (k + 1) - 1 = k
    BY <1>4
  <2>2. f[k + 1] = Checked(Counted(f[k]))
    BY <1>1, <2>1 DEF Loop
  <2>3. f[k] \in TickRecord /\ Sorted(f[k]) /\ Apart(f[k])
    BY <2>1 DEF Ticked
  <2>4. Ticked(f[k], f[k + 1], 1)
    BY <2>2, <2>3, OneTick
  <2> QED BY <2>1, <2>4, TickedAgain
<1>5. Nat \subseteq good
  <2> HIDE DEF good
  <2> QED BY <1>3, <1>4, Induction
<1>6. n \in good /\ n <= n
  BY <1>5
<1> QED BY <1>2, <1>6

-----------------------------------------------------------------------------
(* The invariant of the lists and the delays. *)

\* Where the running task may be in no list, or asleep already.
OutPc == {"resume", "yield", "unlock", "unlocked"}

Slept == ToSet(delayed) \cup ToSet(overflowed)

KernelType ==
  /\ xTickCount \in Ticks /\ xNextTaskUnblockTime \in Ticks /\ wake \in [Tasks -> Ticks]
  /\ delayed \in Seq(Sleepers) /\ overflowed \in Seq(Sleepers)
  /\ ready \in Seq(Tasks) /\ pending \in Seq({Winc})
  /\ current \in Tasks /\ uxMissedTicks \in Nat /\ owed \in [Sleepers -> Nat]

EachOnce ==
  /\ IsInjective(ready) /\ IsInjective(delayed) /\ IsInjective(overflowed) /\ IsInjective(pending)
  /\ ToSet(ready) \cap Slept = {} /\ ToSet(delayed) \cap ToSet(overflowed) = {}
  /\ ToSet(ready) \cap ToSet(pending) = {}
  /\ waiting => Winc \notin ToSet(ready) \cup ToSet(pending)

Listed ==
  \A t \in Tasks :
    t \in ToSet(ready) \cup Slept \cup ToSet(pending) \/ (t = Winc /\ waiting)

RunsReady == current \in ToSet(ready) \/ at[current] \in OutPc

Positive(n) == IF n > 0 THEN n ELSE 0

\* What is owed to a task that sleeps is what its wake time says, less the ticks
\* that are missed.
Accounts ==
  /\ ~suspended => uxMissedTicks = 0
  /\ \A t \in Slept : owed[t] = Positive(Left(xTickCount, wake[t]) - uxMissedTicks)
  /\ \A t \in Sleepers : at[t] = "delay" => owed[t] = Positive(Delay[t] - uxMissedTicks)

ListInv == KernelType /\ EachOnce /\ Listed /\ RunsReady
DelayInv == SuspensionInv /\ ListInv /\ DelayedBeforeWrap /\ Accounts

WakesOnTime == \A t \in Sleepers : Asleep(t) /\ ~Asleep(t)' => owed'[t] = 0

\* A list holds its members.
LEMMA HoldsMember ==
  ASSUME NEW s, NEW t
  PROVE  Holds(s, t) <=> t \in ToSet(s)
BY DEF Holds, ToSet

\* A task is asleep when it is in one of the two delayed lists.
LEMMA AsleepIs == \A t \in Sleepers : Asleep(t) <=> t \in Slept
BY HoldsMember DEF Asleep, Slept

\* What the proof keeps of the lists says that every task is in one of them.
LEMMA ListInvImplies == KernelAssumption /\ ListInv => OneListEach
<1> SUFFICES ASSUME KernelAssumption, ListInv PROVE OneListEach
  OBVIOUS
<1> DEFINE b == delayed \o overflowed
<1>1. /\ ready \in Seq(Tasks) /\ delayed \in Seq(Tasks) /\ overflowed \in Seq(Tasks)
      /\ pending \in Seq(Tasks)
      /\ ToSet(delayed) \subseteq Sleepers /\ ToSet(overflowed) \subseteq Sleepers
      /\ ToSet(pending) \subseteq {Winc} /\ Winc \notin Sleepers
  BY DEF KernelAssumption, ListInv, KernelType, Tasks, ToSet
<1>2. /\ ready \o delayed \in Seq(Tasks)
      /\ ToSet(ready \o delayed) = ToSet(ready) \cup ToSet(delayed)
      /\ IsInjective(ready \o delayed)
  BY <1>1, Concatenated DEF ListInv, EachOnce, Slept
<1> DEFINE rd == ready \o delayed
<1>3. /\ rd \o overflowed \in Seq(Tasks)
      /\ ToSet(rd \o overflowed) = ToSet(ready) \cup ToSet(delayed) \cup ToSet(overflowed)
      /\ IsInjective(rd \o overflowed)
  <2> HIDE DEF rd
  <2>1. rd \in Seq(Tasks) /\ ToSet(rd) = ToSet(ready) \cup ToSet(delayed) /\ IsInjective(rd)
    BY <1>2 DEF rd
  <2>2. IsInjective(overflowed) /\ ToSet(rd) \cap ToSet(overflowed) = {}
    BY <2>1 DEF ListInv, EachOnce, Slept
  <2> QED BY <1>1, <2>1, <2>2, Concatenated
<1> DEFINE rdo == rd \o overflowed
           lists == rdo \o pending
<1>4. /\ ToSet(lists) = ToSet(ready) \cup Slept \cup ToSet(pending)
      /\ IsInjective(lists)
  <2>1. rdo \in Seq(Tasks) /\ ToSet(rdo) = ToSet(ready) \cup Slept /\ IsInjective(rdo)
    BY <1>3 DEF Slept
  <2> HIDE DEF rdo
  <2>2. IsInjective(pending) /\ ToSet(rdo) \cap ToSet(pending) = {}
    BY <1>1, <2>1 DEF ListInv, EachOnce, Slept
  <2> QED BY <1>1, <2>1, <2>2, Concatenated
<1> HIDE DEF lists, rdo, rd
<1>5. /\ \A i, j \in DOMAIN lists : lists[i] = lists[j] => i = j
      /\ waiting => ~Holds(lists, Winc)
      /\ \A t \in Tasks : Holds(lists, t) \/ (t = Winc /\ waiting)
  <2>1. waiting => ~Holds(lists, Winc)
    BY <1>1, <1>4, HoldsMember DEF ListInv, EachOnce, Slept
  <2>2. \A t \in Tasks : Holds(lists, t) \/ (t = Winc /\ waiting)
    BY <1>4, HoldsMember DEF ListInv, Listed
  <2> QED BY <1>4, <2>1, <2>2 DEF IsInjective
<1>6. lists = ready \o delayed \o overflowed \o pending
  BY DEF lists, rdo, rd
<1> QED BY <1>5, <1>6 DEF OneListEach

\* What the proof keeps of the delays says that no task sleeps for longer than it
\* asked to: nothing is owed to a task that is due.
LEMMA AccountsImply ==
  KernelAssumption /\ ListInv /\ DelayedBeforeWrap /\ Accounts => NeverLate
<1> SUFFICES ASSUME KernelAssumption, ListInv, DelayedBeforeWrap, Accounts, ~suspended,
                    NEW t \in Slept
             PROVE  owed[t] > 0
  BY DEF NeverLate, Slept
<1>1. /\ MaxTick \in Nat /\ xTickCount \in 0 .. MaxTick /\ t \in Sleepers
      /\ wake[t] \in 0 .. MaxTick
  BY DEF KernelAssumption, ListInv, KernelType, Ticks, Slept, ToSet, Tasks
<1>2. wake[t] > xTickCount \/ wake[t] < xTickCount
  BY DEF DelayedBeforeWrap, Slept
<1>3. owed[t] = Positive(Left(xTickCount, wake[t]) - 0)
  BY DEF Accounts
<1> QED BY <1>1, <1>2, <1>3 DEF Positive, Left

\* Turning the ready list by one loses no task and doubles none.
LEMMA Turned ==
  ASSUME NEW T, NEW r \in Seq(T), r # <<>>
  PROVE  LET q == Append(Tail(r), Head(r)) IN
         /\ q \in Seq(T) /\ ToSet(q) = ToSet(r) /\ Head(r) \in ToSet(r)
         /\ IsInjective(r) => IsInjective(q)
<1> DEFINE q == Append(Tail(r), Head(r))
           n == Len(r)
<1>1. /\ n \in Nat \ {0} /\ q \in Seq(T) /\ DOMAIN r = 1 .. n /\ DOMAIN q = 1 .. n
      /\ q[n] = r[1] /\ Head(r) = r[1]
      /\ \A i \in 1 .. n : i # n => q[i] = r[i + 1]
  OBVIOUS
<1> HIDE DEF q, n
<1>2. ASSUME NEW x \in ToSet(q) PROVE x \in ToSet(r)
  <2>1. PICK i \in 1 .. n : q[i] = x
    BY <1>1, <1>2 DEF ToSet
  <2>2. CASE i = n
    BY <1>1, <2>1, <2>2 DEF ToSet
  <2>3. CASE i # n
    <3>1. i + 1 \in 1 .. n /\ r[i + 1] = x
      BY <1>1, <2>1, <2>3
    <3> QED BY <1>1, <3>1 DEF ToSet
  <2> QED BY <2>2, <2>3
<1>3. ASSUME NEW x \in ToSet(r) PROVE x \in ToSet(q)
  <2>1. PICK i \in 1 .. n : r[i] = x
    BY <1>1, <1>3 DEF ToSet
  <2>2. CASE i = 1
    <3>1. q[n] = x /\ n \in 1 .. n
      BY <1>1, <2>1, <2>2
    <3> QED BY <1>1, <3>1 DEF ToSet
  <2>3. CASE i # 1
    <3>1. i - 1 \in 1 .. n /\ i - 1 # n /\ (i - 1) + 1 = i
      BY <1>1, <2>1, <2>3
    <3>2. q[i - 1] = x
      BY <1>1, <2>1, <3>1
    <3> QED BY <1>1, <3>1, <3>2 DEF ToSet
  <2> QED BY <2>2, <2>3
<1>4. ASSUME IsInjective(r) PROVE IsInjective(q)
  <2> SUFFICES ASSUME NEW i \in 1 .. n, NEW j \in 1 .. n, q[i] = q[j] PROVE i = j
    BY <1>1 DEF IsInjective
  <2>1. \A k \in 1 .. n : k # n => k + 1 \in 1 .. n /\ k + 1 # 1 /\ q[k] = r[k + 1]
    BY <1>1
  <2>2. 1 \in 1 .. n
    BY <1>1
  <2>3. CASE i = n /\ j # n
    BY <1>1, <1>4, <2>1, <2>2, <2>3 DEF IsInjective
  <2>4. CASE i # n /\ j = n
    BY <1>1, <1>4, <2>1, <2>2, <2>4 DEF IsInjective
  <2>5. CASE i # n /\ j # n
    <3>1. i + 1 = j + 1
      BY <1>1, <1>4, <2>1, <2>5 DEF IsInjective
    <3> QED BY <3>1
  <2> QED BY <2>3, <2>4, <2>5
<1>5. Head(r) \in ToSet(r)
  BY <1>1 DEF ToSet
<1> QED BY <1>1, <1>2, <1>3, <1>4, <1>5 DEF q

\* The idle task is always ready, so that a switch has a task to run.
LEMMA IdleIsReady ==
  KernelAssumption /\ ListInv => Idle \in ToSet(ready) /\ ready # <<>>
<1> SUFFICES ASSUME KernelAssumption, ListInv PROVE Idle \in ToSet(ready) /\ ready # <<>>
  OBVIOUS
<1>1. Slept \subseteq Sleepers /\ ToSet(pending) \subseteq {Winc}
  BY DEF ListInv, KernelType, Slept, ToSet
<1>2. Idle \in ToSet(ready)
  BY <1>1 DEF KernelAssumption, Tasks, ListInv, Listed
<1>3. ASSUME ready = <<>> PROVE FALSE
  <2>1. DOMAIN ready = {}
    BY <1>3
  <2> QED BY <1>2, <2>1 DEF ToSet
<1> QED BY <1>2, <1>3

\* vTaskSwitchContext loses no ready task, and runs a ready one unless the scheduler
\* is suspended.
LEMMA Switched ==
  ASSUME NEW r \in Seq(Tasks), r # <<>>, SwitchContext(r)
  PROVE  /\ ready' \in Seq(Tasks) /\ ToSet(ready)' = ToSet(r)
         /\ IsInjective(r) => IsInjective(ready')
         /\ IF suspended THEN current' = current ELSE current' \in ToSet(r)
<1>1. CASE suspended
  BY <1>1 DEF SwitchContext, ToSet
<1>2. CASE ~suspended
  <2>1. ready' = Append(Tail(r), Head(r)) /\ current' = Head(r)
    BY <1>2 DEF SwitchContext
  <2>2. /\ ready' \in Seq(Tasks) /\ ToSet(ready') = ToSet(r) /\ Head(r) \in ToSet(r)
        /\ IsInjective(r) => IsInjective(ready')
    BY <2>1, Turned
  <2> QED BY <1>2, <2>1, <2>2
<1> QED BY <1>1, <1>2

-----------------------------------------------------------------------------
(* The steps that leave the delayed lists alone. *)

\* Only tasks that delay themselves are in the delayed lists.
LEMMA SleptSleepers == DelayInv => Slept \subseteq Sleepers
BY DEF DelayInv, ListInv, KernelType, Slept, ToSet

\* A step that keeps the delayed lists and the members of the ready list keeps every
\* task in one list.
LEMMA SameLists ==
  ASSUME KernelAssumption, DelayInv,
         UNCHANGED <<tickVars, pending, waiting>>,
         ready' \in Seq(Tasks), ToSet(ready)' = ToSet(ready), IsInjective(ready'),
         current' \in Tasks, RunsReady',
         owed' \in [Sleepers -> Nat], uxMissedTicks' \in Nat
  PROVE  ListInv' /\ DelayedBeforeWrap' /\ Slept' = Slept
<1>1. KernelType' /\ Slept' = Slept
  BY DEF tickVars, DelayInv, ListInv, KernelType, Slept
<1>2. EachOnce'
  BY <1>1 DEF tickVars, DelayInv, ListInv, EachOnce
<1>3. Listed'
  BY <1>1 DEF tickVars, DelayInv, ListInv, Listed
<1>4. DelayedBeforeWrap'
  BY DEF tickVars, DelayInv, DelayedBeforeWrap
<1> QED BY <1>1, <1>2, <1>3, <1>4 DEF ListInv

\* A step that changes no list and no debt keeps the accounts, if it does not resume
\* the scheduler and begins no delay.
LEMMA SameAccounts ==
  ASSUME DelayInv, UNCHANGED <<tickVars, owed, uxMissedTicks>>,
         ~suspended' => ~suspended,
         \A t \in Sleepers : at'[t] = "delay" => at[t] = "delay"
  PROVE  Accounts' /\ WakesOnTime
<1>1. Slept' = Slept
  BY DEF tickVars, Slept
<1>2. Accounts'
  BY <1>1 DEF tickVars, DelayInv, Accounts
<1>3. \A t \in Sleepers : Asleep(t)' <=> Asleep(t)
  BY DEF tickVars, Asleep, Holds
<1> QED BY <1>2, <1>3 DEF WakesOnTime

\* A task that goes on without leaving the ready list leaves a ready task running.
LEMMA Proceeds ==
  ASSUME DelayInv, NEW t \in Tasks, NEW here, NEW there, Runs(t, here, there),
         UNCHANGED runVars, here \in OutPc => there \in OutPc
  PROVE  RunsReady'
<1>1. at'[t] = there /\ current = t /\ at[t] = here
  BY DEF Runs, DelayInv, SuspensionInv, PcTypeOK
<1> QED BY <1>1 DEF DelayInv, ListInv, RunsReady, runVars

\* A step of task_winc that touches no list: the WINC driver's work, the test of
\* the semaphore, and the locking of its queue.
LEMMA QuietStep ==
  ASSUME KernelAssumption, DelayInv, SuspensionInv', NEW here, NEW there,
         Runs(Winc, here, there), here \in OutPc => there \in OutPc,
         UNCHANGED <<tickVars, runVars, pending, waiting, owed, uxMissedTicks>>,
         ~suspended' => ~suspended
  PROVE  DelayInv' /\ WakesOnTime
<1>1. Winc \in Tasks /\ Winc \notin Sleepers
  BY DEF KernelAssumption, Tasks
<1>2. RunsReady'
  <2>1. UNCHANGED runVars
    OBVIOUS
  <2> QED BY <1>1, <2>1, Proceeds
<1>3. ready' = ready /\ current' = current /\ owed' = owed /\ uxMissedTicks' = uxMissedTicks
  BY DEF runVars
<1>4. /\ ready' \in Seq(Tasks) /\ ToSet(ready)' = ToSet(ready) /\ IsInjective(ready')
      /\ current' \in Tasks /\ owed' \in [Sleepers -> Nat] /\ uxMissedTicks' \in Nat
  BY <1>3 DEF DelayInv, ListInv, KernelType, EachOnce, ToSet
<1>5. ListInv' /\ DelayedBeforeWrap'
  <2>1. UNCHANGED <<tickVars, pending, waiting>>
    OBVIOUS
  <2> QED BY <1>2, <1>4, <2>1, SameLists
<1>6. \A t \in Sleepers : at'[t] = at[t]
  BY <1>1 DEF Runs, DelayInv, SuspensionInv, PcTypeOK, Tasks
<1>7. Accounts' /\ WakesOnTime
  <2>1. UNCHANGED <<tickVars, owed, uxMissedTicks>>
    OBVIOUS
  <2> QED BY <1>6, <2>1, SameAccounts
<1> QED BY <1>5, <1>7 DEF DelayInv

\* A step that switches tasks and leaves every task where it is.
LEMMA SwitchStep ==
  ASSUME KernelAssumption, DelayInv, SuspensionInv',
         SwitchContext(ready), UNCHANGED <<tickVars, pending, waiting>>,
         \/ at' = at
         \/ ~suspended /\ \A t \in Tasks : at'[t] # at[t] => at'[t] # "delay",
         suspended' = suspended, owed' \in [Sleepers -> Nat], uxMissedTicks' \in Nat
  PROVE  ListInv' /\ DelayedBeforeWrap' /\ Slept' = Slept
<1>1. /\ ready' \in Seq(Tasks) /\ ToSet(ready)' = ToSet(ready) /\ IsInjective(ready')
      /\ IF suspended THEN current' = current ELSE current' \in ToSet(ready)
  <2>1. ready # <<>> /\ ready \in Seq(Tasks) /\ IsInjective(ready)
    BY IdleIsReady DEF DelayInv, ListInv, KernelType, EachOnce
  <2> QED BY <2>1, Switched
<1>2. ToSet(ready) \subseteq Tasks
  BY DEF DelayInv, ListInv, KernelType, ToSet
<1>3. current' \in Tasks /\ RunsReady'
  BY <1>1, <1>2 DEF DelayInv, ListInv, KernelType, RunsReady
<1> QED BY <1>1, <1>3, SameLists

\* taskYIELD of a task.
LEMMA YieldStep ==
  ASSUME KernelAssumption, DelayInv, SuspensionInv', NEW t \in Sleepers \cup {Winc},
         NEW there, there # "delay", Yield(t, there)
  PROVE  DelayInv' /\ WakesOnTime
<1>1. /\ UNCHANGED <<tickVars, pending, waiting, owed, uxMissedTicks>> /\ suspended' = suspended
      /\ SwitchContext(ready)
  BY DEF Yield, semaphoreVars
<1>2. ~suspended
  BY DEF Yield, Runs, DelayInv, SuspensionInv, SuspensionExcludes, SuspendedPc
<1>3. \A u \in Tasks : at'[u] # at[u] => at'[u] # "delay"
  BY DEF Yield, Runs, DelayInv, SuspensionInv, PcTypeOK
<1>4. owed' \in [Sleepers -> Nat] /\ uxMissedTicks' \in Nat
  BY <1>1 DEF DelayInv, ListInv, KernelType
<1>5. ListInv' /\ DelayedBeforeWrap'
  <2>1. UNCHANGED <<tickVars, pending, waiting>>
    BY <1>1
  <2> QED BY <1>1, <1>2, <1>3, <1>4, <2>1, SwitchStep
<1>6. Accounts' /\ WakesOnTime
  <2>1. UNCHANGED <<tickVars, owed, uxMissedTicks>>
    BY <1>1
  <2>2. \A u \in Sleepers : at'[u] = "delay" => at[u] = "delay"
    BY <1>3 DEF Tasks
  <2> QED BY <1>1, <2>1, <2>2, SameAccounts
<1> QED BY <1>5, <1>6 DEF DelayInv

\* taskYIELD of the idle task.
LEMMA IdleYieldsStep ==
  ASSUME KernelAssumption, DelayInv, SuspensionInv', IdleYields
  PROVE  DelayInv' /\ WakesOnTime
<1>1. /\ UNCHANGED <<tickVars, pending, waiting, owed, uxMissedTicks>> /\ suspended' = suspended
      /\ SwitchContext(ready) /\ at' = at
  BY DEF IdleYields, semaphoreVars
<1>2. owed' \in [Sleepers -> Nat] /\ uxMissedTicks' \in Nat
  BY <1>1 DEF DelayInv, ListInv, KernelType
<1>3. ListInv' /\ DelayedBeforeWrap'
  <2>1. UNCHANGED <<tickVars, pending, waiting>>
    BY <1>1
  <2> QED BY <1>1, <1>2, <2>1, SwitchStep
<1>4. Accounts' /\ WakesOnTime
  <2>1. UNCHANGED <<tickVars, owed, uxMissedTicks>>
    BY <1>1
  <2> QED BY <1>1, <2>1, SameAccounts
<1> QED BY <1>3, <1>4 DEF DelayInv

\* The beginning of vTaskDelay: what is owed to the task is its delay.
LEMMA StartDelayStep ==
  ASSUME KernelAssumption, DelayInv, SuspensionInv', NEW t \in Sleepers, StartDelay(t)
  PROVE  DelayInv' /\ WakesOnTime
<1>1. /\ UNCHANGED <<tickVars, runVars, pending, waiting, uxMissedTicks>>
      /\ suspended' = TRUE /\ owed' = [owed EXCEPT ![t] = Delay[t]]
      /\ Runs(t, "run", "delay")
  BY DEF StartDelay, SuspendAll, semaphoreVars
<1>2. t \in Tasks /\ Delay[t] \in 1 .. MaxTick /\ MaxTick \in Nat
  BY DEF Tasks, KernelAssumption
<1>3. current = t /\ at[t] = "run" /\ at' = [at EXCEPT ![t] = "delay"]
  BY <1>1 DEF Runs
<1>4. ~suspended /\ uxMissedTicks = 0
  BY <1>3 DEF DelayInv, SuspensionInv, SuspensionExcludes, SuspendedPc, Accounts
<1>5. t \in ToSet(ready) /\ t \notin Slept
  BY <1>3 DEF DelayInv, ListInv, RunsReady, OutPc, EachOnce
<1>6. RunsReady'
  <2>1. UNCHANGED runVars
    BY <1>1
  <2> QED BY <1>1, <1>2, <2>1, Proceeds DEF OutPc
<1>7. /\ ready' \in Seq(Tasks) /\ ToSet(ready)' = ToSet(ready) /\ IsInjective(ready')
      /\ current' \in Tasks /\ owed' \in [Sleepers -> Nat] /\ uxMissedTicks' \in Nat
  BY <1>1, <1>2 DEF runVars, DelayInv, ListInv, KernelType, EachOnce, ToSet
<1>8. ListInv' /\ DelayedBeforeWrap' /\ Slept' = Slept
  <2>1. UNCHANGED <<tickVars, pending, waiting>>
    BY <1>1
  <2> QED BY <1>6, <1>7, <2>1, SameLists
<1>9. Accounts'
  <2>1. \A u \in Slept : owed'[u] = owed[u]
    <3>1. Slept \subseteq Sleepers /\ owed \in [Sleepers -> Nat]
      BY SleptSleepers DEF DelayInv, ListInv, KernelType
    <3> QED BY <1>1, <1>5, <3>1
  <2>2. \A u \in Slept' : owed'[u] = Positive(Left(xTickCount', wake'[u]) - uxMissedTicks')
    BY <1>1, <1>8, <2>1 DEF tickVars, DelayInv, Accounts
  <2>3. owed'[t] = Delay[t] /\ Positive(Delay[t] - uxMissedTicks') = Delay[t]
    BY <1>1, <1>2, <1>4 DEF DelayInv, ListInv, KernelType, Positive
  <2>4. \A u \in Sleepers : u # t => owed'[u] = owed[u] /\ at'[u] = at[u]
    BY <1>1, <1>3 DEF DelayInv, ListInv, KernelType, SuspensionInv, PcTypeOK, Tasks
  <2>5. \A u \in Sleepers : at'[u] = "delay" => owed'[u] = Positive(Delay[u] - uxMissedTicks')
    BY <1>1, <2>3, <2>4 DEF DelayInv, Accounts
  <2> QED BY <1>1, <2>2, <2>5 DEF Accounts
<1>10. \A u \in Sleepers : Asleep(u)' <=> Asleep(u)
  BY <1>1 DEF tickVars, Asleep, Holds
<1> QED BY <1>8, <1>9, <1>10 DEF DelayInv, WakesOnTime

-----------------------------------------------------------------------------
(* The steps that put a task to sleep, and those that wake task_winc. *)

\* A task that is put at the end of a list which does not hold it is in it once.
LEMMA Appended ==
  ASSUME NEW T, NEW r \in Seq(T), NEW x \in T
  PROVE  LET q == Append(r, x) IN
         /\ q \in Seq(T) /\ ToSet(q) = ToSet(r) \cup {x}
         /\ IsInjective(r) /\ x \notin ToSet(r) => IsInjective(q)
<1> DEFINE q == Append(r, x)
           n == Len(r) + 1
<1>1. /\ q \in Seq(T) /\ DOMAIN q = DOMAIN r \cup {n} /\ n \notin DOMAIN r
      /\ q[n] = x /\ \A i \in DOMAIN r : q[i] = r[i]
  OBVIOUS
<1> HIDE DEF q, n
<1>2. ToSet(q) = ToSet(r) \cup {x}
  BY <1>1 DEF ToSet
<1>3. ASSUME IsInjective(r), x \notin ToSet(r) PROVE IsInjective(q)
  BY <1>1, <1>3 DEF IsInjective, ToSet
<1> QED BY <1>1, <1>2, <1>3 DEF q

\* vTaskDelay puts the running task, and it alone, in the list of its wake time, where
\* it has its delay to wait.
LEMMA DelayCurrentStep ==
  ASSUME KernelAssumption, DelayInv, SuspensionInv', NEW t \in Sleepers, DelayCurrent(t)
  PROVE  DelayInv' /\ WakesOnTime
<1> DEFINE time == (xTickCount + Delay[t]) % (MaxTick + 1)
           left == Only(ready, Tasks \ {t})
<1>1. /\ Runs(t, "delay", "resume") /\ ready' = left /\ wake' = [wake EXCEPT ![t] = time]
      /\ UNCHANGED <<xTickCount, current, suspended, uxMissedTicks, pending, waiting, owed>>
      /\ IF time < xTickCount
         THEN /\ overflowed' = Append(overflowed, t)
              /\ UNCHANGED <<delayed, xNextTaskUnblockTime>>
         ELSE /\ delayed' = Append(delayed, t)
              /\ xNextTaskUnblockTime' =
                   IF time < xNextTaskUnblockTime THEN time ELSE xNextTaskUnblockTime
              /\ UNCHANGED overflowed
  BY DEF DelayCurrent, suspendVars, semaphoreVars
<1>2. /\ MaxTick \in Nat \ {0} /\ xTickCount \in 0 .. MaxTick /\ Delay[t] \in 1 .. MaxTick
      /\ xNextTaskUnblockTime \in 0 .. MaxTick
      /\ t \in Tasks /\ t # Winc
      /\ \A u \in Tasks : wake[u] \in 0 .. MaxTick
  BY DEF KernelAssumption, DelayInv, ListInv, KernelType, Ticks, Tasks
<1>3. time = IF xTickCount + Delay[t] < MaxTick + 1 THEN xTickCount + Delay[t]
             ELSE xTickCount + Delay[t] - (MaxTick + 1)
  <2> DEFINE n == MaxTick + 1
  <2>1. n \in Nat \ {0} /\ xTickCount \in 0 .. n - 1 /\ Delay[t] \in 0 .. n - 1
    BY <1>2
  <2>2. time = (xTickCount + Delay[t]) % n
    OBVIOUS
  <2> HIDE DEF n, time
  <2>3. time = IF xTickCount + Delay[t] < n THEN xTickCount + Delay[t]
               ELSE xTickCount + Delay[t] - n
    BY <2>1, <2>2, Modulo
  <2> QED BY <2>3 DEF n
<1> HIDE DEF time
<1>4. /\ time \in 0 .. MaxTick /\ time # xTickCount
      /\ Left(xTickCount, time) = Delay[t]
  BY <1>2, <1>3 DEF Left
<1>5. /\ current = t /\ at[t] = "delay" /\ at'[t] = "resume"
      /\ \A u \in Tasks : u # t => at'[u] = at[u]
  BY <1>1, <1>2 DEF Runs, DelayInv, SuspensionInv, PcTypeOK
<1>6. t \in ToSet(ready) /\ t \notin Slept /\ t \notin ToSet(pending)
  BY <1>5 DEF DelayInv, ListInv, RunsReady, OutPc, EachOnce
<1>7. /\ ready' \in Seq(Tasks) /\ ToSet(ready)' = ToSet(ready) \ {t} /\ IsInjective(ready')
  <2>1. ready \in Seq(Tasks) /\ IsInjective(ready) /\ ToSet(ready) \subseteq Tasks
    BY DEF DelayInv, ListInv, KernelType, EachOnce, ToSet
  <2>2. /\ left \in Seq(Tasks) /\ ToSet(left) = ToSet(ready) \cap (Tasks \ {t})
        /\ IsInjective(left)
    BY <2>1, OnlyIs
  <2> HIDE DEF left
  <2> QED BY <1>1, <2>1, <2>2
<1> HIDE DEF left
<1>8. /\ delayed' \in Seq(Sleepers) /\ overflowed' \in Seq(Sleepers)
      /\ IsInjective(delayed') /\ IsInjective(overflowed')
      /\ ToSet(delayed)' = ToSet(delayed) \cup (IF time < xTickCount THEN {} ELSE {t})
      /\ ToSet(overflowed)' = ToSet(overflowed) \cup (IF time < xTickCount THEN {t} ELSE {})
  <2>1. /\ delayed \in Seq(Sleepers) /\ overflowed \in Seq(Sleepers)
        /\ IsInjective(delayed) /\ IsInjective(overflowed)
        /\ t \notin ToSet(delayed) /\ t \notin ToSet(overflowed)
    BY <1>6 DEF DelayInv, ListInv, KernelType, EachOnce, Slept
  <2>2. CASE time < xTickCount
    <3>1. /\ Append(overflowed, t) \in Seq(Sleepers)
          /\ ToSet(Append(overflowed, t)) = ToSet(overflowed) \cup {t}
          /\ IsInjective(Append(overflowed, t))
      BY <2>1, Appended
    <3>2. overflowed' = Append(overflowed, t) /\ delayed' = delayed
      BY <1>1, <2>2
    <3> QED BY <2>1, <2>2, <3>1, <3>2
  <2>3. CASE ~(time < xTickCount)
    <3>1. /\ Append(delayed, t) \in Seq(Sleepers)
          /\ ToSet(Append(delayed, t)) = ToSet(delayed) \cup {t}
          /\ IsInjective(Append(delayed, t))
      BY <2>1, Appended
    <3>2. overflowed' = overflowed /\ delayed' = Append(delayed, t)
      BY <1>1, <2>3
    <3> QED BY <2>1, <2>3, <3>1, <3>2
  <2> QED BY <2>2, <2>3
<1>9. Slept' = Slept \cup {t}
  <2>1. Slept' = ToSet(delayed)' \cup ToSet(overflowed)'
    BY DEF Slept
  <2> QED BY <1>8, <2>1 DEF Slept
<1>10. KernelType'
  <2>1. wake' \in [Tasks -> Ticks] /\ xNextTaskUnblockTime' \in Ticks
    BY <1>1, <1>2, <1>4 DEF DelayInv, ListInv, KernelType, Ticks
  <2> QED BY <1>1, <1>7, <1>8, <2>1 DEF DelayInv, ListInv, KernelType
<1>11. EachOnce'
  <2>1. waiting => Winc \notin ToSet(ready)' \cup ToSet(pending)
    BY <1>7 DEF DelayInv, ListInv, EachOnce
  <2>2. /\ ToSet(ready)' \cap Slept' = {} /\ ToSet(delayed)' \cap ToSet(overflowed)' = {}
        /\ ToSet(ready)' \cap ToSet(pending) = {}
    BY <1>6, <1>7, <1>8, <1>9 DEF DelayInv, ListInv, EachOnce, Slept
  <2>3. pending' = pending /\ waiting' = waiting /\ IsInjective(pending)
    BY <1>1 DEF DelayInv, ListInv, EachOnce
  <2> QED BY <1>7, <1>8, <2>1, <2>2, <2>3 DEF EachOnce
<1>12. Listed'
  <2>1. pending' = pending /\ waiting' = waiting
    BY <1>1
  <2>2. \A u \in Tasks : u \in ToSet(ready)' \cup Slept' \cup ToSet(pending) \/ (u = Winc /\ waiting)
    BY <1>7, <1>9 DEF DelayInv, ListInv, Listed
  <2> QED BY <2>1, <2>2 DEF Listed
<1>13. RunsReady'
  BY <1>1, <1>5 DEF RunsReady, OutPc
<1>14. /\ wake'[t] = time
       /\ \A u \in Tasks : u # t => wake'[u] = wake[u]
  BY <1>1, <1>2 DEF DelayInv, ListInv, KernelType
<1>15. DelayedBeforeWrap'
  <2>1. \A u \in Slept : u \in Tasks /\ u # t
    BY <1>6, SleptSleepers DEF Tasks
  <2>2. ASSUME NEW u \in ToSet(delayed)'
        PROVE  wake'[u] > xTickCount /\ xNextTaskUnblockTime' <= wake'[u]
    <3>1. xNextTaskUnblockTime' <= xNextTaskUnblockTime
      BY <1>1, <1>2, <1>4
    <3>2. CASE u \in ToSet(delayed)
      <4>1. u \in Tasks /\ wake'[u] = wake[u]
        BY <1>14, <2>1, <3>2 DEF Slept
      <4>2. wake[u] > xTickCount /\ xNextTaskUnblockTime <= wake[u]
        BY <3>2 DEF DelayInv, DelayedBeforeWrap
      <4>3. xNextTaskUnblockTime' \in Int /\ wake[u] \in Int
        BY <1>1, <1>2, <1>4, <4>1
      <4> QED BY <1>2, <3>1, <4>1, <4>2, <4>3
    <3>3. CASE u = t /\ ~(time < xTickCount)
      <4>1. xNextTaskUnblockTime' <= time
        BY <1>1, <1>2, <1>4, <3>3
      <4> QED BY <1>2, <1>4, <1>14, <3>3, <4>1
    <3> QED BY <1>8, <2>2, <3>2, <3>3
  <2>3. ASSUME NEW u \in ToSet(overflowed)' PROVE wake'[u] < xTickCount
    <3>1. CASE u \in ToSet(overflowed)
      <4>1. u \in Tasks /\ wake'[u] = wake[u]
        BY <1>14, <2>1, <3>1 DEF Slept
      <4> QED BY <3>1, <4>1 DEF DelayInv, DelayedBeforeWrap
    <3>2. CASE u = t /\ time < xTickCount
      BY <1>14, <3>2
    <3> QED BY <1>8, <2>3, <3>1, <3>2
  <2> QED BY <1>1, <2>2, <2>3 DEF DelayedBeforeWrap
<1>16. Accounts'
  <2>1. owed[t] = Positive(Delay[t] - uxMissedTicks)
    BY <1>5 DEF DelayInv, Accounts
  <2>2. \A u \in Slept : wake'[u] = wake[u]
    BY <1>6, <1>14, SleptSleepers DEF Tasks
  <2>3. \A u \in Slept' : owed[u] = Positive(Left(xTickCount, wake'[u]) - uxMissedTicks)
    BY <1>4, <1>9, <1>14, <2>1, <2>2 DEF DelayInv, Accounts
  <2>4. \A u \in Sleepers : at'[u] = "delay" => owed[u] = Positive(Delay[u] - uxMissedTicks)
    BY <1>5 DEF DelayInv, Accounts, Tasks
  <2> QED BY <1>1, <2>3, <2>4 DEF DelayInv, Accounts
<1>17. WakesOnTime
  <2>1. \A u \in Sleepers : Asleep(u)' <=> u \in Slept'
    BY DEF Asleep, Holds, ToSet, Slept
  <2> QED BY <1>9, <2>1, AsleepIs DEF WakesOnTime
<1> QED BY <1>10, <1>11, <1>12, <1>13, <1>15, <1>16, <1>17 DEF DelayInv, ListInv

\* vTaskPlaceOnEventList takes task_winc out of the ready list into that of the
\* semaphore.
LEMMA PlaceStep ==
  ASSUME KernelAssumption, DelayInv, SuspensionInv', Place
  PROVE  DelayInv' /\ WakesOnTime
<1> DEFINE left == Only(ready, Tasks \ {Winc})
<1>1. /\ Runs(Winc, "place", "unlock") /\ waiting' = TRUE /\ ready' = left
      /\ UNCHANGED <<tickVars, current, suspended, uxMissedTicks, pending, owed>>
  BY DEF Place, suspendVars, Unchanged
<1>2. Winc \in Tasks /\ Winc \notin Sleepers
  BY DEF KernelAssumption, Tasks
<1>3. /\ current = Winc /\ at[Winc] = "place" /\ at'[Winc] = "unlock"
      /\ \A u \in Tasks : u # Winc => at'[u] = at[u]
  BY <1>1, <1>2 DEF Runs, DelayInv, SuspensionInv, PcTypeOK
<1>4. Winc \in ToSet(ready) /\ Winc \notin ToSet(pending)
  BY <1>3 DEF DelayInv, ListInv, RunsReady, OutPc, EachOnce
<1>5. /\ ready' \in Seq(Tasks) /\ ToSet(ready)' = ToSet(ready) \ {Winc} /\ IsInjective(ready')
  <2>1. ready \in Seq(Tasks) /\ IsInjective(ready) /\ ToSet(ready) \subseteq Tasks
    BY DEF DelayInv, ListInv, KernelType, EachOnce, ToSet
  <2>2. /\ left \in Seq(Tasks) /\ ToSet(left) = ToSet(ready) \cap (Tasks \ {Winc})
        /\ IsInjective(left)
    BY <2>1, OnlyIs
  <2> HIDE DEF left
  <2> QED BY <1>1, <2>1, <2>2
<1> HIDE DEF left
<1>6. Slept' = Slept
  BY <1>1 DEF tickVars, Slept
<1>7. KernelType'
  BY <1>1, <1>5 DEF tickVars, DelayInv, ListInv, KernelType
<1>8. EachOnce'
  <2>1. pending' = pending /\ delayed' = delayed /\ overflowed' = overflowed
    BY <1>1 DEF tickVars
  <2> QED BY <1>4, <1>5, <1>6, <2>1 DEF DelayInv, ListInv, EachOnce
<1>9. Listed'
  BY <1>1, <1>5, <1>6 DEF DelayInv, ListInv, Listed
<1>10. RunsReady'
  BY <1>1, <1>3 DEF RunsReady, OutPc
<1>11. DelayedBeforeWrap'
  BY <1>1 DEF tickVars, DelayInv, DelayedBeforeWrap
<1>12. Accounts' /\ WakesOnTime
  <2>1. UNCHANGED <<tickVars, owed, uxMissedTicks>>
    BY <1>1
  <2>2. \A u \in Sleepers : at'[u] = "delay" => at[u] = "delay"
    BY <1>2, <1>3 DEF Tasks
  <2> QED BY <1>1, <2>1, <2>2, SameAccounts
<1> QED BY <1>7, <1>8, <1>9, <1>10, <1>11, <1>12 DEF DelayInv, ListInv

\* task_winc leaves the list of those that wait for the semaphore.
LEMMA WincWoken ==
  ASSUME KernelAssumption, DelayInv, waiting, ~waiting',
         UNCHANGED <<tickVars, owed, uxMissedTicks>>,
         \/ ToSet(ready)' = ToSet(ready) \cup {Winc} /\ pending' = pending
         \/ ToSet(ready)' = ToSet(ready) /\ pending' = Append(pending, Winc),
         ready' \in Seq(Tasks), IsInjective(ready'),
         current' \in Tasks, RunsReady'
  PROVE  ListInv' /\ DelayedBeforeWrap'
<1>1. /\ pending \in Seq({Winc}) /\ IsInjective(pending) /\ Winc \notin ToSet(pending)
      /\ Winc \notin ToSet(ready)
  BY DEF DelayInv, ListInv, KernelType, EachOnce
<1>2. /\ pending' \in Seq({Winc}) /\ IsInjective(pending')
      /\ ToSet(ready)' \cup ToSet(pending)' = ToSet(ready) \cup ToSet(pending) \cup {Winc}
      /\ ToSet(ready)' \cap ToSet(pending)' = {}
      /\ ToSet(ready)' \subseteq ToSet(ready) \cup {Winc}
  <2>1. CASE ToSet(ready)' = ToSet(ready) \cup {Winc} /\ pending' = pending
    <3>1. ToSet(pending)' = ToSet(pending)
      BY <2>1 DEF ToSet
    <3> QED BY <1>1, <2>1, <3>1 DEF DelayInv, ListInv, EachOnce
  <2>2. CASE ToSet(ready)' = ToSet(ready) /\ pending' = Append(pending, Winc)
    <3>1. /\ Append(pending, Winc) \in Seq({Winc}) /\ IsInjective(Append(pending, Winc))
          /\ ToSet(Append(pending, Winc)) = ToSet(pending) \cup {Winc}
      BY <1>1, Appended
    <3>2. ToSet(pending)' = ToSet(pending) \cup {Winc}
      BY <2>2, <3>1 DEF ToSet
    <3> QED BY <1>1, <2>2, <3>1, <3>2 DEF DelayInv, ListInv, EachOnce
  <2> QED BY <2>1, <2>2
<1>3. Slept' = Slept /\ Winc \notin Slept
  BY SleptSleepers DEF tickVars, Slept, KernelAssumption
<1>4. KernelType'
  BY <1>2 DEF tickVars, DelayInv, ListInv, KernelType
<1>5. EachOnce'
  <2>1. delayed' = delayed /\ overflowed' = overflowed
    BY DEF tickVars
  <2>2. ToSet(ready)' \cap Slept' = {}
    BY <1>2, <1>3 DEF DelayInv, ListInv, EachOnce
  <2> QED BY <1>2, <2>1, <2>2 DEF DelayInv, ListInv, EachOnce
<1>6. Listed'
  <2>1. \A t \in Tasks : t \in ToSet(ready)' \cup Slept' \cup ToSet(pending)'
    BY <1>2, <1>3 DEF DelayInv, ListInv, Listed
  <2> QED BY <2>1 DEF Listed
<1>7. DelayedBeforeWrap'
  BY DEF tickVars, DelayInv, DelayedBeforeWrap
<1> QED BY <1>4, <1>5, <1>6, <1>7 DEF ListInv

\* prvUnlockQueue wakes task_winc for a give that came while the queue was locked.
LEMMA UnlockStep ==
  ASSUME KernelAssumption, DelayInv, SuspensionInv',
         NEW here \in SuspendedPc(Winc), NEW there, here \in OutPc => there \in OutPc,
         Unlock(here, there)
  PROVE  DelayInv' /\ WakesOnTime
<1>1. /\ Runs(Winc, here, there)
      /\ UNCHANGED <<tickVars, runVars, suspended, uxMissedTicks, owed>>
  BY DEF Unlock
<1>2. CASE ~(xTxLock > 0 /\ waiting)
  <2>1. UNCHANGED <<waiting, pending>>
    BY <1>2 DEF Unlock
  <2>2. UNCHANGED <<tickVars, runVars, pending, waiting, owed, uxMissedTicks>>
    BY <1>1, <2>1
  <2>3. ~suspended' => ~suspended
    BY <1>1
  <2> QED BY <1>1, <2>2, <2>3, QuietStep
<1>3. CASE xTxLock > 0 /\ waiting
  <2>1. Winc \in Tasks /\ Winc \notin Sleepers
    BY DEF KernelAssumption, Tasks
  <2>2. suspended
    BY <1>1 DEF Runs, DelayInv, SuspensionInv, SuspensionExcludes
  <2>3. ~waiting' /\ pending' = Append(pending, Winc)
    BY <1>3, <2>2 DEF Unlock, RemoveFromEventList
  <2>4. RunsReady'
    BY <1>1, <2>1, Proceeds
  <2>5. /\ ready' \in Seq(Tasks) /\ ToSet(ready)' = ToSet(ready) /\ IsInjective(ready')
        /\ current' \in Tasks
    BY <1>1 DEF runVars, DelayInv, ListInv, KernelType, EachOnce, ToSet
  <2>6. ListInv' /\ DelayedBeforeWrap'
    <3>1. UNCHANGED <<tickVars, owed, uxMissedTicks>>
      BY <1>1
    <3> QED BY <1>3, <2>3, <2>4, <2>5, <3>1, WincWoken
  <2>7. \A t \in Sleepers : at'[t] = at[t]
    BY <1>1, <2>1 DEF Runs, DelayInv, SuspensionInv, PcTypeOK, Tasks
  <2>8. Accounts' /\ WakesOnTime
    <3>1. UNCHANGED <<tickVars, owed, uxMissedTicks>> /\ (~suspended' => ~suspended)
      BY <1>1
    <3> QED BY <2>7, <3>1, SameAccounts
  <2> QED BY <2>6, <2>8 DEF DelayInv
<1> QED BY <1>2, <1>3

\* The interrupt of the WINC gives the semaphore, and wakes task_winc into the ready or
\* the pending list.
LEMMA IsrStep ==
  ASSUME KernelAssumption, DelayInv, SuspensionInv', Isr
  PROVE  DelayInv' /\ WakesOnTime
<1> DEFINE wakes == ~semaphore /\ xTxLock = Unlocked /\ waiting
           r == IF ~semaphore /\ xTxLock = Unlocked /\ waiting /\ ~suspended
                THEN Append(ready, Winc) ELSE ready
<1>1. /\ UNCHANGED <<tickVars, suspended, uxMissedTicks, at, owed>>
      /\ IF woken' THEN SwitchContext(r)
         ELSE ready' = r /\ UNCHANGED <<current, xMissedYield>>
  BY DEF Isr
<1>2. /\ waiting' = (IF wakes THEN FALSE ELSE waiting)
      /\ pending' = IF wakes /\ suspended THEN Append(pending, Winc) ELSE pending
  <2>1. waiting \in BOOLEAN
    BY DEF DelayInv, SuspensionInv, PcTypeOK
  <2>2. CASE semaphore \/ xTxLock # Unlocked
    BY <2>2 DEF Isr
  <2>3. CASE ~semaphore /\ xTxLock = Unlocked
    BY <2>1, <2>3 DEF Isr, RemoveFromEventList
  <2> QED BY <2>2, <2>3
<1>3. /\ r \in Seq(Tasks) /\ IsInjective(r) /\ r # <<>>
      /\ ToSet(r) = IF wakes /\ ~suspended THEN ToSet(ready) \cup {Winc} ELSE ToSet(ready)
  <2>1. ready \in Seq(Tasks) /\ IsInjective(ready) /\ ready # <<>> /\ Winc \in Tasks
    BY IdleIsReady DEF DelayInv, ListInv, KernelType, EachOnce, Tasks
  <2>2. CASE wakes /\ ~suspended
    <3>1. Winc \notin ToSet(ready)
      BY <2>2 DEF DelayInv, ListInv, EachOnce
    <3>2. r = Append(ready, Winc)
      BY <2>2
    <3>3. /\ Append(ready, Winc) \in Seq(Tasks) /\ IsInjective(Append(ready, Winc))
          /\ ToSet(Append(ready, Winc)) = ToSet(ready) \cup {Winc}
      BY <2>1, <3>1, Appended
    <3>4. Append(ready, Winc) # <<>>
      BY <2>1
    <3> QED BY <2>2, <3>2, <3>3, <3>4
  <2>3. CASE ~(wakes /\ ~suspended)
    BY <2>1, <2>3
  <2> QED BY <2>2, <2>3
<1> HIDE DEF r, wakes
<1>4. /\ ready' \in Seq(Tasks) /\ IsInjective(ready') /\ ToSet(ready)' = ToSet(r)
      /\ current' = current \/ current' \in ToSet(r)
  <2>1. CASE woken'
    BY <1>1, <1>3, <2>1, Switched
  <2>2. CASE ~woken'
    BY <1>1, <1>3, <2>2 DEF ToSet
  <2> QED BY <2>1, <2>2
<1>5. current' \in Tasks /\ RunsReady'
  <2>1. ToSet(r) \subseteq Tasks /\ ToSet(ready) \subseteq ToSet(r) /\ at' = at
    <3>1. ToSet(r) \subseteq Tasks
      <4>1. r \in Seq(Tasks)
        BY <1>3
      <4> QED BY <4>1 DEF ToSet
    <3> QED BY <1>1, <1>3, <3>1
  <2> QED BY <1>4, <2>1 DEF DelayInv, ListInv, KernelType, RunsReady
<1>6. ListInv' /\ DelayedBeforeWrap'
  <2>1. UNCHANGED <<tickVars, owed, uxMissedTicks>>
    BY <1>1
  <2>2. CASE wakes
    <3>1. waiting /\ ~waiting'
      BY <1>2, <2>2 DEF wakes
    <3>2. \/ ToSet(ready)' = ToSet(ready) \cup {Winc} /\ pending' = pending
          \/ ToSet(ready)' = ToSet(ready) /\ pending' = Append(pending, Winc)
      BY <1>2, <1>3, <1>4, <2>2
    <3> QED BY <1>4, <1>5, <2>1, <3>1, <3>2, WincWoken
  <2>3. CASE ~wakes
    <3>1. UNCHANGED <<tickVars, pending, waiting>> /\ ToSet(ready)' = ToSet(ready)
      BY <1>1, <1>2, <1>3, <1>4, <2>3
    <3>2. owed' \in [Sleepers -> Nat] /\ uxMissedTicks' \in Nat
      BY <1>1 DEF DelayInv, ListInv, KernelType
    <3> QED BY <1>4, <1>5, <3>1, <3>2, SameLists
  <2> QED BY <2>2, <2>3
<1>7. Accounts' /\ WakesOnTime
  <2>1. UNCHANGED <<tickVars, owed, uxMissedTicks>> /\ (~suspended' => ~suspended) /\ at' = at
    BY <1>1
  <2> QED BY <2>1, SameAccounts
<1> QED BY <1>6, <1>7 DEF DelayInv

-----------------------------------------------------------------------------
(* The steps that count ticks. *)

\* The state of the lists with r as the ready list.
With(r) == [count |-> xTickCount, next |-> xNextTaskUnblockTime,
            delayed |-> delayed, overflowed |-> overflowed, ready |-> r]

\* xTaskResumeAll counts the missed ticks from the ready list with the pending tasks.
LEMMA ResumedFrom == With(ready \o pending) = [TickState EXCEPT !.ready = @ \o pending]
<1>1. TickState = [count |-> xTickCount, next |-> xNextTaskUnblockTime,
                   delayed |-> delayed, overflowed |-> overflowed, ready |-> ready]
  BY DEF TickState
<1> DEFINE r == ready \o pending
<1>2. TickState.ready = ready
  BY <1>1
<1>3. [TickState EXCEPT !.ready = @ \o pending] = [TickState EXCEPT !.ready = r]
  BY <1>2
<1> HIDE DEF r
<1>4. [TickState EXCEPT !.ready = r] = With(r)
  BY <1>1 DEF With
<1> QED BY <1>3, <1>4 DEF r

\* A ready list with no sleeping task is a state that ticks can be counted from.
LEMMA WithReady ==
  ASSUME KernelAssumption, DelayInv, NEW r \in Seq(Tasks), IsInjective(r),
         ToSet(r) \cap Slept = {}
  PROVE  /\ With(r) \in TickRecord /\ Sorted(With(r)) /\ Apart(With(r))
         /\ With(r).ready = r /\ With(r).count = xTickCount /\ Sleeping(With(r)) = Slept
         /\ \A t \in Slept : Left(xTickCount, wake[t]) \in 1 .. MaxTick
<1>1. With(r) \in TickRecord
  BY DEF With, TickRecord, DelayInv, ListInv, KernelType
<1>2. /\ With(r).ready = r /\ With(r).count = xTickCount /\ With(r).delayed = delayed
      /\ With(r).overflowed = overflowed /\ With(r).next = xNextTaskUnblockTime
  BY DEF With
<1>3. Sleeping(With(r)) = Slept
  BY <1>2 DEF Sleeping, Slept
<1>4. Sorted(With(r))
  BY <1>2 DEF Sorted, DelayInv, DelayedBeforeWrap
<1>5. Apart(With(r))
  BY <1>2, <1>3 DEF Apart, DelayInv, ListInv, EachOnce
<1>6. \A t \in Slept : Left(xTickCount, wake[t]) \in 1 .. MaxTick
  <2>1. wake \in [Tasks -> Ticks]
    BY DEF DelayInv, ListInv, KernelType
  <2> QED BY <1>1, <1>2, <1>3, <1>4, <2>1, LeftIsPositive
<1> QED BY <1>1, <1>2, <1>3, <1>4, <1>5, <1>6

\* n ticks that are counted at once, from a ready list r: all tasks are in their
\* lists again, and who is not made ready has n ticks less to wait.
LEMMA TicksCounted ==
  ASSUME KernelAssumption, DelayInv, NEW n \in Nat,
         NEW r \in Seq(Tasks), IsInjective(r), ToSet(r) \cap Slept = {},
         NEW u, u = Incremented(With(r), n), Become(u), wake' = wake,
         ready' \in Seq(Tasks), ToSet(ready)' = ToSet(u.ready),
         IsInjective(u.ready) => IsInjective(ready')
  PROVE  /\ xTickCount' \in Ticks /\ xNextTaskUnblockTime' \in Ticks
         /\ delayed' \in Seq(Sleepers) /\ overflowed' \in Seq(Sleepers)
         /\ IsInjective(ready') /\ IsInjective(delayed') /\ IsInjective(overflowed')
         /\ ToSet(ready)' \cap Slept' = {} /\ ToSet(delayed)' \cap ToSet(overflowed)' = {}
         /\ ToSet(ready)' \cup Slept' = ToSet(r) \cup Slept
         /\ ToSet(r) \subseteq ToSet(ready)'
         /\ DelayedBeforeWrap'
         /\ \A t \in Slept : Left(xTickCount, wake[t]) \in 1 .. MaxTick
         /\ \A t \in Slept : t \in Slept' <=> Left(xTickCount, wake[t]) > n
         /\ \A t \in Slept' :
              t \in Slept /\ Left(xTickCount', wake'[t]) = Left(xTickCount, wake[t]) - n
<1>1. /\ With(r) \in TickRecord /\ Sorted(With(r)) /\ Apart(With(r))
      /\ With(r).ready = r /\ With(r).count = xTickCount /\ Sleeping(With(r)) = Slept
      /\ \A t \in Slept : Left(xTickCount, wake[t]) \in 1 .. MaxTick
  BY WithReady
<1>2. wake \in [Tasks -> Ticks]
  BY DEF DelayInv, ListInv, KernelType
<1>3. Ticked(With(r), u, n)
  BY <1>1, <1>2, IncrementedIs
<1>4. /\ u \in TickRecord /\ Sorted(u) /\ Apart(u)
      /\ ToSet(u.ready) \cup Sleeping(u) = ToSet(r) \cup Slept
      /\ ToSet(r) \subseteq ToSet(u.ready)
      /\ \A t \in Slept : t \in Sleeping(u) <=> Left(xTickCount, wake[t]) > n
      /\ \A t \in Sleeping(u) :
           t \in Slept /\ Left(u.count, wake[t]) = Left(xTickCount, wake[t]) - n
  BY <1>1, <1>3 DEF Ticked
<1>5. /\ xTickCount' = u.count /\ xNextTaskUnblockTime' = u.next
      /\ delayed' = u.delayed /\ overflowed' = u.overflowed
  BY DEF Become
<1>6. Slept' = Sleeping(u) /\ ToSet(delayed)' = ToSet(u.delayed) /\ ToSet(overflowed)' = ToSet(u.overflowed)
  BY <1>5 DEF Slept, Sleeping, ToSet
<1>7. /\ xTickCount' \in Ticks /\ xNextTaskUnblockTime' \in Ticks
      /\ delayed' \in Seq(Sleepers) /\ overflowed' \in Seq(Sleepers)
  BY <1>4, <1>5 DEF TickRecord
<1>8. /\ IsInjective(ready') /\ IsInjective(delayed') /\ IsInjective(overflowed')
      /\ ToSet(ready)' \cap Slept' = {} /\ ToSet(delayed)' \cap ToSet(overflowed)' = {}
  BY <1>4, <1>5, <1>6 DEF Apart
<1>9. DelayedBeforeWrap'
  <2>1. /\ \A t \in ToSet(delayed)' : wake'[t] > xTickCount' /\ xNextTaskUnblockTime' <= wake'[t]
        /\ \A t \in ToSet(overflowed)' : wake'[t] < xTickCount'
    BY <1>4, <1>5, <1>6 DEF Sorted
  <2> QED BY <2>1 DEF DelayedBeforeWrap
<1>10. \A t \in Slept' :
         t \in Slept /\ Left(xTickCount', wake'[t]) = Left(xTickCount, wake[t]) - n
  BY <1>4, <1>5, <1>6
<1> QED BY <1>1, <1>4, <1>6, <1>7, <1>8, <1>9, <1>10

\* The idle task is ready after n ticks, too.
LEMMA StillReady ==
  ASSUME KernelAssumption, DelayInv, NEW n \in Nat,
         NEW r \in Seq(Tasks), IsInjective(r), ToSet(r) \cap Slept = {},
         ToSet(ready) \subseteq ToSet(r)
  PROVE  LET u == Incremented(With(r), n) IN
         u.ready \in Seq(Tasks) /\ u.ready # <<>> /\ ToSet(u.ready) \subseteq Tasks
<1> DEFINE u == Incremented(With(r), n)
<1>1. With(r) \in TickRecord /\ Sorted(With(r)) /\ Apart(With(r)) /\ With(r).ready = r
  BY WithReady
<1>2. wake \in [Tasks -> Ticks]
  BY DEF DelayInv, ListInv, KernelType
<1>3. Ticked(With(r), u, n)
  BY <1>1, <1>2, IncrementedIs
<1> HIDE DEF u
<1>4. u.ready \in Seq(Tasks) /\ ToSet(r) \subseteq ToSet(u.ready)
  BY <1>1, <1>3 DEF Ticked, TickRecord
<1>5. Idle \in ToSet(u.ready)
  BY <1>4, IdleIsReady DEF DelayInv
<1>6. u.ready # <<>>
  <2> SUFFICES ASSUME u.ready = <<>> PROVE FALSE
    OBVIOUS
  <2>1. DOMAIN u.ready = {}
    OBVIOUS
  <2> QED BY <1>5, <2>1 DEF ToSet
<1>7. ToSet(u.ready) \subseteq Tasks
  BY <1>4 DEF ToSet
<1> QED BY <1>4, <1>6, <1>7 DEF u

\* xTaskResumeAll makes the pending tasks ready and counts the missed ticks: a task that
\* it wakes is owed nothing, whatever number of ticks is counted at once.
LEMMA ResumeStep ==
  ASSUME KernelAssumption, DelayInv, SuspensionInv', NEW t \in Sleepers \cup {Winc},
         NEW here \in SuspendedPc(t), here # "delay", NEW yielded, NEW not,
         {yielded, not} \cap {"delay"} = {}, here \in OutPc => not \in OutPc,
         ResumeAll(t, here, yielded, not)
  PROVE  DelayInv' /\ WakesOnTime
<1> DEFINE r == ready \o pending
           n == uxMissedTicks
           u == Incremented(With(r), n)
           yield == pending # <<>> \/ uxMissedTicks > 0 \/ xMissedYield
<1>1. /\ Runs(t, here, IF yield THEN yielded ELSE not)
      /\ suspended' = FALSE /\ uxMissedTicks' = 0 /\ pending' = <<>>
      /\ Become(u)
      /\ IF yield
         THEN current' = Head(u.ready) /\ ready' = Append(Tail(u.ready), Head(u.ready))
         ELSE ready' = u.ready /\ UNCHANGED current
      /\ UNCHANGED <<wake, waiting, owed>>
  <2>1. With(r) = [TickState EXCEPT !.ready = @ \o pending]
    BY ResumedFrom
  <2> HIDE DEF r
  <2> QED BY <2>1 DEF ResumeAll, semaphoreVars
<1> HIDE DEF yield
<1>2. /\ t \in Tasks /\ n \in Nat
      /\ ready \in Seq(Tasks) /\ pending \in Seq(Tasks)
      /\ IsInjective(ready) /\ IsInjective(pending)
      /\ ToSet(pending) \subseteq {Winc} /\ Winc \notin Sleepers /\ Winc \in Tasks
  BY DEF KernelAssumption, DelayInv, ListInv, KernelType, EachOnce, Tasks, ToSet
<1>3. /\ r \in Seq(Tasks) /\ ToSet(r) = ToSet(ready) \cup ToSet(pending) /\ IsInjective(r)
      /\ ToSet(r) \cap Slept = {}
  <2>1. ToSet(ready) \cap ToSet(pending) = {} /\ ToSet(ready) \cap Slept = {}
        /\ Slept \subseteq Sleepers
    BY SleptSleepers DEF DelayInv, ListInv, EachOnce
  <2>2. /\ r \in Seq(Tasks) /\ ToSet(r) = ToSet(ready) \cup ToSet(pending) /\ IsInjective(r)
    BY <1>2, <2>1, Concatenated
  <2> HIDE DEF r
  <2> QED BY <1>2, <2>1, <2>2
<1> HIDE DEF r, n
<1>4. /\ u.ready \in Seq(Tasks) /\ u.ready # <<>> /\ ToSet(u.ready) \subseteq Tasks
  BY <1>2, <1>3, StillReady
<1>5. u = Incremented(With(r), n)
  OBVIOUS
<1> HIDE DEF u
<1>6. /\ ready' \in Seq(Tasks) /\ ToSet(ready)' = ToSet(u.ready)
      /\ IsInjective(u.ready) => IsInjective(ready')
      /\ IF yield THEN current' \in ToSet(u.ready) ELSE current' = current
  <2>1. CASE yield
    <3> DEFINE q == Append(Tail(u.ready), Head(u.ready))
    <3>1. /\ q \in Seq(Tasks) /\ ToSet(q) = ToSet(u.ready)
          /\ Head(u.ready) \in ToSet(u.ready)
          /\ IsInjective(u.ready) => IsInjective(q)
      BY <1>4, Turned
    <3>2. ready' = q /\ current' = Head(u.ready)
      BY <1>1, <2>1
    <3>3. ToSet(ready)' = ToSet(q)
      BY <3>2 DEF ToSet
    <3> HIDE DEF q
    <3> QED BY <2>1, <3>1, <3>2, <3>3
  <2>2. CASE ~yield
    BY <1>1, <1>4, <2>2 DEF ToSet
  <2> QED BY <2>1, <2>2
<1>7. /\ xTickCount' \in Ticks /\ xNextTaskUnblockTime' \in Ticks
      /\ delayed' \in Seq(Sleepers) /\ overflowed' \in Seq(Sleepers)
      /\ IsInjective(ready') /\ IsInjective(delayed') /\ IsInjective(overflowed')
      /\ ToSet(ready)' \cap Slept' = {} /\ ToSet(delayed)' \cap ToSet(overflowed)' = {}
      /\ ToSet(ready)' \cup Slept' = ToSet(r) \cup Slept
      /\ ToSet(r) \subseteq ToSet(ready)'
      /\ DelayedBeforeWrap'
      /\ \A v \in Slept : Left(xTickCount, wake[v]) \in 1 .. MaxTick
      /\ \A v \in Slept : v \in Slept' <=> Left(xTickCount, wake[v]) > n
      /\ \A v \in Slept' :
           v \in Slept /\ Left(xTickCount', wake'[v]) = Left(xTickCount, wake[v]) - n
  <2>1. wake' = wake
    BY <1>1
  <2> QED BY <1>1, <1>2, <1>3, <1>5, <1>6, <2>1, TicksCounted
<1>8. /\ current = t /\ at[t] = here /\ at'[t] = (IF yield THEN yielded ELSE not)
      /\ \A v \in Tasks : v # t => at'[v] = at[v]
  BY <1>1, <1>2 DEF Runs, DelayInv, SuspensionInv, PcTypeOK
<1>9. current' \in Tasks /\ RunsReady'
  <2>1. CASE yield
    BY <1>4, <1>6, <2>1 DEF RunsReady
  <2>2. CASE ~yield
    <3>1. current' = current /\ current \in Tasks /\ at'[current] = not
      BY <1>2, <1>6, <1>8, <2>2
    <3>2. CASE here \in OutPc
      BY <3>1, <3>2 DEF RunsReady
    <3>3. CASE here \notin OutPc
      <4>1. current \in ToSet(ready)
        BY <1>8, <3>3 DEF DelayInv, ListInv, RunsReady
      <4>2. current \in ToSet(ready)'
        BY <1>3, <1>7, <4>1
      <4> QED BY <3>1, <4>2 DEF RunsReady
    <3> QED BY <3>2, <3>3
  <2> QED BY <2>1, <2>2
<1>10. ToSet(pending)' = {} /\ pending' \in Seq({Winc}) /\ IsInjective(pending')
  <2>1. pending' = <<>>
    BY <1>1
  <2>2. DOMAIN pending' = {}
    BY <2>1
  <2> QED BY <2>1, <2>2 DEF ToSet, IsInjective
<1>11. KernelType'
  <2>1. wake' \in [Tasks -> Ticks] /\ owed' \in [Sleepers -> Nat] /\ uxMissedTicks' \in Nat
    BY <1>1 DEF DelayInv, ListInv, KernelType
  <2> QED BY <1>6, <1>7, <1>9, <1>10, <2>1 DEF KernelType
<1>12. EachOnce'
  <2>1. waiting' => Winc \notin ToSet(ready)' \cup ToSet(pending)'
    <3>1. waiting => Winc \notin ToSet(r) \cup Slept
      BY <1>2, <1>3, SleptSleepers DEF DelayInv, ListInv, EachOnce
    <3> QED BY <1>1, <1>7, <1>10, <3>1
  <2> QED BY <1>7, <1>10, <2>1 DEF EachOnce
<1>13. Listed'
  <2>1. \A v \in Tasks : v \in ToSet(ready)' \cup Slept' \/ (v = Winc /\ waiting)
    BY <1>3, <1>7 DEF DelayInv, ListInv, Listed
  <2>2. waiting' = waiting
    BY <1>1
  <2> QED BY <2>1, <2>2 DEF Listed
<1>14. n = uxMissedTicks
  BY DEF n
<1>15. Accounts'
  <2>1. ASSUME NEW v \in Slept'
        PROVE  owed'[v] = Positive(Left(xTickCount', wake'[v]) - uxMissedTicks')
    <3>1. /\ v \in Slept /\ Left(xTickCount', wake'[v]) = Left(xTickCount, wake[v]) - n
          /\ Left(xTickCount, wake[v]) > n /\ Left(xTickCount, wake[v]) \in 1 .. MaxTick
      BY <1>7
    <3>2. owed[v] = Positive(Left(xTickCount, wake[v]) - n)
      BY <1>14, <3>1 DEF DelayInv, Accounts
    <3> HIDE DEF Left
    <3> DEFINE l == Left(xTickCount, wake[v])
    <3>3. l \in Int
      BY <3>1
    <3>4. Positive(l - n) = Positive(l - n - 0)
      BY <1>2, <3>3 DEF Positive
    <3> QED BY <1>1, <3>1, <3>2, <3>4
  <2>2. \A v \in Sleepers : at'[v] # "delay"
    <3>1. ASSUME NEW v \in Sleepers, at'[v] = "delay" PROVE FALSE
      <4>1. v # t /\ v \in Tasks /\ v # Winc
        BY <1>2, <1>8, <3>1 DEF Tasks
      <4>2. at[v] = "delay"
        BY <1>8, <3>1, <4>1
      <4>3. current = v
        BY <4>1, <4>2 DEF DelayInv, SuspensionInv, SuspensionExcludes, SuspendedPc
      <4> QED BY <1>8, <4>1, <4>3
    <3> QED BY <3>1
  <2> QED BY <1>1, <2>1, <2>2 DEF Accounts
<1>16. WakesOnTime
  <2>1. \A v \in Sleepers : Asleep(v)' <=> v \in Slept'
    BY DEF Asleep, Holds, ToSet, Slept
  <2>2. ASSUME NEW v \in Slept, v \notin Slept' PROVE owed'[v] = 0
    <3>1. ~(Left(xTickCount, wake[v]) > n) /\ Left(xTickCount, wake[v]) \in 1 .. MaxTick
      BY <1>7, <2>2
    <3>2. owed[v] = Positive(Left(xTickCount, wake[v]) - n)
      BY <1>14 DEF DelayInv, Accounts
    <3> DEFINE l == Left(xTickCount, wake[v])
    <3> HIDE DEF l
    <3>3. ~(l > n) /\ l \in Int /\ owed[v] = Positive(l - n)
      BY <3>1, <3>2 DEF l
    <3> QED BY <1>1, <1>2, <3>3 DEF Positive
  <2> QED BY <2>1, <2>2, AsleepIs DEF WakesOnTime
<1> QED BY <1>7, <1>9, <1>11, <1>12, <1>13, <1>15, <1>16 DEF DelayInv, ListInv

-----------------------------------------------------------------------------
(* The lists and the delays, in every state. *)

\* A tick of the timer is counted, or missed while the scheduler is suspended: what is
\* owed to the tasks that sleep goes down by one in both cases.
LEMMA TickStep ==
  ASSUME KernelAssumption, DelayInv, SuspensionInv', Tick
  PROVE  DelayInv' /\ WakesOnTime
<1>1. /\ owed' = [t \in Sleepers |-> IF owed[t] > 0 THEN owed[t] - 1 ELSE 0]
      /\ UNCHANGED <<suspended, pending, waiting, at>>
  BY DEF Tick, semaphoreVars
<1>2. /\ owed \in [Sleepers -> Nat] /\ uxMissedTicks \in Nat
      /\ Slept \subseteq Sleepers
  BY SleptSleepers DEF DelayInv, ListInv, KernelType
<1>3. owed' \in [Sleepers -> Nat]
  BY <1>1, <1>2
<1>4. /\ \A t \in Slept : Left(xTickCount, wake[t]) \in 1 .. MaxTick
      /\ MaxTick \in Nat /\ \A t \in Sleepers : Delay[t] \in 1 .. MaxTick
  <2>1. ready \in Seq(Tasks) /\ IsInjective(ready) /\ ToSet(ready) \cap Slept = {}
    BY DEF DelayInv, ListInv, KernelType, EachOnce
  <2> QED BY <2>1, WithReady DEF KernelAssumption
<1>5. \A v \in Sleepers : Asleep(v)' <=> v \in Slept'
  BY DEF Asleep, Holds, ToSet, Slept
<1>6. CASE suspended
  <2>1. uxMissedTicks' = uxMissedTicks + 1 /\ SwitchContext(ready) /\ UNCHANGED tickVars
    BY <1>6 DEF Tick
  <2>2. ListInv' /\ DelayedBeforeWrap' /\ Slept' = Slept
    <3>1. UNCHANGED <<tickVars, pending, waiting>> /\ at' = at /\ suspended' = suspended
          /\ uxMissedTicks' \in Nat
      BY <1>1, <1>2, <2>1
    <3> QED BY <1>3, <2>1, <3>1, SwitchStep
  <2>3. ASSUME NEW t \in Sleepers, NEW l \in Int, owed[t] = Positive(l - uxMissedTicks)
        PROVE  owed'[t] = Positive(l - uxMissedTicks')
    BY <1>1, <1>2, <2>1, <2>3 DEF Positive
  <2>4. \A t \in Slept' : owed'[t] = Positive(Left(xTickCount', wake'[t]) - uxMissedTicks')
    <3>1. ASSUME NEW t \in Slept
          PROVE  owed'[t] = Positive(Left(xTickCount, wake[t]) - uxMissedTicks')
      <4>1. t \in Sleepers /\ Left(xTickCount, wake[t]) \in Int
        BY <1>2, <1>4
      <4>2. owed[t] = Positive(Left(xTickCount, wake[t]) - uxMissedTicks)
        BY DEF DelayInv, Accounts
      <4> HIDE DEF Left
      <4> QED BY <2>3, <4>1, <4>2
    <3> QED BY <2>1, <2>2, <3>1 DEF tickVars
  <2>5. \A t \in Sleepers : at'[t] = "delay" => owed'[t] = Positive(Delay[t] - uxMissedTicks')
    BY <1>1, <1>4, <2>3 DEF DelayInv, Accounts
  <2>6. Accounts'
    BY <1>1, <1>6, <2>4, <2>5 DEF Accounts
  <2>7. WakesOnTime
    BY <1>5, <2>2, AsleepIs DEF WakesOnTime
  <2> QED BY <2>2, <2>6, <2>7 DEF DelayInv
<1>7. CASE ~suspended
  <2> DEFINE u == Incremented(With(ready), 1)
  <2>1. With(ready) = TickState
    BY DEF With, TickState
  <2>2. /\ Become(u) /\ SwitchContext(u.ready)
        /\ wake' = wake /\ uxMissedTicks' = uxMissedTicks /\ uxMissedTicks = 0
    BY <1>7, <2>1 DEF Tick, DelayInv, Accounts
  <2>3. ready \in Seq(Tasks) /\ IsInjective(ready) /\ ToSet(ready) \cap Slept = {}
    BY DEF DelayInv, ListInv, KernelType, EachOnce
  <2>4. u.ready \in Seq(Tasks) /\ u.ready # <<>> /\ ToSet(u.ready) \subseteq Tasks
    BY <2>3, StillReady
  <2>5. u = Incremented(With(ready), 1)
    OBVIOUS
  <2> HIDE DEF u
  <2>6. /\ ready' \in Seq(Tasks) /\ ToSet(ready)' = ToSet(u.ready)
        /\ IsInjective(u.ready) => IsInjective(ready')
        /\ current' \in ToSet(u.ready)
    BY <1>7, <2>2, <2>4, Switched
  <2>7. /\ xTickCount' \in Ticks /\ xNextTaskUnblockTime' \in Ticks
        /\ delayed' \in Seq(Sleepers) /\ overflowed' \in Seq(Sleepers)
        /\ IsInjective(ready') /\ IsInjective(delayed') /\ IsInjective(overflowed')
        /\ ToSet(ready)' \cap Slept' = {} /\ ToSet(delayed)' \cap ToSet(overflowed)' = {}
        /\ ToSet(ready)' \cup Slept' = ToSet(ready) \cup Slept
        /\ ToSet(ready) \subseteq ToSet(ready)'
        /\ DelayedBeforeWrap'
        /\ \A v \in Slept : v \in Slept' <=> Left(xTickCount, wake[v]) > 1
        /\ \A v \in Slept' :
             v \in Slept /\ Left(xTickCount', wake'[v]) = Left(xTickCount, wake[v]) - 1
    <3>1. 1 \in Nat
      OBVIOUS
    <3> QED BY <2>2, <2>3, <2>5, <2>6, <3>1, TicksCounted
  <2>8. current' \in Tasks /\ RunsReady'
    BY <2>4, <2>6 DEF RunsReady
  <2>9. KernelType'
    <3>1. wake' \in [Tasks -> Ticks] /\ pending' \in Seq({Winc}) /\ uxMissedTicks' \in Nat
      BY <1>1, <2>2 DEF DelayInv, ListInv, KernelType
    <3> QED BY <1>3, <2>6, <2>7, <2>8, <3>1 DEF KernelType
  <2>10. pending' = pending /\ waiting' = waiting /\ ToSet(pending)' = ToSet(pending)
    BY <1>1 DEF ToSet
  <2>11. EachOnce'
    <3>1. /\ ToSet(pending) \subseteq {Winc} /\ Winc \notin Sleepers
          /\ ToSet(ready) \cap ToSet(pending) = {} /\ IsInjective(pending)
          /\ waiting => Winc \notin ToSet(ready) \cup ToSet(pending)
      <4>1. ToSet(pending) \subseteq {Winc}
        BY DEF DelayInv, ListInv, KernelType, ToSet
      <4> QED BY <4>1 DEF DelayInv, ListInv, EachOnce, KernelAssumption
    <3>2. ToSet(ready)' \subseteq ToSet(ready) \cup Sleepers
      BY <1>2, <2>7
    <3>3. /\ ToSet(ready)' \cap ToSet(pending) = {}
          /\ waiting => Winc \notin ToSet(ready)' \cup ToSet(pending)
      BY <3>1, <3>2
    <3> QED BY <2>7, <2>10, <3>1, <3>3 DEF EachOnce
  <2>12. Listed'
    <3>1. \A v \in Tasks : v \in ToSet(ready)' \cup Slept' \cup ToSet(pending) \/ (v = Winc /\ waiting)
      BY <2>7 DEF DelayInv, ListInv, Listed
    <3> QED BY <2>10, <3>1 DEF Listed
  <2>13. \A v \in Slept : owed[v] = Left(xTickCount, wake[v])
    <3>1. ASSUME NEW v \in Slept PROVE owed[v] = Left(xTickCount, wake[v])
      <4>1. owed[v] = Positive(Left(xTickCount, wake[v]) - uxMissedTicks)
            /\ Left(xTickCount, wake[v]) \in 1 .. MaxTick
        BY <1>4 DEF DelayInv, Accounts
      <4> HIDE DEF Left
      <4> QED BY <2>2, <4>1 DEF Positive
    <3> QED BY <3>1
  <2>14. Accounts'
    <3>1. ASSUME NEW v \in Slept'
          PROVE  owed'[v] = Positive(Left(xTickCount', wake'[v]) - uxMissedTicks')
      <4>1. /\ v \in Slept /\ v \in Sleepers
            /\ Left(xTickCount', wake'[v]) = Left(xTickCount, wake[v]) - 1
            /\ Left(xTickCount, wake[v]) > 1 /\ Left(xTickCount, wake[v]) \in 1 .. MaxTick
        BY <1>2, <1>4, <2>7
      <4> DEFINE l == Left(xTickCount, wake[v])
                 k == Left(xTickCount', wake'[v])
      <4>2. owed[v] = l /\ l > 1 /\ l \in Nat /\ k = l - 1 /\ owed'[v] = l - 1
        BY <1>1, <1>4, <2>13, <4>1
      <4> HIDE DEF l, k
      <4>3. owed'[v] = Positive(k - uxMissedTicks')
        BY <2>2, <4>2 DEF Positive
      <4> QED BY <4>3 DEF k
    <3>2. \A v \in Sleepers : at'[v] # "delay"
      <4>1. ASSUME NEW v \in Sleepers, at'[v] = "delay" PROVE FALSE
        <5>1. at[v] = "delay" /\ v # Winc
          BY <1>1, <4>1 DEF KernelAssumption
        <5> QED BY <1>7, <5>1 DEF DelayInv, SuspensionInv, SuspensionExcludes, SuspendedPc
      <4> QED BY <4>1
    <3> QED BY <1>1, <1>7, <2>2, <3>1, <3>2 DEF Accounts
  <2>15. WakesOnTime
    <3>1. ASSUME NEW v \in Slept, v \notin Slept' PROVE owed'[v] = 0
      <4>1. Left(xTickCount, wake[v]) = 1 /\ v \in Sleepers
        BY <1>2, <1>4, <2>7, <3>1
      <4>2. owed[v] = 1
        BY <2>13, <4>1
      <4> QED BY <1>1, <4>1, <4>2
    <3> QED BY <1>5, <3>1, AsleepIs DEF WakesOnTime
  <2> QED BY <2>7, <2>8, <2>9, <2>11, <2>12, <2>14, <2>15 DEF DelayInv, ListInv
<1> QED BY <1>6, <1>7

\* The ready list that the scheduler starts with holds every task once.
LEMMA OrderHoldsAll ==
  ASSUME NEW T, IsFiniteSet(T), NEW order \in SetToSeqs(T)
  PROVE  order \in Seq(T) /\ ToSet(order) = T /\ IsInjective(order)
<1> DEFINE n == Cardinality(T)
           D == 1 .. n
<1>1. n \in Nat
  BY FS_CardinalityType
<1>2. order \in [D -> T] /\ \A i, j \in D : i # j => order[i] # order[j]
  BY DEF SetToSeqs
<1>3. order \in Seq(T) /\ IsInjective(order)
  <2> HIDE DEF n
  <2>1. order \in Seq(T)
    BY <1>1, <1>2
  <2>2. IsInjective(order)
    BY <1>2 DEF IsInjective
  <2> QED BY <2>1, <2>2
<1>4. order \in Injection(D, T)
  BY <1>2, <1>3 DEF Injection
<1>5. IsFiniteSet(D) /\ Cardinality(D) = n
  <2> HIDE DEF n
  <2>1. 1 \in Int /\ n \in Int
    BY <1>1
  <2>2. Cardinality(1 .. n) = IF 1 > n THEN 0 ELSE n - 1 + 1
    BY <2>1, FS_Interval
  <2> QED BY <1>1, <2>1, <2>2, FS_Interval
<1>6. order \in Surjection(D, T)
  BY <1>4, <1>5, FS_Injection
<1> HIDE DEF n
<1>7. T \subseteq ToSet(order)
  BY <1>2, <1>6 DEF Surjection, ToSet
<1> QED BY <1>2, <1>3, <1>7 DEF ToSet

\* When the scheduler starts, every task is ready and nothing is owed to any.
LEMMA DelayInit == KernelAssumption /\ Init => DelayInv
<1> SUFFICES ASSUME KernelAssumption, Init PROVE DelayInv
  OBVIOUS
<1>1. SuspensionInv
  BY SuspensionInit
<1>2. ready \in Seq(Tasks) /\ ToSet(ready) = Tasks /\ IsInjective(ready)
  <2>1. PICK order \in SetToSeqs(Tasks) : ready = order
    BY DEF Init
  <2>2. IsFiniteSet(Tasks)
    BY DEF KernelAssumption
  <2> QED BY <2>1, <2>2, OrderHoldsAll
<1>3. \A s : s = <<>> => DOMAIN s = {} /\ ToSet(s) = {} /\ IsInjective(s)
  <2> SUFFICES ASSUME NEW s, s = <<>> PROVE DOMAIN s = {} /\ ToSet(s) = {} /\ IsInjective(s)
    OBVIOUS
  <2>1. DOMAIN s = {}
    OBVIOUS
  <2> QED BY <2>1 DEF ToSet, IsInjective
<1>4. /\ delayed = <<>> /\ overflowed = <<>> /\ pending = <<>>
      /\ xTickCount = 0 /\ xNextTaskUnblockTime = MaxTick /\ wake = [t \in Tasks |-> 0]
      /\ suspended = FALSE /\ uxMissedTicks = 0 /\ waiting = FALSE
      /\ owed = [t \in Sleepers |-> 0] /\ current = Last(ready)
      /\ at = [t \in Tasks |-> IF t = Winc THEN "test" ELSE "run"]
  BY DEF Init
<1>5. /\ ToSet(delayed) = {} /\ ToSet(overflowed) = {} /\ ToSet(pending) = {} /\ Slept = {}
      /\ IsInjective(delayed) /\ IsInjective(overflowed) /\ IsInjective(pending)
  BY <1>3, <1>4 DEF Slept
<1>6. current \in Tasks
  <2>1. Winc \in ToSet(ready)
    BY <1>2 DEF Tasks
  <2>2. ready # <<>>
    <3> SUFFICES ASSUME ready = <<>> PROVE FALSE
      OBVIOUS
    <3> QED BY <1>3, <2>1
  <2>3. Len(ready) \in 1 .. Len(ready)
    BY <1>2, <2>2
  <2> QED BY <1>2, <1>4, <2>3 DEF Last
<1>7. KernelType
  <2>1. 0 \in Ticks /\ MaxTick \in Ticks
    BY DEF KernelAssumption, Ticks
  <2> QED BY <1>2, <1>4, <1>6, <2>1 DEF KernelType
<1>8. EachOnce
  BY <1>2, <1>4, <1>5 DEF EachOnce
<1>9. Listed /\ RunsReady
  BY <1>2, <1>6 DEF Listed, RunsReady
<1>10. DelayedBeforeWrap
  BY <1>5 DEF DelayedBeforeWrap
<1>11. Accounts
  BY <1>4, <1>5 DEF Accounts, KernelAssumption, Tasks
<1> QED BY <1>1, <1>7, <1>8, <1>9, <1>10, <1>11 DEF DelayInv, ListInv

\* Every step of the kernel keeps the invariant of the lists and the delays, and wakes
\* no task early.
LEMMA DelayStep == KernelAssumption /\ DelayInv /\ [Next]_vars => DelayInv' /\ (WakesOnTime \/ UNCHANGED vars)
<1> SUFFICES ASSUME KernelAssumption, DelayInv, [Next]_vars
             PROVE  DelayInv' /\ (WakesOnTime \/ UNCHANGED vars)
  OBVIOUS
<1>1. SuspensionInv'
  BY SuspensionStep DEF DelayInv
<1>2. CASE Tick
  BY <1>1, <1>2, TickStep
<1>3. ASSUME NEW t \in Sleepers, Sleep(t) PROVE DelayInv' /\ WakesOnTime
  <2>1. t # Winc
    BY DEF KernelAssumption
  <2>2. CASE ResumeAll(t, "resume", "run", "yield")
    <3>1. "resume" \in SuspendedPc(t) /\ "yield" \in OutPc
      BY <2>1 DEF SuspendedPc, OutPc
    <3> QED BY <1>1, <2>2, <3>1, ResumeStep
  <2>3. CASE Yield(t, "run")
    BY <1>1, <2>3, YieldStep
  <2> QED BY <1>1, <1>3, <2>2, <2>3, StartDelayStep, DelayCurrentStep DEF Sleep
<1>4. ASSUME NEW here, NEW there, Runs(Winc, here, there), here \in OutPc => there \in OutPc,
             UNCHANGED <<runVars, waiting, uxMissedTicks>>, Unchanged, ~suspended' => ~suspended
      PROVE  DelayInv' /\ WakesOnTime
  <2>1. UNCHANGED <<tickVars, runVars, pending, waiting, owed, uxMissedTicks>>
    BY <1>4 DEF Unchanged
  <2> QED BY <1>1, <1>4, <2>1, QuietStep
<1>5. ASSUME WincStep PROVE DelayInv' /\ WakesOnTime
  <2>1. CASE Work
    <3>1. Runs(Winc, "work", "test") /\ "work" \notin OutPc
      BY <2>1 DEF Work, OutPc
    <3>2. UNCHANGED <<runVars, waiting, uxMissedTicks>> /\ Unchanged /\ (~suspended' => ~suspended)
      BY <2>1 DEF Work, suspendVars, semaphoreVars
    <3> QED BY <1>4, <3>1, <3>2
  <2>2. CASE Test
    <3>1. Runs(Winc, "test", IF semaphore THEN "work" ELSE "suspend") /\ "test" \notin OutPc
      BY <2>2 DEF Test, OutPc
    <3>2. UNCHANGED <<runVars, waiting, uxMissedTicks>> /\ Unchanged /\ (~suspended' => ~suspended)
      BY <2>2 DEF Test, suspendVars
    <3> QED BY <1>4, <3>1, <3>2
  <2>3. CASE Suspend
    <3>1. Runs(Winc, "suspend", "lock") /\ "suspend" \notin OutPc
      BY <2>3 DEF Suspend, OutPc
    <3>2. UNCHANGED <<runVars, waiting, uxMissedTicks>> /\ Unchanged /\ (~suspended' => ~suspended)
      BY <2>3 DEF Suspend, SuspendAll, semaphoreVars
    <3> QED BY <1>4, <3>1, <3>2
  <2>4. CASE Lock
    <3>1. Runs(Winc, "lock", "ask") /\ "lock" \notin OutPc
      BY <2>4 DEF Lock, OutPc
    <3>2. UNCHANGED <<runVars, waiting, uxMissedTicks>> /\ Unchanged /\ (~suspended' => ~suspended)
      BY <2>4 DEF Lock, suspendVars
    <3> QED BY <1>4, <3>1, <3>2
  <2>5. CASE Ask
    <3>1. Runs(Winc, "ask", IF semaphore THEN "unlockAgain" ELSE "place") /\ "ask" \notin OutPc
      BY <2>5 DEF Ask, OutPc
    <3>2. UNCHANGED <<runVars, waiting, uxMissedTicks>> /\ Unchanged /\ (~suspended' => ~suspended)
      BY <2>5 DEF Ask, suspendVars, semaphoreVars
    <3> QED BY <1>4, <3>1, <3>2
  <2>6. CASE Unlocks("unlocked", "resume")
    <3>1. Runs(Winc, "unlocked", "resume") /\ "resume" \in OutPc
      BY <2>6 DEF Unlocks, OutPc
    <3>2. UNCHANGED <<runVars, waiting, uxMissedTicks>> /\ Unchanged /\ (~suspended' => ~suspended)
      BY <2>6 DEF Unlocks, suspendVars
    <3> QED BY <1>4, <3>1, <3>2
  <2>7. CASE Unlocks("unlockedAgain", "resumeAgain")
    <3>1. Runs(Winc, "unlockedAgain", "resumeAgain") /\ "unlockedAgain" \notin OutPc
      BY <2>7 DEF Unlocks, OutPc
    <3>2. UNCHANGED <<runVars, waiting, uxMissedTicks>> /\ Unchanged /\ (~suspended' => ~suspended)
      BY <2>7 DEF Unlocks, suspendVars
    <3> QED BY <1>4, <3>1, <3>2
  <2>8. CASE Unlock("unlock", "unlocked")
    <3>1. "unlock" \in SuspendedPc(Winc) /\ "unlocked" \in OutPc
      BY DEF SuspendedPc, OutPc
    <3> QED BY <1>1, <2>8, <3>1, UnlockStep
  <2>9. CASE Unlock("unlockAgain", "unlockedAgain")
    <3>1. "unlockAgain" \in SuspendedPc(Winc) /\ "unlockAgain" \notin OutPc
      BY DEF SuspendedPc, OutPc
    <3> QED BY <1>1, <2>9, <3>1, UnlockStep
  <2>10. CASE ResumeAll(Winc, "resume", "test", "yield")
    <3>1. "resume" \in SuspendedPc(Winc) /\ "yield" \in OutPc
      BY DEF SuspendedPc, OutPc
    <3> QED BY <1>1, <2>10, <3>1, ResumeStep
  <2>11. CASE ResumeAll(Winc, "resumeAgain", "test", "test")
    <3>1. "resumeAgain" \in SuspendedPc(Winc) /\ "resumeAgain" \notin OutPc
      BY DEF SuspendedPc, OutPc
    <3> QED BY <1>1, <2>11, <3>1, ResumeStep
  <2>12. CASE Yield(Winc, "test")
    BY <1>1, <2>12, YieldStep
  <2>13. CASE Place
    BY <1>1, <2>13, PlaceStep
  <2> QED BY <1>5, <2>1, <2>2, <2>3, <2>4, <2>5, <2>6, <2>7, <2>8, <2>9, <2>10, <2>11, <2>12, <2>13
         DEF WincStep, TakeSemaphore
<1>6. CASE IdleYields
  BY <1>1, <1>6, IdleYieldsStep
<1>7. CASE Isr
  BY <1>1, <1>7, IsrStep
<1>8. CASE UNCHANGED vars
  <2>1. ListInv'
    <3>1. /\ UNCHANGED <<tickVars, pending, waiting>> /\ ready' = ready /\ current' = current
          /\ owed' = owed /\ uxMissedTicks' = uxMissedTicks /\ at' = at
      BY <1>8 DEF vars, runVars, suspendVars, semaphoreVars
    <3>2. /\ ready' \in Seq(Tasks) /\ ToSet(ready)' = ToSet(ready) /\ IsInjective(ready')
          /\ current' \in Tasks /\ RunsReady'
          /\ owed' \in [Sleepers -> Nat] /\ uxMissedTicks' \in Nat
      BY <3>1 DEF DelayInv, ListInv, KernelType, EachOnce, RunsReady, ToSet
    <3> QED BY <3>1, <3>2, SameLists
  <2>2. DelayedBeforeWrap'
    BY <1>8 DEF vars, tickVars, DelayInv, DelayedBeforeWrap
  <2>3. Accounts'
    BY <1>8 DEF vars, tickVars, suspendVars, DelayInv, Accounts, Slept
  <2> QED BY <1>1, <1>8, <2>1, <2>2, <2>3 DEF DelayInv
<1> QED BY <1>2, <1>3, <1>5, <1>6, <1>7, <1>8 DEF Next

\* The invariant of the lists and the delays holds in every state.
LEMMA DelayInvHolds == Spec => []DelayInv
<1>1. Init => DelayInv
  BY DelayInit, KernelAssumption
<1>2. DelayInv /\ [Next]_vars => DelayInv'
  BY DelayStep, KernelAssumption
<1> QED BY <1>1, <1>2, PTL DEF Spec

\* Every task is in one list of the kernel: ready, delayed, pending or waiting. No
\* removal in tasks.c is of a task that is not there, and none is inserted twice.
THEOREM ListsApart == Spec => []OneListEach
<1>1. DelayInv => OneListEach
  BY ListInvImplies, KernelAssumption DEF DelayInv
<1> QED BY <1>1, DelayInvHolds, PTL

\* The delayed list holds the wake times before the wrap of xTickCount, the overflow
\* list those after it, whatever number of ticks is counted at once.
THEOREM DelaysSorted == Spec => []DelayedBeforeWrap
<1>1. DelayInv => DelayedBeforeWrap
  BY DEF DelayInv
<1> QED BY <1>1, DelayInvHolds, PTL

\* No task sleeps on when its delay is over, for every delay and every number of ticks
\* missed while the scheduler was suspended.
THEOREM DelaysNotLate == Spec => []NeverLate
<1>1. DelayInv => NeverLate
  BY AccountsImply, KernelAssumption DEF DelayInv
<1> QED BY <1>1, DelayInvHolds, PTL

\* No task is woken before its delay is over, whatever number of missed ticks
\* xTaskResumeAll counts at once.
THEOREM DelaysNotEarly == Spec => NeverEarly
<1>1. DelayInv /\ [Next]_vars => [WakesOnTime]_vars
  BY DelayStep, KernelAssumption
<1>2. Spec => [][WakesOnTime]_vars
  BY <1>1, DelayInvHolds, PTL DEF Spec
<1> QED BY <1>2 DEF NeverEarly, WakesOnTime
=============================================================================
