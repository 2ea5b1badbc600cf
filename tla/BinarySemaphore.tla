--------------------------- MODULE BinarySemaphore ---------------------------
(***************************************************************************)
(* What a task that works on request is promised by the binary semaphore   *)
(* it waits for: it is given while the task is at work or not, and a task  *)
(* that is not at work comes for it, once for all gives before.            *)
(***************************************************************************)
VARIABLES given, working

Init == given = TRUE /\ working = FALSE

Give == given' = TRUE /\ UNCHANGED working

Take ==
  /\ given /\ ~working
  /\ given' = FALSE
  /\ working' = TRUE

Finish ==
  /\ working
  /\ working' = FALSE
  /\ UNCHANGED given

Spec ==
  /\ Init
  /\ [][Give \/ Take \/ Finish]_<<given, working>>
  /\ WF_<<given, working>>(Take)
=============================================================================
