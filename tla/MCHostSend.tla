----------------------------- MODULE MCHostSend -----------------------------
(***************************************************************************)
(* Instances of HostSend: task_winc and task_send_status, two buffers and  *)
(* two sizes of messages.                                                  *)
(***************************************************************************)
EXTENDS HostSend

CONSTANTS winc, status
=============================================================================
