------------------------- MODULE PersistentSettings -------------------------
(***************************************************************************)
(* What the settings store promises to task_winc, whatever happens to its  *)
(* blocks and its power: between two writes it keeps what it has; a write  *)
(* leaves the new message, what was there before or nothing readable.  So  *)
(* a message that once gave way to another or to nothing never comes back  *)
(* unless it is written again.                                             *)
(***************************************************************************)

CONSTANTS Message, Nothing

VARIABLES
  saved,     \* what a restart would restore
  pending    \* the message being written

Init == saved = Nothing /\ pending = Nothing

Begin ==
  /\ pending = Nothing
  /\ pending' \in Message
  /\ UNCHANGED saved

\* One step of a write, which it may be the last of.
Progress ==
  /\ pending # Nothing
  /\ saved' \in {saved, pending, Nothing}
  /\ pending' \in {pending, Nothing}

Next == Begin \/ Progress

Spec == Init /\ [][Next]_<<saved, pending>>
=============================================================================
