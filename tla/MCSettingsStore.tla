--------------------------- MODULE MCSettingsStore ---------------------------
(* An instance of SettingsStore for TLC. *)
EXTENDS SettingsStore

ThreeMessages == {"a", "b", "c"}
=============================================================================
