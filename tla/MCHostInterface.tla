--------------------------- MODULE MCHostInterface ---------------------------
(* An instance of HostInterface for TLC. *)
EXTENDS HostInterface

\* Every transfer can fail.
MCAllFaults == BusPc
=============================================================================
