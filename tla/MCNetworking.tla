---------------------------- MODULE MCNetworking ----------------------------
(* An instance of Networking for TLC: three TCP and two UDP handles, where   *)
(* the driver has seven and four.                                            *)
EXTENDS Networking
=============================================================================
