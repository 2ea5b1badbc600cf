------------------------------ MODULE MCKernel ------------------------------
(***************************************************************************)
(* Instances of Kernel: two tasks that delay, one of them for almost a     *)
(* whole round of the tick count, so that their wake times fall on both    *)
(* sides of the wrap.                                                      *)
(***************************************************************************)
EXTENDS Kernel

CONSTANTS led, status, control

ShortAndLong == (led :> MaxTick) @@ (status :> 1)

=============================================================================
