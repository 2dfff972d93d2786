----------------------------- MODULE MCIrqDriver -----------------------------
(***************************************************************************)
(* IrqDriver for TLC: one reading thread, as main.c uses each device.       *)
(* Nothing is counted, so the state space is finite without a bound.        *)
(***************************************************************************)
EXTENDS IrqDriver
=============================================================================
