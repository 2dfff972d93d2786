---------------------------- MODULE MCRegisters ----------------------------
(***************************************************************************)
(* Registers for TLC: configurations that between them use every row of     *)
(* every table, the shortest and the longest code that the buffers hold,    *)
(* the first and the last sample rate, the longest impulse whose cycles TLC  *)
(* can count, and one setting that no table has.                            *)
(***************************************************************************)
EXTENDS Registers

Settings(wm, sm, fs, lp, is, rate, width, n) ==
    [WorkMode |-> wm, SyncMode |-> sm, FullScalRange |-> fs, LpfFilter |-> lp,
     InputSource |-> is, AdcSamplingRates |-> rate, ImpulseWidth |-> width,
     SequenceLength |-> n]

SampleInis == {
    Settings(1, 0, 3000000, 0, 1, 0, 1, 5),
    Settings(2, 1, 300000, 12, 2, 5, 100000, 11),
    Settings(1, 1, 30000, 120, 3, 2, 500, 8),
    Settings(2, 0, 3000, 1200, 1, 3, 1000000, 5),
    Settings(1, 0, 300, 0, 3, 4, 7, 11),
    Settings(2, 1, 5, 12, 4, 1, 20000, 8),
    Settings(1, 0, 300, 0, 3, 4, 53687091, 1)}
=============================================================================
