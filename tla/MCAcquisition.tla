---------------------------- MODULE MCAcquisition ----------------------------
(***************************************************************************)
(* Acquisition for TLC.  A package is 2 bytes and a bank is 4, so a record  *)
(* of 2 bytes is exactly one package, one of 3 takes two sends, one of 8    *)
(* exactly two banks, and one of 9 comes back to bank A.                    *)
(***************************************************************************)
EXTENDS AcquisitionInv

Lengths == {2, 3, 8, 9}
EverySetting == [len : Lengths, savePC : {0, 1}]
PcRecords == [len : {3, 9}, savePC : {1}]
SdRecords == [len : {3}, savePC : {0}]
SomeOfEach == {[len |-> 9, savePC |-> 1], [len |-> 6, savePC |-> 0]}

StopInRecord == Assumptions \ {"stop"}
StopOnTrigger == Assumptions \ {"calm", "stop"}
Nothing == {}
=============================================================================
