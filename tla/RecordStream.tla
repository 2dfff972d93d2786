---------------------------- MODULE RecordStream ----------------------------
(***************************************************************************)
(* What the acquisition promises to whoever keeps its data: the records of  *)
(* the digitiser, one after another, each from its first byte to its last,  *)
(* in order, with nothing left out, repeated or mixed.                      *)
(*                                                                         *)
(* seg is the piece of data last handed over: the record it was sampled in, *)
(* its offset and length in that record, and the length of the record.      *)
(***************************************************************************)
EXTENDS Naturals

VARIABLE seg

Init == seg = [rec |-> 0, pos |-> 0, len |-> 0, total |-> 0]

\* The next piece of the record that is under way.
Continue ==
    \E n \in 1 .. seg.total - (seg.pos + seg.len) :
        seg' = [rec |-> seg.rec, pos |-> seg.pos + seg.len, len |-> n, total |-> seg.total]

\* The first piece of the next record, of any length, once the record under
\* way is complete.
Begin ==
    /\ seg.pos + seg.len = seg.total
    /\ seg' = [rec |-> seg.rec + 1, pos |-> 0, len |-> seg'.len, total |-> seg'.total]
    /\ seg'.total \in Nat /\ seg'.len \in 1 .. seg'.total

Next == Continue \/ Begin

Spec == Init /\ [][Next]_seg
=============================================================================
